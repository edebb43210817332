-------------------------- MODULE CalculatorProofs --------------------------
(***************************************************************************)
(* Proofs about Parser and Calculator, for every text of every length,     *)
(* every number of runs and every amount of memory and of failures.        *)
(*                                                                         *)
(* Trees, calls of the parser and spans of the grammar are recursive       *)
(* functions; that each is what its equation says is shown by induction    *)
(* on a weight that falls from a call to the calls it makes.  Then the     *)
(* parser is sound (a tree it returns is one the grammar gives for the     *)
(* tokens it has read, and its ids grow from the operands to the node) and *)
(* complete (where the grammar gives a term there is a tree), so that the  *)
(* grammar has one term for a text at most.  The ids make the C that is    *)
(* written for a tree declare each variable once and before its uses.      *)
(*                                                                         *)
(* The invariant of the runs rests on these two: PlacesInv says where the  *)
(* processes are and what they have, MeaningInv that what is written,      *)
(* compiled, loaded and printed in a clean run is of its text.             *)
(***************************************************************************)
EXTENDS Calculator, SequenceTheorems, WellFoundedInduction, TLAPS

-----------------------------------------------------------------------------
(* Induction over natural numbers.                                         *)

\* A set of natural numbers with 0 and the successor of each is all of them, up to m.
LEMMA Upwards ==
    ASSUME NEW m \in Nat, NEW S, 0 \in S, \A n \in 0 .. m - 1 : n \in S => n + 1 \in S
    PROVE  0 .. m \subseteq S
<1> SUFFICES ASSUME (0 .. m) \ S # {} PROVE FALSE
  OBVIOUS
<1> DEFINE T == (0 .. m) \ S
<1>1. T \in SUBSET Nat
  OBVIOUS
<1>2. PICK x \in T : \A y \in T : ~ (<<y, x>> \in OpToRel(<, Nat))
  BY <1>1, NatLessThanWellFounded, WFMin
<1>3. x \in 0 .. m /\ x # 0 /\ x \notin S
  OBVIOUS
<1>4. x - 1 \in 0 .. m - 1 /\ x - 1 \in Nat /\ x \in Nat /\ x - 1 < x
  BY <1>3
<1>5. x - 1 \in S
  <2>1. x - 1 \notin T
    BY <1>2, <1>4 DEF OpToRel
  <2>2. x - 1 \in 0 .. m
    BY <1>4
  <2> QED
    BY <2>1, <2>2
<1>6. (x - 1) + 1 \in S
  BY <1>4, <1>5
<1> QED
  BY <1>3, <1>4, <1>6

\* The nodes over subtrees in T.
Over(T) == [op : NodeOps, id : Nat, val : Nat, left : T, right : T]

\* Null is no record of a node.
LEMMA NullIsNoNode == ASSUME NEW T PROVE Null \notin Over(T)
<1> SUFFICES ASSUME Null \in Over(T) PROVE FALSE
  OBVIOUS
<1>1. DOMAIN Null = {"op", "id", "val", "left", "right"}
  BY DEF Over
<1>2. DOMAIN Null = {}
  BY DEF Null
<1> QED
  BY <1>1, <1>2

\* What the levels of trees are.
LEMMA DagsAre ==
    /\ Dags[0] = {Null}
    /\ \A n \in 0 .. MaxText - 1 : Dags[n + 1] = {Null} \cup Over(Dags[n])
<1> DEFINE Body(g, n) == IF n = 0 THEN {Null} ELSE {Null} \cup Over(g[n - 1])
           S == {n \in Nat : \E g : g = [i \in 0 .. n |-> Body(g, i)]}
<1>1. MaxText \in Nat
  BY TextAssumption
<1>2. 0 \in S
  <2> DEFINE g == [i \in 0 .. 0 |-> {Null}]
  <2>1. g = [i \in 0 .. 0 |-> Body(g, i)]
    OBVIOUS
  <2> QED
    BY <2>1
<1>3. \A n \in 0 .. MaxText - 1 : n \in S => n + 1 \in S
  <2> SUFFICES ASSUME NEW n \in 0 .. MaxText - 1, n \in S PROVE n + 1 \in S
    OBVIOUS
  <2>1. PICK g : g = [i \in 0 .. n |-> Body(g, i)]
    OBVIOUS
  <2> DEFINE h == [i \in 0 .. n + 1 |-> Body(g, i)]
  <2>2. \A i \in 0 .. n : h[i] = g[i]
    <3> TAKE i \in 0 .. n
    <3>1. i \in 0 .. n + 1
      BY <1>1
    <3> HIDE DEF Body
    <3>2. g[i] = Body(g, i)
      BY <2>1
    <3>3. h[i] = Body(g, i)
      BY <3>1
    <3> QED
      BY <3>2, <3>3
  <2>3. \A i \in 0 .. n + 1 : Body(g, i) = Body(h, i)
    <3> TAKE i \in 0 .. n + 1
    <3>1. CASE i = 0
      BY <3>1
    <3>2. CASE i # 0
      <4>1. i - 1 \in 0 .. n
        BY <1>1, <3>2
      <4>2. h[i - 1] = g[i - 1]
        BY <2>2, <4>1
      <4> HIDE DEF h
      <4> QED
        BY <3>2, <4>2
    <3> QED
      BY <3>1, <3>2
  <2>4. h = [i \in 0 .. n + 1 |-> Body(h, i)]
    BY <2>3
  <2> HIDE DEF h
  <2> QED
    BY <1>1, <2>4
<1>4. MaxText \in S
  <2> HIDE DEF S
  <2>1. 0 .. MaxText \subseteq S
    BY <1>1, <1>2, <1>3, Upwards
  <2> QED
    BY <1>1, <2>1
<1>5. \E g : g = [n \in 0 .. MaxText |-> Body(g, n)]
  BY <1>4
<1>6. Dags = [n \in 0 .. MaxText |-> Body(Dags, n)]
  <2>1. Dags = CHOOSE g : g = [n \in 0 .. MaxText |-> Body(g, n)]
    BY DEF Dags, Over
  <2> HIDE DEF Body
  <2> QED
    BY <1>5, <2>1
<1>7. Dags[0] = Body(Dags, 0)
  BY <1>1, <1>6
<1>8. \A n \in 0 .. MaxText - 1 : Dags[n + 1] = {Null} \cup Over(Dags[n])
  <2> TAKE n \in 0 .. MaxText - 1
  <2>1. n + 1 \in 0 .. MaxText /\ n + 1 # 0 /\ (n + 1) - 1 = n
    BY <1>1
  <2>2. Dags[n + 1] = Body(Dags, n + 1)
    BY <1>6, <2>1
  <2> QED
    BY <2>1, <2>2
<1> QED
  BY <1>7, <1>8

\* A tree of some levels is one of more.
LEMMA DagsGrow ==
    ASSUME NEW n \in 0 .. MaxText - 1
    PROVE  Dags[n] \subseteq Dags[n + 1]
<1> DEFINE S == {k \in Nat : k <= MaxText - 1 => Dags[k] \subseteq Dags[k + 1]}
<1>1. MaxText \in Nat /\ MaxText - 1 \in Nat
  BY TextAssumption
<1>2. 0 \in S
  BY <1>1, DagsAre
<1>3. \A k \in 0 .. (MaxText - 1) - 1 : k \in S => k + 1 \in S
  <2> SUFFICES ASSUME NEW k \in 0 .. (MaxText - 1) - 1, Dags[k] \subseteq Dags[k + 1]
               PROVE  Dags[k + 1] \subseteq Dags[(k + 1) + 1]
    BY <1>1
  <2>1. k \in 0 .. MaxText - 1 /\ k + 1 \in 0 .. MaxText - 1
    BY <1>1
  <2>2. /\ Dags[k + 1] = {Null} \cup Over(Dags[k])
        /\ Dags[(k + 1) + 1] = {Null} \cup Over(Dags[k + 1])
    BY <2>1, DagsAre
  <2>3. Over(Dags[k]) \subseteq Over(Dags[k + 1])
    BY DEF Over
  <2> QED
    BY <2>2, <2>3
<1> HIDE DEF S
<1>4. 0 .. MaxText - 1 \subseteq S
  BY <1>1, <1>2, <1>3, Upwards
<1> QED
  BY <1>1, <1>4 DEF S

\* A tree of some levels is one of any greater number.
LEMMA DagsNest ==
    ASSUME NEW n \in 0 .. MaxText, NEW m \in 0 .. MaxText, n <= m
    PROVE  Dags[n] \subseteq Dags[m]
<1> DEFINE S == {k \in Nat : n + k <= MaxText => Dags[n] \subseteq Dags[n + k]}
<1>1. MaxText \in Nat /\ m - n \in Nat /\ m - n \in 0 .. MaxText /\ n + (m - n) = m
  BY TextAssumption
<1>2. 0 \in S
  BY <1>1
<1>3. \A k \in 0 .. MaxText - 1 : k \in S => k + 1 \in S
  <2> SUFFICES ASSUME NEW k \in 0 .. MaxText - 1, k \in S, n + (k + 1) <= MaxText
               PROVE  Dags[n] \subseteq Dags[n + (k + 1)]
    BY <1>1
  <2>1. n + k \in 0 .. MaxText - 1 /\ n + (k + 1) = (n + k) + 1
    BY <1>1
  <2>2. Dags[n + k] \subseteq Dags[(n + k) + 1]
    BY <2>1, DagsGrow
  <2>3. Dags[n] \subseteq Dags[n + k]
    BY <1>1, <2>1
  <2> QED
    BY <2>1, <2>2, <2>3
<1> HIDE DEF S
<1>4. m - n \in S
  BY <1>1, <1>2, <1>3, Upwards
<1> QED
  BY <1>1, <1>4 DEF S

\* All are trees.
LEMMA DagsInDag ==
    ASSUME NEW n \in 0 .. MaxText
    PROVE  Dags[n] \subseteq Dag
BY DagsNest, TextAssumption DEF Dag

\* What the node of a tree is made of.
LEMMA DagParts ==
    ASSUME NEW n \in 0 .. MaxText, NEW t \in Dags[n], t # Null
    PROVE  /\ n - 1 \in 0 .. MaxText - 1
           /\ t \in Over(Dags[n - 1])
           /\ t.left \in Dags[n - 1] /\ t.right \in Dags[n - 1]
           /\ t.left \in Dag /\ t.right \in Dag
           /\ t.op \in NodeOps /\ t.id \in Nat /\ t.val \in Nat
<1>1. MaxText \in Nat
  BY TextAssumption
<1>2. n # 0
  BY DagsAre
<1>3. n - 1 \in 0 .. MaxText - 1 /\ n - 1 \in 0 .. MaxText /\ (n - 1) + 1 = n
  BY <1>1, <1>2
<1>4. t \in Over(Dags[n - 1])
  BY <1>3, DagsAre
<1>5. Dags[n - 1] \subseteq Dag
  BY <1>3, DagsInDag
<1> QED
  BY <1>3, <1>4, <1>5 DEF Over

\* The empty tree has no level.
LEMMA NullIsDag ==
    ASSUME NEW n \in 0 .. MaxText
    PROVE  Null \in Dags[n] /\ Null \in Dag
<1>1. MaxText \in Nat /\ 0 \in 0 .. MaxText
  BY TextAssumption
<1>2. Null \in Dags[0]
  BY DagsAre
<1> QED
  BY <1>1, <1>2, DagsNest, DagsInDag

\* The bound is one of the numbers of levels.
LEMMA DagTop == MaxText \in 0 .. MaxText /\ Dag = Dags[MaxText]
BY TextAssumption DEF Dag

\* A node and those below it.
Nodes[t \in Dag] == IF t = Null THEN {} ELSE {t} \cup Nodes[t.left] \cup Nodes[t.right]

\* Nodes is what its definition says of it.
LEMMA NodesAre ==
    \A t \in Dag : Nodes[t] = IF t = Null THEN {}
                              ELSE {t} \cup Nodes[t.left] \cup Nodes[t.right]
<1> DEFINE Body(g, t) ==
             IF t = Null THEN {} ELSE {t} \cup g[t.left] \cup g[t.right]
           S == {n \in Nat : \E g : g = [t \in Dags[n] |-> Body(g, t)]}
<1>1. MaxText \in Nat /\ Dag = Dags[MaxText]
  BY TextAssumption DEF Dag
<1>2. 0 \in S
  <2> DEFINE g == [t \in Dags[0] |-> Body([s \in {} |-> s], Null)]
  <2>1. \A t \in Dags[0] : t = Null
    BY DagsAre
  <2>2. \A t \in Dags[0] : Body([s \in {} |-> s], Null) = Body(g, t)
    BY <2>1
  <2>3. g = [t \in Dags[0] |-> Body(g, t)]
    BY <2>2
  <2> HIDE DEF g
  <2> QED
    BY <2>3
<1>3. \A n \in 0 .. MaxText - 1 : n \in S => n + 1 \in S
  <2> SUFFICES ASSUME NEW n \in 0 .. MaxText - 1, n \in S PROVE n + 1 \in S
    OBVIOUS
  <2>1. PICK g : g = [t \in Dags[n] |-> Body(g, t)]
    OBVIOUS
  <2> DEFINE h == [t \in Dags[n + 1] |-> Body(g, t)]
  <2>2. \A t \in Dags[n] : h[t] = g[t]
    <3> TAKE t \in Dags[n]
    <3>1. t \in Dags[n + 1]
      BY DagsGrow
    <3> HIDE DEF Body
    <3>2. g[t] = Body(g, t)
      BY <2>1
    <3>3. h[t] = Body(g, t)
      BY <3>1
    <3> QED
      BY <3>2, <3>3
  <2>3. \A t \in Dags[n + 1] : Body(g, t) = Body(h, t)
    <3> TAKE t \in Dags[n + 1]
    <3>1. CASE t = Null
      BY <3>1
    <3>2. CASE t # Null
      <4>1. n + 1 \in 0 .. MaxText /\ (n + 1) - 1 = n
        BY <1>1
      <4>2. t.left \in Dags[n] /\ t.right \in Dags[n]
        BY <3>2, <4>1, DagParts
      <4>3. h[t.left] = g[t.left] /\ h[t.right] = g[t.right]
        BY <2>2, <4>2
      <4> HIDE DEF h
      <4> QED
        BY <3>2, <4>3
    <3> QED
      BY <3>1, <3>2
  <2> HIDE DEF Body
  <2>4. h = [t \in Dags[n + 1] |-> Body(h, t)]
    BY <2>3
  <2> HIDE DEF h
  <2> QED
    BY <1>1, <2>4
<1>4. MaxText \in S
  <2> HIDE DEF S
  <2>1. 0 .. MaxText \subseteq S
    BY <1>1, <1>2, <1>3, Upwards
  <2> QED
    BY <1>1, <2>1
<1>5. \E g : g = [t \in Dag |-> Body(g, t)]
  BY <1>1, <1>4
<1>6. Nodes = [t \in Dag |-> Body(Nodes, t)]
  <2>1. Nodes = CHOOSE g : g = [t \in Dag |-> Body(g, t)]
    BY DEF Nodes
  <2> HIDE DEF Body
  <2> QED
    BY <1>5, <2>1
<1> HIDE DEF Body
<1>7. \A t \in Dag : Nodes[t] = Body(Nodes, t)
  BY <1>6
<1> QED
  BY <1>7 DEF Body
\* Stripped is what its definition says of it.
LEMMA StrippedIs ==
    \A t \in Dag : Stripped[t] =
      IF t = Null THEN <<>>
      ELSE IF t.op = "val" THEN <<"val", t.val>>
      ELSE IF t.op = "neg" THEN <<"neg", Stripped[t.right]>>
      ELSE <<t.op, Stripped[t.left], Stripped[t.right]>>
<1> DEFINE Body(g, t) ==
             IF t = Null THEN <<>>
             ELSE IF t.op = "val" THEN <<"val", t.val>>
             ELSE IF t.op = "neg" THEN <<"neg", g[t.right]>>
             ELSE <<t.op, g[t.left], g[t.right]>>
           S == {n \in Nat : \E g : g = [t \in Dags[n] |-> Body(g, t)]}
<1>1. MaxText \in Nat /\ Dag = Dags[MaxText]
  BY TextAssumption DEF Dag
<1>2. 0 \in S
  <2> DEFINE g == [t \in Dags[0] |-> Body([s \in {} |-> s], Null)]
  <2>1. \A t \in Dags[0] : t = Null
    BY DagsAre
  <2>2. \A t \in Dags[0] : Body([s \in {} |-> s], Null) = Body(g, t)
    BY <2>1
  <2>3. g = [t \in Dags[0] |-> Body(g, t)]
    BY <2>2
  <2> HIDE DEF g
  <2> QED
    BY <2>3
<1>3. \A n \in 0 .. MaxText - 1 : n \in S => n + 1 \in S
  <2> SUFFICES ASSUME NEW n \in 0 .. MaxText - 1, n \in S PROVE n + 1 \in S
    OBVIOUS
  <2>1. PICK g : g = [t \in Dags[n] |-> Body(g, t)]
    OBVIOUS
  <2> DEFINE h == [t \in Dags[n + 1] |-> Body(g, t)]
  <2>2. \A t \in Dags[n] : h[t] = g[t]
    <3> TAKE t \in Dags[n]
    <3>1. t \in Dags[n + 1]
      BY DagsGrow
    <3> HIDE DEF Body
    <3>2. g[t] = Body(g, t)
      BY <2>1
    <3>3. h[t] = Body(g, t)
      BY <3>1
    <3> QED
      BY <3>2, <3>3
  <2>3. \A t \in Dags[n + 1] : Body(g, t) = Body(h, t)
    <3> TAKE t \in Dags[n + 1]
    <3>1. CASE t = Null
      BY <3>1
    <3>2. CASE t # Null
      <4>1. n + 1 \in 0 .. MaxText /\ (n + 1) - 1 = n
        BY <1>1
      <4>2. t.left \in Dags[n] /\ t.right \in Dags[n]
        BY <3>2, <4>1, DagParts
      <4>3. h[t.left] = g[t.left] /\ h[t.right] = g[t.right]
        BY <2>2, <4>2
      <4> HIDE DEF h
      <4> QED
        BY <3>2, <4>3
    <3> QED
      BY <3>1, <3>2
  <2> HIDE DEF Body
  <2>4. h = [t \in Dags[n + 1] |-> Body(h, t)]
    BY <2>3
  <2> HIDE DEF h
  <2> QED
    BY <1>1, <2>4
<1>4. MaxText \in S
  <2> HIDE DEF S
  <2>1. 0 .. MaxText \subseteq S
    BY <1>1, <1>2, <1>3, Upwards
  <2> QED
    BY <1>1, <2>1
<1>5. \E g : g = [t \in Dag |-> Body(g, t)]
  BY <1>1, <1>4
<1>6. Stripped = [t \in Dag |-> Body(Stripped, t)]
  <2>1. Stripped = CHOOSE g : g = [t \in Dag |-> Body(g, t)]
    BY DEF Stripped
  <2> HIDE DEF Body
  <2> QED
    BY <1>5, <2>1
<1> HIDE DEF Body
<1>7. \A t \in Dag : Stripped[t] = Body(Stripped, t)
  BY <1>6
<1> QED
  BY <1>7 DEF Body
\* The same of Reflect.
LEMMA ReflectIs ==
    \A t \in Dag : Reflect[t] =
      IF t = Null THEN <<>>
      ELSE Reflect[t.left] \o Reflect[t.right] \o <<Statement(t)>>
<1> DEFINE Body(g, t) ==
             IF t = Null THEN <<>> ELSE g[t.left] \o g[t.right] \o <<Statement(t)>>
           S == {n \in Nat : \E g : g = [t \in Dags[n] |-> Body(g, t)]}
<1>1. MaxText \in Nat /\ Dag = Dags[MaxText]
  BY TextAssumption DEF Dag
<1>2. 0 \in S
  <2> DEFINE g == [t \in Dags[0] |-> Body([s \in {} |-> s], Null)]
  <2>1. \A t \in Dags[0] : t = Null
    BY DagsAre
  <2>2. \A t \in Dags[0] : Body([s \in {} |-> s], Null) = Body(g, t)
    BY <2>1
  <2>3. g = [t \in Dags[0] |-> Body(g, t)]
    BY <2>2
  <2> HIDE DEF g
  <2> QED
    BY <2>3
<1>3. \A n \in 0 .. MaxText - 1 : n \in S => n + 1 \in S
  <2> SUFFICES ASSUME NEW n \in 0 .. MaxText - 1, n \in S PROVE n + 1 \in S
    OBVIOUS
  <2>1. PICK g : g = [t \in Dags[n] |-> Body(g, t)]
    OBVIOUS
  <2> DEFINE h == [t \in Dags[n + 1] |-> Body(g, t)]
  <2>2. \A t \in Dags[n] : h[t] = g[t]
    <3> TAKE t \in Dags[n]
    <3>1. t \in Dags[n + 1]
      BY DagsGrow
    <3> HIDE DEF Body
    <3>2. g[t] = Body(g, t)
      BY <2>1
    <3>3. h[t] = Body(g, t)
      BY <3>1
    <3> QED
      BY <3>2, <3>3
  <2>3. \A t \in Dags[n + 1] : Body(g, t) = Body(h, t)
    <3> TAKE t \in Dags[n + 1]
    <3>1. CASE t = Null
      BY <3>1
    <3>2. CASE t # Null
      <4>1. n + 1 \in 0 .. MaxText /\ (n + 1) - 1 = n
        BY <1>1
      <4>2. t.left \in Dags[n] /\ t.right \in Dags[n]
        BY <3>2, <4>1, DagParts
      <4>3. h[t.left] = g[t.left] /\ h[t.right] = g[t.right]
        BY <2>2, <4>2
      <4> HIDE DEF h
      <4> QED
        BY <3>2, <4>3
    <3> QED
      BY <3>1, <3>2
  <2> HIDE DEF Body
  <2>4. h = [t \in Dags[n + 1] |-> Body(h, t)]
    BY <2>3
  <2> HIDE DEF h
  <2> QED
    BY <1>1, <2>4
<1>4. MaxText \in S
  <2> HIDE DEF S
  <2>1. 0 .. MaxText \subseteq S
    BY <1>1, <1>2, <1>3, Upwards
  <2> QED
    BY <1>1, <2>1
<1>5. \E g : g = [t \in Dag |-> Body(g, t)]
  BY <1>1, <1>4
<1>6. Reflect = [t \in Dag |-> Body(Reflect, t)]
  <2>1. Reflect = CHOOSE g : g = [t \in Dag |-> Body(g, t)]
    BY DEF Reflect
  <2> HIDE DEF Body
  <2> QED
    BY <1>5, <2>1
<1> HIDE DEF Body
<1>7. \A t \in Dag : Reflect[t] = Body(Reflect, t)
  BY <1>6
<1> QED
  BY <1>7 DEF Body
\* Induction over trees.
LEMMA OverDags ==
    ASSUME NEW S, Null \in S,
           \A t \in Dag \ {Null} : t.left \in S /\ t.right \in S => t \in S
    PROVE  Dag \subseteq S
<1> DEFINE N == {n \in Nat : Dags[n] \subseteq S}
<1>1. MaxText \in Nat /\ Dag = Dags[MaxText]
  BY TextAssumption DEF Dag
<1>2. 0 \in N
  BY DagsAre
<1>3. \A n \in 0 .. MaxText - 1 : n \in N => n + 1 \in N
  <2> SUFFICES ASSUME NEW n \in 0 .. MaxText - 1, Dags[n] \subseteq S, NEW t \in Dags[n + 1], t # Null
               PROVE  t \in S
    BY <1>1
  <2>1. n + 1 \in 0 .. MaxText /\ (n + 1) - 1 = n
    BY <1>1
  <2>2. t.left \in Dags[n] /\ t.right \in Dags[n]
    BY <2>1, DagParts
  <2>3. t \in Dag
    BY <2>1, DagsInDag
  <2> QED
    BY <2>2, <2>3
<1> HIDE DEF N
<1>4. MaxText \in N
  BY <1>1, <1>2, <1>3, Upwards
<1> QED
  BY <1>1, <1>4 DEF N

-----------------------------------------------------------------------------
(* The grammar.                                                            *)

SymbolRank(symbol) ==
  CASE symbol = "primary" -> 0 [] symbol = "unary" -> 1 [] symbol = "term" -> 2 [] OTHER -> 3

\* What the equation of Derives descends by: the length of the span, then the symbol.
SpanWeight(x) ==
  IF x[2] > x[3] THEN SymbolRank(x[1]) ELSE ((x[3] - x[2] + 1) * 4) + SymbolRank(x[1])

\* The terms of an operator in the middle.
Combined(op, L, R) == {<<op, l, r>> : l \in L, r \in R}

BinaryIn(t, D, x, ops, operand) ==
  UNION {Combined(t[k].op, D[<<x[1], x[2], k - 1>>], D[<<operand, k + 1, x[3]>>]) :
         k \in {m \in x[2] + 1 .. x[3] - 1 : t[m].op \in ops}}

\* The right side of the definition of Derives.
DerivesStep(t, D, x) ==
  CASE x[1] = "primary" ->
         IF x[2] = x[3] /\ t[x[2]].op = "val" THEN {<<"val", t[x[2]].at>>}
         ELSE IF x[2] + 1 < x[3] /\ t[x[2]].op = "(" /\ t[x[3]].op = ")"
         THEN D[<<"expr", x[2] + 1, x[3] - 1>>] ELSE {}
    [] x[1] = "unary" ->
         D[<<"primary", x[2], x[3]>>] \cup
         (IF x[2] < x[3] /\ t[x[2]].op = "+" THEN D[<<"unary", x[2] + 1, x[3]>>]
          ELSE IF x[2] < x[3] /\ t[x[2]].op = "-"
          THEN {<<"neg", y>> : y \in D[<<"unary", x[2] + 1, x[3]>>]} ELSE {})
    [] x[1] = "term" -> D[<<"unary", x[2], x[3]>>] \cup BinaryIn(t, D, x, {"*", "/"}, "unary")
    [] OTHER -> D[<<"term", x[2], x[3]>>] \cup BinaryIn(t, D, x, {"+", "-"}, "term")

\* What a span is, and how it is weighed.
LEMMA SpanParts ==
    ASSUME NEW t \in Seq(Token), NEW x \in Spans(t)
    PROVE  /\ x = <<x[1], x[2], x[3]>>
           /\ x[1] \in Symbols /\ x[2] \in 1 .. Len(t) + 1 /\ x[3] \in 0 .. Len(t)
           /\ x[2] \in Int /\ x[3] \in Int
           /\ SymbolRank(x[1]) \in 0 .. 3
           /\ SpanWeight(x) \in 0 .. (Len(t) * 4) + 3
<1>1. Len(t) \in Nat
  OBVIOUS
<1>2. /\ x = <<x[1], x[2], x[3]>>
      /\ x[1] \in Symbols /\ x[2] \in 1 .. Len(t) + 1 /\ x[3] \in 0 .. Len(t)
  BY DEF Spans
<1>3. SymbolRank(x[1]) \in 0 .. 3
  BY DEF SymbolRank
<1> QED
  BY <1>1, <1>2, <1>3 DEF SpanWeight

\* The spans that the right side looks at weigh less.
LEMMA SpansBelow ==
    ASSUME NEW t \in Seq(Token), NEW x \in Spans(t)
    PROVE  /\ x[1] = "primary" /\ x[2] + 1 < x[3] =>
                /\ <<"expr", x[2] + 1, x[3] - 1>> \in Spans(t)
                /\ SpanWeight(<<"expr", x[2] + 1, x[3] - 1>>) < SpanWeight(x)
           /\ x[1] = "unary" =>
                /\ <<"primary", x[2], x[3]>> \in Spans(t)
                /\ SpanWeight(<<"primary", x[2], x[3]>>) < SpanWeight(x)
           /\ x[1] = "unary" /\ x[2] < x[3] =>
                /\ <<"unary", x[2] + 1, x[3]>> \in Spans(t)
                /\ SpanWeight(<<"unary", x[2] + 1, x[3]>>) < SpanWeight(x)
           /\ x[1] = "term" =>
                /\ <<"unary", x[2], x[3]>> \in Spans(t)
                /\ SpanWeight(<<"unary", x[2], x[3]>>) < SpanWeight(x)
           /\ x[1] = "expr" =>
                /\ <<"term", x[2], x[3]>> \in Spans(t)
                /\ SpanWeight(<<"term", x[2], x[3]>>) < SpanWeight(x)
           /\ \A k \in x[2] + 1 .. x[3] - 1 : \A s \in Symbols :
                /\ <<s, x[2], k - 1>> \in Spans(t) /\ <<s, k + 1, x[3]>> \in Spans(t)
                /\ SpanWeight(<<s, x[2], k - 1>>) < SpanWeight(x)
                /\ SpanWeight(<<s, k + 1, x[3]>>) < SpanWeight(x)
<1>1. Len(t) \in Nat
  OBVIOUS
<1>2. /\ x[1] \in Symbols /\ x[2] \in 1 .. Len(t) + 1 /\ x[3] \in 0 .. Len(t)
      /\ x[2] \in Int /\ x[3] \in Int
  BY SpanParts
<1>3. \A s \in Symbols, i \in 1 .. Len(t) + 1, j \in 0 .. Len(t) : <<s, i, j>> \in Spans(t)
  BY DEF Spans
<1>4. \A s \in Symbols, i \in Int, j \in Int :
        SpanWeight(<<s, i, j>>) = IF i > j THEN SymbolRank(s) ELSE ((j - i + 1) * 4) + SymbolRank(s)
  BY DEF SpanWeight
<1>5. SpanWeight(x) = IF x[2] > x[3] THEN SymbolRank(x[1])
                      ELSE ((x[3] - x[2] + 1) * 4) + SymbolRank(x[1])
  BY DEF SpanWeight
<1>6. \A s \in Symbols : SymbolRank(s) \in 0 .. 3
  BY DEF SymbolRank
<1>7. {"primary", "unary", "term", "expr"} = Symbols
  BY DEF Symbols
<1> DEFINE i == x[2]
           j == x[3]
<1>8. ASSUME NEW k \in i + 1 .. j - 1, NEW s \in Symbols
      PROVE  /\ <<s, i, k - 1>> \in Spans(t) /\ <<s, k + 1, j>> \in Spans(t)
             /\ SpanWeight(<<s, i, k - 1>>) < SpanWeight(x)
             /\ SpanWeight(<<s, k + 1, j>>) < SpanWeight(x)
  <2>1. k \in Int /\ k - 1 \in 0 .. Len(t) /\ k + 1 \in 1 .. Len(t) + 1 /\ i <= k - 1 /\ k + 1 <= j
    BY <1>1, <1>2
  <2>2. SpanWeight(<<s, i, k - 1>>) = (((k - 1) - i + 1) * 4) + SymbolRank(s)
    BY <1>2, <1>4, <2>1
  <2>3. SpanWeight(<<s, k + 1, j>>) = ((j - (k + 1) + 1) * 4) + SymbolRank(s)
    BY <1>2, <1>4, <2>1
  <2>4. SpanWeight(x) = ((j - i + 1) * 4) + SymbolRank(x[1])
    BY <1>2, <1>5, <2>1
  <2> HIDE DEF i, j
  <2>5. i \in 1 .. Len(t) + 1 /\ j \in 0 .. Len(t) /\ i \in Int /\ j \in Int
    BY <1>2 DEF i, j
  <2>6. <<s, i, k - 1>> \in Spans(t) /\ <<s, k + 1, j>> \in Spans(t)
    BY <1>3, <2>1, <2>5
  <2>7. SymbolRank(s) \in 0 .. 3 /\ SymbolRank(x[1]) \in 0 .. 3
    BY <1>2, <1>6
  <2>8. \A a, b \in 0 .. 3 : /\ (((k - 1) - i + 1) * 4) + a < ((j - i + 1) * 4) + b
                             /\ ((j - (k + 1) + 1) * 4) + a < ((j - i + 1) * 4) + b
    BY <2>1, <2>5
  <2> QED
    BY <2>2, <2>3, <2>4, <2>6, <2>7, <2>8
<1>9. \A s \in Symbols : /\ SymbolRank("primary") = 0 /\ SymbolRank("unary") = 1
                         /\ SymbolRank("term") = 2 /\ SymbolRank("expr") = 3
  BY DEF SymbolRank
<1>10. i \in 1 .. Len(t) + 1 /\ j \in 0 .. Len(t) /\ i \in Int /\ j \in Int
  BY <1>2
<1>11. SpanWeight(x) = IF i > j THEN SymbolRank(x[1]) ELSE ((j - i + 1) * 4) + SymbolRank(x[1])
  BY <1>5
<1> HIDE DEF i, j
<1>12. i < j => i + 1 \in 1 .. Len(t) + 1 /\ i + 1 \in Int /\ ~(i + 1 > j) /\ ~(i > j)
  BY <1>1, <1>10
<1>13. i + 1 < j => /\ i + 1 \in 1 .. Len(t) + 1 /\ j - 1 \in 0 .. Len(t) /\ j - 1 \in Int /\ i + 1 \in Int
                    /\ ~(i + 1 > j - 1) /\ ~(i > j)
  BY <1>1, <1>10
<1>14. x[1] = "primary" /\ i + 1 < j =>
                /\ <<"expr", i + 1, j - 1>> \in Spans(t)
                /\ SpanWeight(<<"expr", i + 1, j - 1>>) < SpanWeight(x)
  <2> SUFFICES ASSUME x[1] = "primary", i + 1 < j
               PROVE  /\ <<"expr", i + 1, j - 1>> \in Spans(t)
                      /\ SpanWeight(<<"expr", i + 1, j - 1>>) < SpanWeight(x)
    OBVIOUS
  <2>1. <<"expr", i + 1, j - 1>> \in Spans(t)
    BY <1>3, <1>7, <1>13
  <2>2. SpanWeight(<<"expr", i + 1, j - 1>>) = (((j - 1) - (i + 1) + 1) * 4) + 3
    BY <1>4, <1>7, <1>9, <1>13
  <2>3. SpanWeight(x) = ((j - i + 1) * 4) + 0
    BY <1>9, <1>11, <1>13, <1>7
  <2> QED
    BY <2>1, <2>2, <2>3, <1>10
<1>15. x[1] = "unary" =>
                /\ <<"primary", i, j>> \in Spans(t)
                /\ SpanWeight(<<"primary", i, j>>) < SpanWeight(x)
  BY <1>3, <1>4, <1>7, <1>9, <1>10, <1>11
<1>16. x[1] = "unary" /\ i < j =>
                /\ <<"unary", i + 1, j>> \in Spans(t)
                /\ SpanWeight(<<"unary", i + 1, j>>) < SpanWeight(x)
  <2> SUFFICES ASSUME x[1] = "unary", i < j
               PROVE  /\ <<"unary", i + 1, j>> \in Spans(t)
                      /\ SpanWeight(<<"unary", i + 1, j>>) < SpanWeight(x)
    OBVIOUS
  <2>1. <<"unary", i + 1, j>> \in Spans(t)
    BY <1>3, <1>7, <1>12, <1>10
  <2>2. SpanWeight(<<"unary", i + 1, j>>) = ((j - (i + 1) + 1) * 4) + 1
    BY <1>4, <1>7, <1>9, <1>12, <1>10
  <2>3. SpanWeight(x) = ((j - i + 1) * 4) + 1
    BY <1>9, <1>11, <1>12, <1>7
  <2> QED
    BY <2>1, <2>2, <2>3, <1>10
<1>17. x[1] = "term" =>
                /\ <<"unary", i, j>> \in Spans(t)
                /\ SpanWeight(<<"unary", i, j>>) < SpanWeight(x)
  BY <1>3, <1>4, <1>7, <1>9, <1>10, <1>11
<1>18. x[1] = "expr" =>
                /\ <<"term", i, j>> \in Spans(t)
                /\ SpanWeight(<<"term", i, j>>) < SpanWeight(x)
  BY <1>3, <1>4, <1>7, <1>9, <1>10, <1>11
<1> QED
  BY <1>8, <1>14, <1>15, <1>16, <1>17, <1>18 DEF i, j

\* The right side does not depend on more.
LEMMA DerivesLocal ==
    ASSUME NEW t \in Seq(Token), NEW x \in Spans(t), NEW g, NEW h,
           \A y \in Spans(t) : SpanWeight(y) < SpanWeight(x) => g[y] = h[y]
    PROVE  DerivesStep(t, g, x) = DerivesStep(t, h, x)
<1>1. \A s \in Symbols, k \in x[2] + 1 .. x[3] - 1 :
        g[<<s, x[2], k - 1>>] = h[<<s, x[2], k - 1>>] /\ g[<<s, k + 1, x[3]>>] = h[<<s, k + 1, x[3]>>]
  BY SpansBelow
<1>2. x[1] \in Symbols
  BY SpanParts
<1>3. ASSUME NEW ops, NEW operand \in Symbols
      PROVE  BinaryIn(t, g, x, ops, operand) = BinaryIn(t, h, x, ops, operand)
  <2> DEFINE K == {m \in x[2] + 1 .. x[3] - 1 : t[m].op \in ops}
             A(k) == Combined(t[k].op, g[<<x[1], x[2], k - 1>>], g[<<operand, k + 1, x[3]>>])
             B(k) == Combined(t[k].op, h[<<x[1], x[2], k - 1>>], h[<<operand, k + 1, x[3]>>])
  <2>1. \A k \in K : A(k) = B(k)
    <3> TAKE k \in K
    <3>1. /\ g[<<x[1], x[2], k - 1>>] = h[<<x[1], x[2], k - 1>>]
          /\ g[<<operand, k + 1, x[3]>>] = h[<<operand, k + 1, x[3]>>]
      BY <1>1, <1>2, <1>3
    <3> QED
      BY <3>1
  <2>2. {A(k) : k \in K} = {B(k) : k \in K}
    <3> HIDE DEF A, B, K
    <3> QED
      BY <2>1
  <2>3. BinaryIn(t, g, x, ops, operand) = UNION {A(k) : k \in K}
    BY DEF BinaryIn
  <2>4. BinaryIn(t, h, x, ops, operand) = UNION {B(k) : k \in K}
    BY DEF BinaryIn
  <2> HIDE DEF A, B, K
  <2> QED
    BY <2>2, <2>3, <2>4
<1>4. {"unary", "term"} \subseteq Symbols
  BY DEF Symbols
<1>5. CASE x[1] = "primary"
  <2>1. x[2] + 1 < x[3] => g[<<"expr", x[2] + 1, x[3] - 1>>] = h[<<"expr", x[2] + 1, x[3] - 1>>]
    BY <1>5, SpansBelow
  <2> QED
    BY <1>5, <2>1 DEF DerivesStep
<1>6. CASE x[1] = "unary"
  <2>1. g[<<"primary", x[2], x[3]>>] = h[<<"primary", x[2], x[3]>>]
    BY <1>6, SpansBelow
  <2>2. x[2] < x[3] => g[<<"unary", x[2] + 1, x[3]>>] = h[<<"unary", x[2] + 1, x[3]>>]
    BY <1>6, SpansBelow
  <2> QED
    BY <1>6, <2>1, <2>2 DEF DerivesStep
<1>7. CASE x[1] = "term"
  <2>1. g[<<"unary", x[2], x[3]>>] = h[<<"unary", x[2], x[3]>>]
    BY <1>7, SpansBelow
  <2> QED
    BY <1>3, <1>4, <1>7, <2>1 DEF DerivesStep
<1>8. CASE x[1] = "expr"
  <2>1. g[<<"term", x[2], x[3]>>] = h[<<"term", x[2], x[3]>>]
    BY <1>8, SpansBelow
  <2> QED
    BY <1>3, <1>4, <1>8, <2>1 DEF DerivesStep
<1> QED
  BY <1>2, <1>5, <1>6, <1>7, <1>8 DEF Symbols

\* Derives is what its definition says of it.
LEMMA DerivesIs ==
    ASSUME NEW t \in Seq(Token)
    PROVE  \A x \in Spans(t) : Derives(t)[x] = DerivesStep(t, Derives(t), x)
<1> DEFINE Below(n) == {x \in Spans(t) : SpanWeight(x) < n}
           S == {n \in Nat : \E g : g = [x \in Below(n) |-> DerivesStep(t, g, x)]}
           top == (Len(t) * 4) + 4
<1>1. Len(t) \in Nat /\ top \in Nat
  OBVIOUS
<1>2. \A x \in Spans(t) : SpanWeight(x) \in 0 .. (Len(t) * 4) + 3
  BY SpanParts
<1>3. 0 \in S
  <2>1. Below(0) = {}
    BY <1>2
  <2> DEFINE g == [x \in Below(0) |-> x]
  <2>2. g = [x \in Below(0) |-> DerivesStep(t, g, x)]
    BY <2>1
  <2> QED
    BY <2>2
<1>4. \A n \in 0 .. top - 1 : n \in S => n + 1 \in S
  <2> SUFFICES ASSUME NEW n \in 0 .. top - 1, n \in S PROVE n + 1 \in S
    OBVIOUS
  <2>1. PICK g : g = [x \in Below(n) |-> DerivesStep(t, g, x)]
    OBVIOUS
  <2> DEFINE h == [x \in Below(n + 1) |-> DerivesStep(t, g, x)]
  <2>2. \A x \in Below(n) : h[x] = g[x]
    <3> TAKE x \in Below(n)
    <3>1. x \in Below(n + 1)
      BY <1>1, <1>2
    <3>2. g[x] = DerivesStep(t, g, x)
      BY <2>1
    <3>3. h[x] = DerivesStep(t, g, x)
      BY <3>1
    <3> QED
      BY <3>2, <3>3
  <2>3. \A x \in Below(n + 1) : DerivesStep(t, g, x) = DerivesStep(t, h, x)
    <3> TAKE x \in Below(n + 1)
    <3> HIDE DEF h
    <3>1. \A y \in Spans(t) : SpanWeight(y) < SpanWeight(x) => y \in Below(n)
      BY <1>1, <1>2
    <3>2. \A y \in Spans(t) : SpanWeight(y) < SpanWeight(x) => g[y] = h[y]
      BY <2>2, <3>1
    <3> QED
      BY <3>2, DerivesLocal
  <2>4. h = [x \in Below(n + 1) |-> DerivesStep(t, h, x)]
    BY <2>3
  <2> HIDE DEF h, Below
  <2> QED
    BY <1>1, <2>4
<1>5. top \in S
  <2> HIDE DEF S, top
  <2>1. 0 .. top \subseteq S
    BY <1>1, <1>3, <1>4, Upwards
  <2> QED
    BY <1>1, <2>1
<1>6. Below(top) = Spans(t)
  BY <1>1, <1>2
<1>7. \E g : g = [x \in Spans(t) |-> DerivesStep(t, g, x)]
  <2> HIDE DEF Below
  <2> QED
    BY <1>5, <1>6
<1>8. Derives(t) = CHOOSE g : g = [x \in Spans(t) |-> DerivesStep(t, g, x)]
  BY DEF Derives, DerivesStep, BinaryIn, Combined
<1>9. Derives(t) = [x \in Spans(t) |-> DerivesStep(t, Derives(t), x)]
  <2> HIDE DEF Below
  <2> QED
    BY <1>7, <1>8
<1> QED
  BY <1>9

-----------------------------------------------------------------------------
(* The parser.                                                             *)

\* A parser in the middle of its tokens.
Ready(p) ==
  p \in Parsers /\ Len(p.tokens) <= MaxText /\ p.i <= Len(p.tokens) + 1

RuleRank(rule) ==
  CASE rule = "primary" -> 0 [] rule = "unary" -> 1 [] rule = "term_" -> 2
    [] rule = "term" -> 3 [] rule = "expr_" -> 4 [] OTHER -> 5

\* What the equation of Parsed descends by: the tokens left, then the rule.
CallWeight(c) == ((Len(c.p.tokens) + 1 - c.p.i) * 6) + RuleRank(c.rule)

\* The four branches of the definition of Parsed.
PrimaryStep(g, p) ==
  CASE Next_(p) = "val" -> Value(p)
    [] Next_(p) = "("   -> Closed(g[To("expr", Forward(p))])
    [] OTHER            -> Returns(p, Null)

UnaryStep(g, p) ==
  CASE Next_(p) = "+" -> g[To("unary", Forward(p))]
    [] Next_(p) = "-" -> Negated(p, g[To("unary", Forward(Numbered(p)))])
    [] OTHER          -> g[To("primary", p)]

ChainStep(g, rule, p) ==
  LET l == g[To(OperandOf(rule), p)] IN
  IF l.dag = Null THEN l ELSE g[Call(RestOf(rule), l, l.dag, l.dag)]

LoopStep(g, rule, p, left, dag) ==
  LET next == Forward(Numbered(p)) IN
  IF Next_(p) \notin OperatorsOf(rule) THEN Returns(p, dag)
  ELSE IF Full(p) THEN Returns(p, Null)
  ELSE LET r == g[To(OperandOf(rule), next)]
           n == Node(Next_(p), next.id, 0, left, r.dag)
       IN  IF r.dag = Null THEN [r EXCEPT !.bad = @ \/ rule = "expr_"]
           ELSE LET m == g[Call(rule, r, n, n)] IN
                IF m.dag = Null THEN m ELSE g[Call(rule, m, left, m.dag)]

ParsedStep(g, c) ==
  CASE c.rule = "primary" -> PrimaryStep(g, c.p)
    [] c.rule = "unary" -> UnaryStep(g, c.p)
    [] c.rule \in {"term", "expr"} -> ChainStep(g, c.rule, c.p)
    [] OTHER -> LoopStep(g, c.rule, c.p, c.left, c.dag)

\* A call returns further on, with no more ids and levels than tokens read.
Advances(c, q) ==
  /\ Ready(q) /\ q.tokens = c.p.tokens /\ q.room = c.p.room
  /\ q.i >= c.p.i /\ q.id >= c.p.id /\ q.id - c.p.id <= q.i - c.p.i
  /\ \A k \in 0 .. c.p.i - 1 :
       {c.left, c.dag} \subseteq Dags[k] => q.dag \in Dags[k + (q.i - c.p.i)]

\* What a parser that can be called with is made of.
LEMMA ReadyParts ==
    ASSUME NEW p, Ready(p)
    PROVE  /\ p = [tokens |-> p.tokens, room |-> p.room, i |-> p.i, id |-> p.id,
                   dag |-> p.dag, bad |-> p.bad]
           /\ p.tokens \in Seq(Token) /\ Len(p.tokens) \in 0 .. MaxText
           /\ p.room \in Nat /\ p.id \in Nat /\ p.dag \in Dag /\ p.bad \in BOOLEAN
           /\ p.i \in 1 .. Len(p.tokens) + 1 /\ p.i \in Int
           /\ p.i - 1 \in 0 .. MaxText
BY TextAssumption DEF Ready, Parsers

\* Changing the tree keeps a parser where it is.
LEMMA ReturnsParts ==
    ASSUME NEW p, Ready(p), NEW d \in Dag
    PROVE  /\ Ready(Returns(p, d)) /\ Returns(p, d).dag = d
           /\ Returns(p, d).tokens = p.tokens /\ Returns(p, d).room = p.room
           /\ Returns(p, d).i = p.i /\ Returns(p, d).id = p.id /\ Returns(p, d).bad = p.bad
           /\ Next_(Returns(p, d)) = Next_(p)
BY DEF Ready, Parsers, Returns, Next_

\* What is read at a parser that is not at the end.
LEMMA NextIs ==
    ASSUME NEW p, Ready(p)
    PROVE  /\ Next_(p) # "end" => p.i <= Len(p.tokens)
           /\ p.i <= Len(p.tokens) => /\ p.tokens[p.i] \in Token
                                      /\ Next_(p) = p.tokens[p.i].op /\ Next_(p) # "end"
           /\ Next_(p) \in {"val", "+", "-", "*", "/", "(", ")", "end"}
<1>1. p.i <= Len(p.tokens) => p.tokens[p.i] \in Token
  BY ReadyParts
<1>2. p.i <= Len(p.tokens) => p.tokens[p.i].op \in {"val", "+", "-", "*", "/", "(", ")"}
  BY <1>1 DEF Token, Operators
<1> QED
  BY <1>1, <1>2 DEF Next_

\* Going to the next token, with a new id or without.
LEMMA ForwardParts ==
    ASSUME NEW p, Ready(p), p.i <= Len(p.tokens)
    PROVE  /\ Ready(Forward(p)) /\ Forward(p).i = p.i + 1 /\ Forward(p).id = p.id
           /\ Forward(p).tokens = p.tokens /\ Forward(p).room = p.room
           /\ Forward(p).dag = p.dag /\ Forward(p).bad = p.bad
           /\ Ready(Forward(Numbered(p)))
           /\ Forward(Numbered(p)).i = p.i + 1 /\ Forward(Numbered(p)).id = p.id + 1
           /\ Forward(Numbered(p)).tokens = p.tokens /\ Forward(Numbered(p)).room = p.room
           /\ Forward(Numbered(p)).bad = p.bad
<1>1. p.i \in Nat \ {0} /\ p.id \in Nat /\ Len(p.tokens) \in Nat
  BY ReadyParts
<1>2. p.i + 1 \in Nat \ {0} /\ p.id + 1 \in Nat /\ p.i + 1 <= Len(p.tokens) + 1
  BY <1>1
<1>3. p \in Parsers /\ Len(p.tokens) <= MaxText
  BY DEF Ready
<1>4. Forward(p) = [tokens |-> p.tokens, room |-> p.room, i |-> p.i + 1, id |-> p.id,
                    dag |-> p.dag, bad |-> p.bad]
  BY <1>3 DEF Parsers, Forward
<1>5. Forward(Numbered(p)) = [tokens |-> p.tokens, room |-> p.room, i |-> p.i + 1, id |-> p.id + 1,
                    dag |-> p.dag, bad |-> p.bad]
  <2>1. Numbered(p) = [tokens |-> p.tokens, room |-> p.room, i |-> p.i, id |-> p.id + 1,
                       dag |-> p.dag, bad |-> p.bad]
    BY <1>3 DEF Parsers, Numbered
  <2> QED
    BY <2>1 DEF Forward
<1>6. Forward(p) \in Parsers /\ Forward(Numbered(p)) \in Parsers
  BY <1>2, <1>3, <1>4, <1>5 DEF Parsers
<1> QED
  BY <1>2, <1>3, <1>4, <1>5, <1>6 DEF Ready

\* A call of a parser in the middle.
LEMMA CallParts ==
    ASSUME NEW rule \in Rules, NEW p, Ready(p),
           NEW left \in Dags[p.i - 1], NEW dag \in Dags[p.i - 1]
    PROVE  /\ Call(rule, p, left, dag) \in Calls
           /\ Call(rule, p, left, dag).rule = rule /\ Call(rule, p, left, dag).p = p
           /\ Call(rule, p, left, dag).left = left /\ Call(rule, p, left, dag).dag = dag
           /\ CallWeight(Call(rule, p, left, dag))
              = ((Len(p.tokens) + 1 - p.i) * 6) + RuleRank(rule)
<1>1. p.i - 1 \in 0 .. MaxText
  BY ReadyParts
<1>2. left \in Dag /\ dag \in Dag
  BY <1>1, DagsInDag
<1> QED
  BY <1>2 DEF Ready, Call, Calls, CallWeight

\* What a call is made of, and how it is weighed.
LEMMA CallsAre ==
    ASSUME NEW c \in Calls
    PROVE  /\ c = Call(c.rule, c.p, c.left, c.dag)
           /\ c.rule \in Rules /\ Ready(c.p)
           /\ c.left \in Dags[c.p.i - 1] /\ c.dag \in Dags[c.p.i - 1]
           /\ RuleRank(c.rule) \in 0 .. 5
           /\ CallWeight(c) \in 0 .. (MaxText * 6) + 5
<1>1. /\ c = Call(c.rule, c.p, c.left, c.dag)
      /\ c.rule \in Rules /\ Ready(c.p)
      /\ c.left \in Dags[c.p.i - 1] /\ c.dag \in Dags[c.p.i - 1]
  BY DEF Calls, Call, Ready
<1>2. RuleRank(c.rule) \in 0 .. 5
  BY DEF RuleRank
<1>3. Len(c.p.tokens) \in 0 .. MaxText /\ c.p.i \in 1 .. Len(c.p.tokens) + 1
  BY <1>1, ReadyParts
<1> DEFINE m == Len(c.p.tokens) + 1 - c.p.i
<1>4. m \in 0 .. MaxText /\ CallWeight(c) = (m * 6) + RuleRank(c.rule)
  BY <1>3, TextAssumption, SMTT(30) DEF CallWeight
<1> HIDE DEF m
<1> QED
  BY <1>1, <1>2, <1>4, TextAssumption

\* The same without a tree on the left.
LEMMA ToParts ==
    ASSUME NEW rule \in Rules, NEW p, Ready(p)
    PROVE  /\ To(rule, p) \in Calls
           /\ To(rule, p).rule = rule /\ To(rule, p).p = p
           /\ To(rule, p).left = Null /\ To(rule, p).dag = Null
           /\ CallWeight(To(rule, p)) = ((Len(p.tokens) + 1 - p.i) * 6) + RuleRank(rule)
<1>1. Null \in Dags[p.i - 1]
  BY ReadyParts, NullIsDag
<1> QED
  BY <1>1, CallParts DEF To

\* A call without a tree on the left.
LEMMA AdvancesTo ==
    ASSUME NEW rule \in Rules, NEW p, Ready(p), NEW q, Advances(To(rule, p), q)
    PROVE  /\ Ready(q) /\ q.tokens = p.tokens /\ q.room = p.room
           /\ q.i >= p.i /\ q.id >= p.id /\ q.id - p.id <= q.i - p.i
           /\ q.dag \in Dags[q.i - p.i] /\ q.i - p.i \in 0 .. MaxText
<1>1. p.i \in 1 .. Len(p.tokens) + 1 /\ Len(p.tokens) \in 0 .. MaxText
  BY ReadyParts
<1>2. 0 \in 0 .. p.i - 1 /\ 0 \in 0 .. MaxText
  BY <1>1, TextAssumption
<1>3. {Null, Null} \subseteq Dags[0]
  BY <1>2, NullIsDag
<1>4. Ready(q) /\ q.tokens = p.tokens /\ q.i >= p.i
  BY ToParts DEF Advances
<1>5. q.i \in 1 .. Len(p.tokens) + 1
  BY <1>4, ReadyParts
<1>6. 0 + (q.i - p.i) = q.i - p.i /\ q.i - p.i \in 0 .. MaxText
  BY <1>1, <1>4, <1>5, TextAssumption
<1>7. q.dag \in Dags[q.i - p.i]
  BY <1>2, <1>3, <1>6, ToParts DEF Advances
<1> QED
  BY <1>6, <1>7, ToParts DEF Advances

\* A node over trees of n levels.
LEMMA NodeIn ==
    ASSUME NEW n \in 0 .. MaxText - 1, NEW op \in NodeOps, NEW id \in Nat, NEW val \in Nat,
           NEW left \in Dags[n], NEW right \in Dags[n]
    PROVE  /\ Node(op, id, val, left, right) \in Dags[n + 1]
           /\ Node(op, id, val, left, right) # Null
           /\ Node(op, id, val, left, right).op = op /\ Node(op, id, val, left, right).id = id
           /\ Node(op, id, val, left, right).val = val
           /\ Node(op, id, val, left, right).left = left
           /\ Node(op, id, val, left, right).right = right
<1>1. Node(op, id, val, left, right) \in Over(Dags[n])
  BY DEF Node, Over
<1>2. Node(op, id, val, left, right) # Null
  BY <1>1, NullIsNoNode
<1>3. Node(op, id, val, left, right) \in Dags[n + 1]
  BY <1>1, DagsAre
<1> QED
  BY <1>2, <1>3 DEF Node

\* What is to be shown of what a call without a loop returns.
LEMMA AdvancesIf ==
    ASSUME NEW c \in Calls, NEW q, Ready(q), q.tokens = c.p.tokens, q.room = c.p.room,
           q.i >= c.p.i, q.id >= c.p.id, q.id - c.p.id <= q.i - c.p.i,
           NEW n \in 0 .. q.i - c.p.i, q.dag \in Dags[n]
    PROVE  Advances(c, q)
<1>1. /\ Len(c.p.tokens) \in 0 .. MaxText /\ c.p.i \in 1 .. Len(c.p.tokens) + 1
      /\ q.i \in 1 .. Len(c.p.tokens) + 1 /\ MaxText \in Nat
  BY CallsAre, ReadyParts, TextAssumption
<1>2. ASSUME NEW k \in 0 .. c.p.i - 1
      PROVE  q.dag \in Dags[k + (q.i - c.p.i)]
  <2> DEFINE i == c.p.i
             j == q.i
             l == Len(c.p.tokens)
  <2>1. l \in 0 .. MaxText /\ i \in 1 .. l + 1 /\ j \in 1 .. l + 1 /\ j >= i /\ n \in 0 .. j - i
        /\ k \in 0 .. i - 1 /\ MaxText \in Nat
    BY <1>1
  <2> HIDE DEF i, j, l
  <2>2. n \in 0 .. MaxText /\ k + (j - i) \in 0 .. MaxText /\ n <= k + (j - i)
    BY <2>1
  <2> QED
    BY <2>2, DagsNest DEF i, j
<1> QED
  BY <1>2 DEF Advances

\* The right side of Parsed does not depend on more than lighter calls, and advances
\* if they do.  First for each of its branches.
LEMMA PrimaryGood ==
    ASSUME NEW p, Ready(p), NEW g, NEW h, NEW c, c = To("primary", p),
           \A d \in Calls : CallWeight(d) < CallWeight(c) => g[d] = h[d] /\ Advances(d, g[d])
    PROVE  PrimaryStep(g, p) = PrimaryStep(h, p) /\ Advances(c, PrimaryStep(g, p))
<1>1. {"primary", "expr"} \subseteq Rules
  BY DEF Rules
<1>2. c \in Calls /\ c.p = p
       /\ CallWeight(c) = ((Len(p.tokens) + 1 - p.i) * 6) + RuleRank("primary")
  BY <1>1, ToParts
<1>3. /\ Len(p.tokens) \in 0 .. MaxText /\ p.i \in 1 .. Len(p.tokens) + 1 /\ p.i \in Int
      /\ p.id \in Nat /\ p.room \in Nat /\ MaxText \in Nat
  BY ReadyParts, TextAssumption
<1>4. Null \in Dags[0] /\ Null \in Dag /\ 0 \in 0 .. p.i - p.i
      /\ p.i >= p.i /\ p.id >= p.id /\ p.id - p.id <= p.i - p.i
  BY <1>3, NullIsDag
<1>5. Advances(c, Returns(p, Null))
  BY <1>2, <1>4, ReturnsParts, AdvancesIf
<1>6. CASE Next_(p) = "val"
  <2>1. p.i <= Len(p.tokens) /\ p.tokens[p.i] \in Token
    BY <1>6, NextIs
  <2>2. p.tokens[p.i].at \in 1 .. MaxText /\ p.tokens[p.i].at \in Nat
    BY <1>3, <2>1 DEF Token
  <2>3. PrimaryStep(g, p) = Value(p) /\ PrimaryStep(h, p) = Value(p)
    BY <1>6 DEF PrimaryStep
  <2>4. CASE Full(p)
    BY <1>5, <2>3, <2>4 DEF Value
  <2>5. CASE ~ Full(p)
    <3> DEFINE d == Node("val", p.id + 1, p.tokens[p.i].at, Null, Null)
               q == Forward(Numbered(p))
    <3>1. 0 \in 0 .. MaxText - 1 /\ p.id + 1 \in Nat /\ "val" \in NodeOps
      BY <1>3, <2>1 DEF NodeOps
    <3>2. d \in Dags[0 + 1]
      BY <2>2, <3>1, <1>4, NodeIn
    <3> HIDE DEF d
    <3>3. 1 \in 0 .. MaxText /\ 0 + 1 = 1 /\ 1 \in 0 .. (p.i + 1) - p.i
      BY <1>3, <3>1
    <3>4. d \in Dag /\ d \in Dags[1]
      BY <3>2, <3>3, DagsInDag
    <3>5. /\ Ready(q) /\ q.i = p.i + 1 /\ q.id = p.id + 1 /\ q.tokens = p.tokens /\ q.room = p.room
      BY <2>1, ForwardParts
    <3> HIDE DEF q
    <3>6. Value(p) = Returns(q, d)
      BY <2>5 DEF Value, q, d
    <3>7. /\ Ready(Returns(q, d)) /\ Returns(q, d).dag = d
          /\ Returns(q, d).tokens = p.tokens /\ Returns(q, d).room = p.room
          /\ Returns(q, d).i = p.i + 1 /\ Returns(q, d).id = p.id + 1
      BY <3>4, <3>5, ReturnsParts
    <3>8. p.i + 1 >= p.i /\ p.id + 1 >= p.id /\ (p.id + 1) - p.id <= (p.i + 1) - p.i
      BY <1>3
    <3>9. Advances(c, Returns(q, d))
      BY <3>3, <3>4, <3>7, <3>8, <1>2, AdvancesIf
    <3> QED
      BY <2>3, <3>6, <3>9
  <2> QED
    BY <2>4, <2>5
<1>7. CASE Next_(p) = "("
  <2>1. p.i <= Len(p.tokens)
    BY <1>7, NextIs
  <2> DEFINE f == Forward(p)
             e == g[To("expr", f)]
  <2>2. Ready(f) /\ f.i = p.i + 1 /\ f.id = p.id /\ f.tokens = p.tokens /\ f.room = p.room
    BY <2>1, ForwardParts
  <2> HIDE DEF f
  <2>3. To("expr", f) \in Calls
        /\ CallWeight(To("expr", f)) = ((Len(p.tokens) + 1 - (p.i + 1)) * 6) + RuleRank("expr")
    BY <1>1, <2>2, ToParts
  <2>4. CallWeight(To("expr", f)) < CallWeight(c)
    BY <1>2, <1>3, <2>1, <2>3, SMTT(30) DEF RuleRank
  <2>5. e = h[To("expr", f)] /\ Advances(To("expr", f), e)
    BY <2>3, <2>4
  <2>6. /\ Ready(e) /\ e.tokens = p.tokens /\ e.room = p.room
        /\ e.i >= p.i + 1 /\ e.id >= p.id /\ e.id - p.id <= e.i - (p.i + 1)
        /\ e.dag \in Dags[e.i - (p.i + 1)] /\ e.i - (p.i + 1) \in 0 .. MaxText
    BY <1>1, <2>2, <2>5, AdvancesTo
  <2>7. PrimaryStep(g, p) = Closed(e) /\ PrimaryStep(h, p) = Closed(e)
    BY <1>7, <2>5 DEF PrimaryStep, f
  <2> HIDE DEF e
  <2>8. e.i \in 1 .. Len(p.tokens) + 1 /\ e.i \in Int /\ e.id \in Nat
    BY <2>6, ReadyParts
  <2>9. CASE e.dag # Null /\ Next_(e) = ")"
    <3>1. e.i <= Len(p.tokens)
      BY <2>6, <2>9, NextIs
    <3> DEFINE q == Forward(e)
    <3>2. Closed(e) = q
      BY <2>9 DEF Closed
    <3>3. Ready(q) /\ q.i = e.i + 1 /\ q.id = e.id /\ q.tokens = p.tokens /\ q.room = p.room
          /\ q.dag = e.dag
      BY <2>6, <3>1, ForwardParts
    <3> HIDE DEF q
    <3>4. e.i - (p.i + 1) \in 0 .. (e.i + 1) - p.i
      BY <1>3, <2>8, <2>6, <3>1, SMTT(30)
    <3>5. e.i + 1 >= p.i /\ e.id >= p.id /\ e.id - p.id <= (e.i + 1) - p.i
      BY <1>3, <2>8, <2>6, SMTT(30)
    <3>6. Advances(c, q)
      BY <2>6, <3>3, <3>4, <3>5, <1>2, AdvancesIf
    <3> QED
      BY <2>7, <3>2, <3>6
  <2>10. CASE ~(e.dag # Null /\ Next_(e) = ")")
    <3>1. Closed(e) = Returns(e, Null)
      BY <2>10 DEF Closed
    <3>2. e.i >= p.i /\ e.id >= p.id /\ e.id - p.id <= e.i - p.i /\ 0 \in 0 .. e.i - p.i
      BY <1>3, <2>8, <2>6, SMTT(30)
    <3>3. Advances(c, Returns(e, Null))
      BY <2>6, <3>2, <1>4, <1>2, ReturnsParts, AdvancesIf
    <3> QED
      BY <2>7, <3>1, <3>3
  <2> QED
    BY <2>9, <2>10
<1>8. CASE ~(Next_(p) = "val") /\ ~(Next_(p) = "(")
  BY <1>8, <1>5 DEF PrimaryStep
<1> QED
  BY <1>6, <1>7, <1>8

\* expr_unary calls with less to do, and returns a tree of the tokens it has read.
LEMMA UnaryGood ==
    ASSUME NEW p, Ready(p), NEW g, NEW h, NEW c, c = To("unary", p),
           \A d \in Calls : CallWeight(d) < CallWeight(c) => g[d] = h[d] /\ Advances(d, g[d])
    PROVE  UnaryStep(g, p) = UnaryStep(h, p) /\ Advances(c, UnaryStep(g, p))
<1>1. {"primary", "unary"} \subseteq Rules
  BY DEF Rules
<1>2. c \in Calls /\ c.p = p
       /\ CallWeight(c) = ((Len(p.tokens) + 1 - p.i) * 6) + RuleRank("unary")
  BY <1>1, ToParts
<1>3. /\ Len(p.tokens) \in 0 .. MaxText /\ p.i \in 1 .. Len(p.tokens) + 1 /\ p.i \in Int
      /\ p.id \in Nat /\ p.room \in Nat /\ MaxText \in Nat
  BY ReadyParts, TextAssumption
<1>4. Null \in Dags[0] /\ Null \in Dag /\ 0 \in 0 .. p.i - p.i
      /\ p.i >= p.i /\ p.id >= p.id /\ p.id - p.id <= p.i - p.i
  BY <1>3, NullIsDag
<1>5. CASE Next_(p) = "+"
  <2>1. p.i <= Len(p.tokens)
    BY <1>5, NextIs
  <2> DEFINE f == Forward(p)
             q == g[To("unary", f)]
  <2>2. Ready(f) /\ f.i = p.i + 1 /\ f.id = p.id /\ f.tokens = p.tokens /\ f.room = p.room
    BY <2>1, ForwardParts
  <2> HIDE DEF f
  <2>3. To("unary", f) \in Calls
        /\ CallWeight(To("unary", f)) = ((Len(p.tokens) + 1 - (p.i + 1)) * 6) + RuleRank("unary")
    BY <1>1, <2>2, ToParts
  <2>4. CallWeight(To("unary", f)) < CallWeight(c)
    BY <1>2, <1>3, <2>1, <2>3, SMTT(30) DEF RuleRank
  <2>5. q = h[To("unary", f)] /\ Advances(To("unary", f), q)
    BY <2>3, <2>4
  <2>6. /\ Ready(q) /\ q.tokens = p.tokens /\ q.room = p.room
        /\ q.i >= p.i + 1 /\ q.id >= p.id /\ q.id - p.id <= q.i - (p.i + 1)
        /\ q.dag \in Dags[q.i - (p.i + 1)] /\ q.i - (p.i + 1) \in 0 .. MaxText
    BY <1>1, <2>2, <2>5, AdvancesTo
  <2>7. UnaryStep(g, p) = q /\ UnaryStep(h, p) = q
    BY <1>5, <2>5 DEF UnaryStep, f
  <2> HIDE DEF q
  <2>8. q.i \in 1 .. Len(p.tokens) + 1 /\ q.i \in Int /\ q.id \in Nat
    BY <2>6, ReadyParts
  <2>9. /\ q.i - (p.i + 1) \in 0 .. q.i - p.i
        /\ q.i >= p.i /\ q.id >= p.id /\ q.id - p.id <= q.i - p.i
    BY <1>3, <2>8, <2>6
  <2>10. Advances(c, q)
    BY <2>6, <2>9, <1>2, AdvancesIf
  <2> QED
    BY <2>7, <2>10
<1>6. CASE Next_(p) = "-"
  <2>1. p.i <= Len(p.tokens)
    BY <1>6, NextIs
  <2> DEFINE f == Forward(Numbered(p))
             r == g[To("unary", f)]
  <2>2. Ready(f) /\ f.i = p.i + 1 /\ f.id = p.id + 1 /\ f.tokens = p.tokens /\ f.room = p.room
    BY <2>1, ForwardParts
  <2> HIDE DEF f
  <2>3. To("unary", f) \in Calls
        /\ CallWeight(To("unary", f)) = ((Len(p.tokens) + 1 - (p.i + 1)) * 6) + RuleRank("unary")
    BY <1>1, <2>2, ToParts
  <2>4. CallWeight(To("unary", f)) < CallWeight(c)
    BY <1>2, <1>3, <2>1, <2>3, SMTT(30) DEF RuleRank
  <2>5. r = h[To("unary", f)] /\ Advances(To("unary", f), r)
    BY <2>3, <2>4
  <2>6. /\ Ready(r) /\ r.tokens = p.tokens /\ r.room = p.room
        /\ r.i >= p.i + 1 /\ r.id >= p.id + 1 /\ r.id - (p.id + 1) <= r.i - (p.i + 1)
        /\ r.dag \in Dags[r.i - (p.i + 1)] /\ r.i - (p.i + 1) \in 0 .. MaxText
    BY <1>1, <2>2, <2>5, AdvancesTo
  <2>7. UnaryStep(g, p) = Negated(p, r) /\ UnaryStep(h, p) = Negated(p, r)
    BY <1>6, <2>5 DEF UnaryStep, f
  <2> HIDE DEF r
  <2>8. r.i \in 1 .. Len(p.tokens) + 1 /\ r.i \in Int /\ r.id \in Nat
    BY <2>6, ReadyParts
  <2> DEFINE m == r.i - (p.i + 1)
  <2>9. /\ m \in 0 .. r.i - p.i /\ m + 1 \in 0 .. r.i - p.i
    BY <1>3, <2>8, <2>6, SMTT(30)
  <2>10. m \in 0 .. MaxText - 1 /\ m \in 0 .. MaxText /\ m + 1 \in 0 .. MaxText
    BY <1>3, <2>8, <2>6, SMTT(30)
  <2>11. r.i >= p.i /\ r.id >= p.id /\ r.id - p.id <= r.i - p.i
    <3>1. \A i, j, u, v \in Int :
            j >= i + 1 /\ v >= u + 1 /\ v - (u + 1) <= j - (i + 1)
            => j >= i /\ v >= u /\ v - u <= j - i
      OBVIOUS
    <3>2. p.i \in Int /\ r.i \in Int /\ p.id \in Int /\ r.id \in Int
      BY <1>3, <2>8
    <3> QED
      BY <2>6, <3>1, <3>2
  <2>12. CASE Full(p)
    <3>1. Negated(p, r) = Returns(p, Null)
      BY <2>12 DEF Negated
    <3>2. Advances(c, Returns(p, Null))
      BY <1>2, <1>4, ReturnsParts, AdvancesIf
    <3> QED
      BY <2>7, <3>1, <3>2
  <2>13. CASE ~ Full(p) /\ r.dag = Null
    <3>1. Negated(p, r) = r
      BY <2>13 DEF Negated
    <3>2. Advances(c, r)
      BY <2>6, <2>9, <2>11, <1>2, AdvancesIf
    <3> QED
      BY <2>7, <3>1, <3>2
  <2>14. CASE ~ Full(p) /\ r.dag # Null
    <3> DEFINE d == Node("neg", p.id + 1, 0, Null, r.dag)
    <3>1. Negated(p, r) = Returns(r, d)
      BY <2>14 DEF Negated
    <3>2. p.id + 1 \in Nat /\ "neg" \in NodeOps
      BY <1>3 DEF NodeOps
    <3>3. Null \in Dags[m] /\ r.dag \in Dags[m]
      BY <2>6, <2>10, NullIsDag
    <3>4. m \in 0 .. MaxText - 1 /\ m + 1 \in 0 .. MaxText /\ m + 1 \in 0 .. r.i - p.i
      BY <2>9, <2>10
    <3> HIDE DEF m
    <3>5. d \in Dags[m + 1]
      BY <3>2, <3>3, <3>4, NodeIn
    <3> HIDE DEF d
    <3>6. d \in Dag
      BY <3>4, <3>5, DagsInDag
    <3>7. /\ Ready(Returns(r, d)) /\ Returns(r, d).dag = d
          /\ Returns(r, d).tokens = p.tokens /\ Returns(r, d).room = p.room
          /\ Returns(r, d).i = r.i /\ Returns(r, d).id = r.id
      BY <2>6, <3>6, ReturnsParts
    <3>8. Advances(c, Returns(r, d))
      BY <2>11, <3>5, <3>7, <3>4, <1>2, AdvancesIf
    <3> QED
      BY <2>7, <3>1, <3>8
  <2> QED
    BY <2>12, <2>13, <2>14
<1>7. CASE ~(Next_(p) = "+") /\ ~(Next_(p) = "-")
  <2> DEFINE q == g[To("primary", p)]
  <2>1. To("primary", p) \in Calls
        /\ CallWeight(To("primary", p)) = ((Len(p.tokens) + 1 - p.i) * 6) + RuleRank("primary")
    BY <1>1, ToParts
  <2>2. CallWeight(To("primary", p)) < CallWeight(c)
    BY <1>2, <1>3, <2>1 DEF RuleRank
  <2>3. q = h[To("primary", p)] /\ Advances(To("primary", p), q)
    BY <2>1, <2>2
  <2>4. UnaryStep(g, p) = q /\ UnaryStep(h, p) = q
    BY <1>7, <2>3 DEF UnaryStep
  <2>5. /\ Ready(q) /\ q.tokens = p.tokens /\ q.room = p.room
        /\ q.i >= p.i /\ q.id >= p.id /\ q.id - p.id <= q.i - p.i
        /\ q.dag \in Dags[q.i - p.i] /\ q.i - p.i \in 0 .. MaxText
    BY <1>1, <2>3, AdvancesTo
  <2> HIDE DEF q
  <2>6. q.i - p.i \in 0 .. q.i - p.i
    BY <2>5
  <2>7. Advances(c, q)
    BY <2>5, <2>6, <1>2, AdvancesIf
  <2> QED
    BY <2>4, <2>7
<1> QED
  BY <1>5, <1>6, <1>7

\* A node over trees of k and of u levels.
LEMMA NodeOver ==
    ASSUME NEW k \in Nat, NEW u \in Nat, k + u + 1 <= MaxText,
           NEW op \in NodeOps, NEW id \in Nat, NEW val \in Nat,
           NEW left \in Dags[k], NEW right \in Dags[u]
    PROVE  /\ Node(op, id, val, left, right) \in Dags[k + u + 1]
           /\ Node(op, id, val, left, right) # Null
<1>1. /\ k \in 0 .. MaxText /\ u \in 0 .. MaxText /\ k + u \in 0 .. MaxText - 1
      /\ k + u \in 0 .. MaxText /\ k <= k + u /\ u <= k + u
  BY TextAssumption
<1>2. left \in Dags[k + u] /\ right \in Dags[k + u]
  BY <1>1, DagsNest
<1> DEFINE w == k + u
           z == k + u + 1
<1>3. w \in 0 .. MaxText - 1 /\ left \in Dags[w] /\ right \in Dags[w]
  BY <1>1, <1>2
<1>4. z = w + 1
  OBVIOUS
<1> HIDE DEF w, z
<1> DEFINE n == Node(op, id, val, left, right)
<1>5. n \in Over(Dags[w])
  BY <1>3 DEF Node, Over
<1> HIDE DEF n
<1>6. n # Null
  BY <1>5, NullIsNoNode
<1>7. n \in Dags[w + 1]
  BY <1>3, <1>5, DagsAre
<1>8. n \in Dags[z]
  BY <1>4, <1>7
<1> QED
  BY <1>6, <1>8 DEF n, z

\* What a call with a tree on its left returns.
LEMMA AdvancesCall ==
    ASSUME NEW rule \in Rules, NEW p, Ready(p),
           NEW left \in Dags[p.i - 1], NEW dag \in Dags[p.i - 1],
           NEW q, Advances(Call(rule, p, left, dag), q)
    PROVE  /\ Ready(q) /\ q.tokens = p.tokens /\ q.room = p.room
           /\ q.i >= p.i /\ q.id >= p.id /\ q.id - p.id <= q.i - p.i
           /\ \A k \in 0 .. p.i - 1 :
                left \in Dags[k] /\ dag \in Dags[k] => q.dag \in Dags[k + (q.i - p.i)]
<1> DEFINE c == Call(rule, p, left, dag)
<1>1. c.p = p /\ c.left = left /\ c.dag = dag
  BY CallParts
<1> HIDE DEF c
<1>2. /\ Ready(q) /\ q.tokens = p.tokens /\ q.room = p.room
      /\ q.i >= p.i /\ q.id >= p.id /\ q.id - p.id <= q.i - p.i
      /\ \A k \in 0 .. p.i - 1 : {left, dag} \subseteq Dags[k] => q.dag \in Dags[k + (q.i - p.i)]
  BY <1>1 DEF Advances, c
<1> QED
  BY <1>2

\* What it takes to advance, with the parts of the call in view.
LEMMA AdvancesBack ==
    ASSUME NEW rule \in Rules, NEW p, Ready(p),
           NEW left \in Dags[p.i - 1], NEW dag \in Dags[p.i - 1],
           NEW q, Ready(q), q.tokens = p.tokens, q.room = p.room,
           q.i >= p.i, q.id >= p.id, q.id - p.id <= q.i - p.i,
           \A k \in 0 .. p.i - 1 :
             left \in Dags[k] /\ dag \in Dags[k] => q.dag \in Dags[k + (q.i - p.i)]
    PROVE  Advances(Call(rule, p, left, dag), q)
BY CallParts DEF Advances

\* expr_multiplicative and expr_additive call with less to do, and advance.
LEMMA ChainGood ==
    ASSUME NEW rule \in {"term", "expr"}, NEW p, Ready(p), NEW g, NEW h,
           NEW c, c = To(rule, p),
           \A d \in Calls : CallWeight(d) < CallWeight(c) => g[d] = h[d] /\ Advances(d, g[d])
    PROVE  ChainStep(g, rule, p) = ChainStep(h, rule, p) /\ Advances(c, ChainStep(g, rule, p))
<1>1. /\ rule \in Rules /\ OperandOf(rule) \in Rules /\ RestOf(rule) \in Rules
      /\ RuleRank(OperandOf(rule)) < RuleRank(rule) /\ RuleRank(RestOf(rule)) < RuleRank(rule)
      /\ RuleRank(rule) \in Int /\ RuleRank(OperandOf(rule)) \in Int
      /\ RuleRank(RestOf(rule)) \in Int
  BY DEF Rules, OperandOf, RestOf, RuleRank
<1>2. c \in Calls /\ c.p = p
       /\ CallWeight(c) = ((Len(p.tokens) + 1 - p.i) * 6) + RuleRank(rule)
  BY <1>1, ToParts
<1>3. /\ Len(p.tokens) \in 0 .. MaxText /\ p.i \in 1 .. Len(p.tokens) + 1 /\ p.i \in Int
      /\ p.id \in Nat /\ p.room \in Nat /\ MaxText \in Nat
  BY ReadyParts, TextAssumption
<1> DEFINE first == To(OperandOf(rule), p)
           l == g[first]
<1>4. first \in Calls
      /\ CallWeight(first) = ((Len(p.tokens) + 1 - p.i) * 6) + RuleRank(OperandOf(rule))
  BY <1>1, ToParts
<1>5. CallWeight(first) < CallWeight(c)
  BY <1>1, <1>2, <1>3, <1>4
<1>6. l = h[first] /\ Advances(first, l)
  BY <1>4, <1>5
<1>7. /\ Ready(l) /\ l.tokens = p.tokens /\ l.room = p.room
      /\ l.i >= p.i /\ l.id >= p.id /\ l.id - p.id <= l.i - p.i
      /\ l.dag \in Dags[l.i - p.i] /\ l.i - p.i \in 0 .. MaxText
  BY <1>1, <1>6, AdvancesTo
<1>8. l.i \in 1 .. Len(p.tokens) + 1 /\ l.i \in Int /\ l.id \in Int /\ p.id \in Int
  BY <1>3, <1>7, ReadyParts, SMTT(30)
<1>9. /\ ChainStep(g, rule, p)
         = IF l.dag = Null THEN l ELSE g[Call(RestOf(rule), l, l.dag, l.dag)]
      /\ ChainStep(h, rule, p)
         = IF l.dag = Null THEN l ELSE h[Call(RestOf(rule), l, l.dag, l.dag)]
  BY <1>6 DEF ChainStep
<1> HIDE DEF l, first
<1>10. l.i - p.i \in 0 .. l.i - p.i
  BY <1>7
<1>11. CASE l.dag = Null
  <2>1. Advances(c, l)
    BY <1>2, <1>7, <1>10, AdvancesIf
  <2> QED
    BY <1>9, <1>11, <2>1
<1>12. CASE l.dag # Null
  <2>1. /\ l.i - p.i \in 0 .. l.i - 1 /\ l.i - 1 \in 0 .. MaxText /\ l.i - p.i <= l.i - 1
        /\ Len(l.tokens) = Len(p.tokens)
    BY <1>3, <1>7, <1>8
  <2>2. l.dag \in Dags[l.i - 1]
    BY <1>7, <2>1, DagsNest
  <2> DEFINE rest == Call(RestOf(rule), l, l.dag, l.dag)
             q == g[rest]
  <2>3. /\ rest \in Calls
        /\ CallWeight(rest) = ((Len(l.tokens) + 1 - l.i) * 6) + RuleRank(RestOf(rule))
    <3>1. Ready(l) /\ RestOf(rule) \in Rules
      BY <1>1, <1>7
    <3> QED
      BY <2>2, <3>1, CallParts
  <2>4. CallWeight(rest) < CallWeight(c)
    <3>1. \A n, i, j, a, b \in Int :
            j >= i /\ a < b => ((n + 1 - j) * 6) + a < ((n + 1 - i) * 6) + b
      OBVIOUS
    <3>2. Len(p.tokens) \in Int /\ p.i \in Int /\ l.i \in Int /\ l.i >= p.i
      BY <1>3, <1>7, <1>8
    <3>3. ((Len(p.tokens) + 1 - l.i) * 6) + RuleRank(RestOf(rule))
          < ((Len(p.tokens) + 1 - p.i) * 6) + RuleRank(rule)
      BY <1>1, <3>1, <3>2
    <3> HIDE DEF rest
    <3> QED
      BY <1>2, <2>1, <2>3, <3>3
  <2>5. q = h[rest] /\ Advances(rest, q)
    BY <2>3, <2>4
  <2>6. /\ Ready(q) /\ q.tokens = l.tokens /\ q.room = l.room
        /\ q.i >= l.i /\ q.id >= l.id /\ q.id - l.id <= q.i - l.i
        /\ q.dag \in Dags[(l.i - p.i) + (q.i - l.i)]
    <3>1. Ready(l) /\ RestOf(rule) \in Rules /\ l.dag \in Dags[l.i - p.i]
      BY <1>1, <1>7
    <3> HIDE DEF q
    <3> QED
      BY <2>1, <2>2, <2>5, <3>1, AdvancesCall, SMTT(30)
  <2>7. ChainStep(g, rule, p) = q /\ ChainStep(h, rule, p) = q
    BY <1>9, <1>12, <2>5
  <2> HIDE DEF q, rest
  <2>8. q.i \in Int /\ q.id \in Int
    BY <2>6, ReadyParts
  <2>9. /\ q.i >= p.i /\ q.id >= p.id /\ q.id - p.id <= q.i - p.i
        /\ (l.i - p.i) + (q.i - l.i) \in 0 .. q.i - p.i
    <3> DEFINE i == p.i
               j == l.i
               k == q.i
               u == p.id
               v == l.id
               w == q.id
    <3>1. i \in Int /\ j \in Int /\ k \in Int /\ u \in Int /\ v \in Int /\ w \in Int
      BY <1>8, <1>3, <2>8
    <3>2. j >= i /\ v >= u /\ v - u <= j - i /\ k >= j /\ w >= v /\ w - v <= k - j
      BY <1>7, <2>6
    <3> HIDE DEF i, j, k, u, v, w
    <3>3. k >= i /\ w >= u /\ w - u <= k - i /\ (j - i) + (k - j) \in 0 .. k - i
      BY <3>1, <3>2
    <3> QED
      BY <3>3 DEF i, j, k, u, v, w
  <2>10. Advances(c, q)
    <3> DEFINE w == (l.i - p.i) + (q.i - l.i)
    <3>1. /\ Ready(q) /\ q.tokens = p.tokens /\ q.room = p.room
          /\ q.dag \in Dags[w] /\ w \in 0 .. q.i - p.i
      BY <1>7, <2>6, <2>9
    <3> HIDE DEF w
    <3> QED
      BY <1>2, <2>9, <3>1, AdvancesIf
  <2> QED
    BY <2>7, <2>10
<1> QED
  BY <1>11, <1>12

\* The loops behind an operand call with less to do, and advance.
LEMMA LoopGood ==
    ASSUME NEW rule \in {"term_", "expr_"}, NEW p, Ready(p), NEW g, NEW h,
           NEW left \in Dags[p.i - 1], NEW dag \in Dags[p.i - 1],
           NEW c, c = Call(rule, p, left, dag),
           \A d \in Calls : CallWeight(d) < CallWeight(c) => g[d] = h[d] /\ Advances(d, g[d])
    PROVE  /\ LoopStep(g, rule, p, left, dag) = LoopStep(h, rule, p, left, dag)
           /\ Advances(c, LoopStep(g, rule, p, left, dag))
<1>1. /\ rule \in Rules /\ OperandOf(rule) \in Rules
      /\ RuleRank(rule) \in 0 .. 5 /\ RuleRank(OperandOf(rule)) \in 0 .. 5
      /\ OperatorsOf(rule) \subseteq NodeOps /\ "end" \notin OperatorsOf(rule)
  BY DEF Rules, OperandOf, RuleRank, OperatorsOf, NodeOps
<1>2. rule \in Rules
  BY <1>1
<1>3. /\ c \in Calls /\ c.p = p /\ c.left = left /\ c.dag = dag
       /\ CallWeight(c) = ((Len(p.tokens) + 1 - p.i) * 6) + RuleRank(rule)
  BY <1>2, CallParts
<1>4. /\ Len(p.tokens) \in 0 .. MaxText /\ p.i \in 1 .. Len(p.tokens) + 1 /\ p.i \in Int
      /\ p.id \in Nat /\ p.room \in Nat /\ MaxText \in Nat /\ p.i - 1 \in 0 .. MaxText
  BY ReadyParts, TextAssumption
<1>5. Null \in Dags[0] /\ Null \in Dag /\ 0 \in 0 .. p.i - p.i
      /\ p.i >= p.i /\ p.id >= p.id /\ p.id - p.id <= p.i - p.i
  BY <1>4, NullIsDag
<1>6. CASE Next_(p) \notin OperatorsOf(rule)
  <2>1. \A k \in 0 .. p.i - 1 : k + (p.i - p.i) = k
    BY <1>4
  <2>2. dag \in Dag
    BY <1>4, DagsInDag
  <2>3. Advances(c, Returns(p, dag))
    <3> DEFINE q == Returns(p, dag)
    <3>1. /\ Ready(q) /\ q.dag = dag /\ q.tokens = p.tokens /\ q.room = p.room
          /\ q.i = p.i /\ q.id = p.id
      BY <2>2, ReturnsParts
    <3> HIDE DEF q
    <3>2. q.i >= p.i /\ q.id >= p.id /\ q.id - p.id <= q.i - p.i
      BY <1>5, <3>1
    <3>3. \A k \in 0 .. p.i - 1 :
            left \in Dags[k] /\ dag \in Dags[k] => q.dag \in Dags[k + (q.i - p.i)]
      BY <2>1, <3>1
    <3>4. Advances(Call(rule, p, left, dag), q)
      BY <1>2, <3>1, <3>2, <3>3, AdvancesBack
    <3> QED
      BY <3>4 DEF q
  <2> QED
    BY <1>6, <2>3 DEF LoopStep
<1>7. CASE Next_(p) \in OperatorsOf(rule) /\ Full(p)
  <2>1. Advances(c, Returns(p, Null))
    BY <1>3, <1>5, ReturnsParts, AdvancesIf
  <2> QED
    BY <1>7, <2>1 DEF LoopStep
<1>8. CASE Next_(p) \in OperatorsOf(rule) /\ ~ Full(p)
  <2>1. p.i <= Len(p.tokens) /\ Next_(p) \in NodeOps
    BY <1>1, <1>8, NextIs
  <2> DEFINE next == Forward(Numbered(p))
             first == To(OperandOf(rule), next)
             r == g[first]
             n == Node(Next_(p), next.id, 0, left, r.dag)
             second == Call(rule, r, n, n)
             m == g[second]
             third == Call(rule, m, left, m.dag)
             q == g[third]
  <2>2. Ready(next) /\ next.i = p.i + 1 /\ next.id = p.id + 1 /\ next.tokens = p.tokens
        /\ next.room = p.room
    BY <2>1, ForwardParts
  <2> HIDE DEF next
  <2>3. first \in Calls
        /\ CallWeight(first) = ((Len(p.tokens) + 1 - (p.i + 1)) * 6) + RuleRank(OperandOf(rule))
    <3> DEFINE o == OperandOf(rule)
    <3>1. o \in Rules /\ Ready(next)
      BY <1>1, <2>2
    <3>2. first = To(o, next)
      OBVIOUS
    <3> HIDE DEF o, first
    <3>3. To(o, next) \in Calls
          /\ CallWeight(To(o, next)) = ((Len(next.tokens) + 1 - next.i) * 6) + RuleRank(o)
      BY <3>1, ToParts
    <3> QED
      BY <2>2, <3>2, <3>3 DEF o
  <2>4. CallWeight(first) < CallWeight(c)
    <3>1. \A x, i \in Int : \A a, b \in 0 .. 5 :
            ((x + 1 - (i + 1)) * 6) + a < ((x + 1 - i) * 6) + b
      OBVIOUS
    <3>2. /\ Len(p.tokens) \in Int /\ p.i \in Int
          /\ RuleRank(rule) \in 0 .. 5 /\ RuleRank(OperandOf(rule)) \in 0 .. 5
      BY <1>1, <1>4
    <3> QED
      BY <1>3, <2>3, <3>1, <3>2
  <2>5. r = h[first] /\ Advances(first, r)
    BY <2>3, <2>4
  <2>6. /\ Ready(r) /\ r.tokens = p.tokens /\ r.room = p.room
        /\ r.i >= p.i + 1 /\ r.id >= p.id + 1 /\ r.id - (p.id + 1) <= r.i - (p.i + 1)
        /\ r.dag \in Dags[r.i - (p.i + 1)] /\ r.i - (p.i + 1) \in 0 .. MaxText
    <3>1. OperandOf(rule) \in Rules
      BY <1>1
    <3> HIDE DEF r
    <3>2. /\ Ready(r) /\ r.tokens = next.tokens /\ r.room = next.room
          /\ r.i >= next.i /\ r.id >= next.id /\ r.id - next.id <= r.i - next.i
          /\ r.dag \in Dags[r.i - next.i] /\ r.i - next.i \in 0 .. MaxText
      BY <2>2, <2>5, <3>1, AdvancesTo
    <3> QED
      BY <2>2, <3>2
  <2>7. r.i \in 1 .. Len(p.tokens) + 1 /\ r.i \in Int /\ r.id \in Int /\ p.id \in Int
    <3> HIDE DEF r
    <3>1. Ready(r) /\ r.tokens = p.tokens
      BY <2>6
    <3>2. r.i \in 1 .. Len(r.tokens) + 1 /\ r.i \in Int /\ r.id \in Nat
      BY <3>1, ReadyParts
    <3> QED
      BY <1>4, <3>1, <3>2
  <2>8. r.i >= p.i /\ r.id >= p.id /\ r.id - p.id <= r.i - p.i /\ 0 \in 0 .. r.i - p.i
    <3>1. \A i, j, u, v \in Int :
            j >= i + 1 /\ v >= u + 1 /\ v - (u + 1) <= j - (i + 1)
            => j >= i /\ v >= u /\ v - u <= j - i /\ 0 \in 0 .. j - i
      OBVIOUS
    <3>2. p.i \in Int /\ r.i \in Int /\ p.id \in Int /\ r.id \in Int
      BY <1>4, <2>7
    <3>3. r.i >= p.i + 1 /\ r.id >= p.id + 1 /\ r.id - (p.id + 1) <= r.i - (p.i + 1)
      BY <2>6
    <3> HIDE DEF r
    <3> QED
      BY <3>1, <3>2, <3>3
  <2>9. /\ LoopStep(g, rule, p, left, dag)
           = IF r.dag = Null THEN [r EXCEPT !.bad = @ \/ rule = "expr_"]
             ELSE IF m.dag = Null THEN m ELSE q
        /\ LoopStep(h, rule, p, left, dag)
           = IF r.dag = Null THEN [r EXCEPT !.bad = @ \/ rule = "expr_"]
             ELSE IF h[second].dag = Null THEN h[second]
             ELSE h[Call(rule, h[second], left, h[second].dag)]
    BY <1>8, <2>5 DEF LoopStep, next
  <2> HIDE DEF r, first
  <2>10. CASE r.dag = Null
    <3> DEFINE e == [r EXCEPT !.bad = @ \/ rule = "expr_"]
    <3>1. e = [tokens |-> r.tokens, room |-> r.room, i |-> r.i, id |-> r.id,
               dag |-> r.dag, bad |-> (r.bad \/ rule = "expr_")]
      <4>1. r \in Parsers
        BY <2>6 DEF Ready
      <4> QED
        BY <4>1 DEF Parsers
    <3>2. Ready(e)
      BY <2>6, <3>1 DEF Ready, Parsers
    <3>3. e.tokens = p.tokens /\ e.room = p.room /\ e.i = r.i /\ e.id = r.id /\ e.dag = Null
      BY <2>6, <2>10, <3>1
    <3> HIDE DEF e
    <3>4. Advances(c, e)
      BY <1>3, <1>5, <2>8, <3>2, <3>3, AdvancesIf
    <3> QED
      BY <2>9, <2>10, <3>4 DEF e
  <2>11. CASE r.dag # Null
    <3>1. \A k \in 0 .. p.i - 1 : left \in Dags[k] => n \in Dags[k + (r.i - p.i)]
      <4> TAKE k \in 0 .. p.i - 1
      <4> HAVE left \in Dags[k]
      <4> DEFINE u == r.i - (p.i + 1)
      <4>1. /\ k \in Nat /\ u \in Nat /\ k + u + 1 <= MaxText /\ k + u + 1 = k + (r.i - p.i)
            /\ p.id + 1 \in Nat /\ 0 \in Nat
        <5>1. \A i, j, l, x \in Int : \A y \in 0 .. i - 1 :
                i >= 1 /\ j >= i + 1 /\ j <= l + 1 /\ l <= x
                => /\ j - (i + 1) \in Nat /\ y + (j - (i + 1)) + 1 <= x
                   /\ y + (j - (i + 1)) + 1 = y + (j - i)
          OBVIOUS
        <5>2. /\ p.i \in Int /\ r.i \in Int /\ Len(p.tokens) \in Int /\ MaxText \in Int
              /\ p.i >= 1 /\ r.i >= p.i + 1 /\ r.i <= Len(p.tokens) + 1 /\ Len(p.tokens) <= MaxText
          BY <1>4, <2>6, <2>7
        <5>3. k \in Nat /\ p.id + 1 \in Nat /\ 0 \in Nat
          BY <1>4
        <5> DEFINE i == p.i
                   j == r.i
        <5>4. i \in Int /\ j \in Int /\ k \in 0 .. i - 1
          BY <5>2
        <5>5. i >= 1 /\ j >= i + 1 /\ j <= Len(p.tokens) + 1
          BY <5>2
        <5> HIDE DEF i, j
        <5>6. /\ j - (i + 1) \in Nat /\ k + (j - (i + 1)) + 1 <= MaxText
              /\ k + (j - (i + 1)) + 1 = k + (j - i)
          BY <5>1, <5>2, <5>4, <5>5
        <5>7. /\ r.i - (p.i + 1) \in Nat /\ k + (r.i - (p.i + 1)) + 1 <= MaxText
              /\ k + (r.i - (p.i + 1)) + 1 = k + (r.i - p.i)
          BY <5>6 DEF i, j
        <5> QED
          BY <5>2, <5>3, <5>7
      <4>2. r.dag \in Dags[u]
        BY <2>6
      <4> HIDE DEF u
      <4>3. Node(Next_(p), p.id + 1, 0, left, r.dag) \in Dags[k + u + 1]
        BY <2>1, <4>1, <4>2, NodeOver
      <4> QED
        BY <2>2, <4>1, <4>3
    <3> HIDE DEF n
    <3>2. /\ p.i - 1 \in 0 .. p.i - 1 /\ (p.i - 1) + (r.i - p.i) = r.i - 1
          /\ Len(r.tokens) = Len(p.tokens)
      BY <1>4, <2>6, <2>7, SMTT(30)
    <3>3. n \in Dags[r.i - 1]
      BY <3>1, <3>2
    <3>4. /\ second \in Calls
          /\ CallWeight(second) = ((Len(p.tokens) + 1 - r.i) * 6) + RuleRank(rule)
      <4>1. Ready(r) /\ rule \in Rules
        BY <1>1, <2>6
      <4> QED
        BY <3>2, <3>3, <4>1, CallParts
    <3>5. \A x, i, j, a \in Int :
            j > i => ((x + 1 - j) * 6) + a < ((x + 1 - i) * 6) + a
      OBVIOUS
    <3>6. Len(p.tokens) \in Int /\ p.i \in Int /\ r.i \in Int /\ r.i > p.i /\ RuleRank(rule) \in Int
      BY <1>1, <1>4, <2>6, <2>7, SMTT(30)
    <3>7. ((Len(p.tokens) + 1 - r.i) * 6) + RuleRank(rule)
          < ((Len(p.tokens) + 1 - p.i) * 6) + RuleRank(rule)
      BY <3>5, <3>6
    <3>8. m = h[second] /\ Advances(second, m)
      BY <1>3, <3>4, <3>7
    <3>9. /\ Ready(m) /\ m.tokens = r.tokens /\ m.room = r.room
          /\ m.i >= r.i /\ m.id >= r.id /\ m.id - r.id <= m.i - r.i
          /\ \A k \in 0 .. r.i - 1 : n \in Dags[k] => m.dag \in Dags[k + (m.i - r.i)]
      <4>1. Ready(r) /\ rule \in Rules
        BY <1>1, <2>6
      <4> HIDE DEF m
      <4> QED
        BY <3>3, <3>8, <4>1, AdvancesCall
    <3>10. /\ LoopStep(g, rule, p, left, dag) = IF m.dag = Null THEN m ELSE q
           /\ LoopStep(h, rule, p, left, dag) = IF m.dag = Null THEN m ELSE h[third]
      BY <2>9, <2>11, <3>8
    <3> HIDE DEF m, second
    <3>11. m.i \in 1 .. Len(p.tokens) + 1 /\ m.i \in Int /\ m.id \in Int
      BY <2>6, <3>9, ReadyParts, SMTT(30)
    <3>12. /\ m.i >= p.i /\ m.id >= p.id /\ m.id - p.id <= m.i - p.i
           /\ m.tokens = p.tokens /\ m.room = p.room
      <4>1. \A i, j, k, u, v, w \in Int :
              j >= i /\ v >= u /\ v - u <= j - i /\ k >= j /\ w >= v /\ w - v <= k - j
              => k >= i /\ w >= u /\ w - u <= k - i
        OBVIOUS
      <4>2. p.i \in Int /\ r.i \in Int /\ m.i \in Int /\ p.id \in Int /\ r.id \in Int /\ m.id \in Int
        BY <1>4, <2>7, <3>11
      <4>3. /\ r.i >= p.i /\ r.id >= p.id /\ r.id - p.id <= r.i - p.i
            /\ m.i >= r.i /\ m.id >= r.id /\ m.id - r.id <= m.i - r.i
        BY <2>8, <3>9
      <4> QED
        BY <2>6, <3>9, <4>1, <4>2, <4>3
    <3>13. \A k \in 0 .. p.i - 1 : left \in Dags[k] => m.dag \in Dags[k + (m.i - p.i)]
      <4> TAKE k \in 0 .. p.i - 1
      <4> HAVE left \in Dags[k]
      <4>1. k + (r.i - p.i) \in 0 .. r.i - 1 /\ (k + (r.i - p.i)) + (m.i - r.i) = k + (m.i - p.i)
        <5>1. \A i, j, l \in Int : \A y \in 0 .. i - 1 :
                j >= i => y + (j - i) \in 0 .. j - 1 /\ (y + (j - i)) + (l - j) = y + (l - i)
          OBVIOUS
        <5>2. p.i \in Int /\ r.i \in Int /\ m.i \in Int /\ r.i >= p.i
          BY <1>4, <2>7, <2>8, <3>11
        <5> QED
          BY <5>1, <5>2
      <4> QED
        BY <3>1, <3>9, <4>1
    <3>14. CASE m.dag = Null
      <4>1. Advances(c, m)
        BY <1>1, <3>9, <3>12, <3>13, AdvancesBack
      <4> QED
        BY <3>10, <3>14, <4>1
    <3>15. CASE m.dag # Null
      <4>1. /\ p.i - 1 \in 0 .. p.i - 1 /\ (p.i - 1) + (m.i - p.i) = m.i - 1
            /\ m.i - 1 \in 0 .. MaxText /\ p.i - 1 <= m.i - 1
            /\ Len(m.tokens) = Len(p.tokens)
        <5>1. \A i, j, l, x \in Int :
                i >= 1 /\ j >= i /\ j <= l + 1 /\ l <= x
                => /\ i - 1 \in 0 .. i - 1 /\ (i - 1) + (j - i) = j - 1
                   /\ j - 1 \in 0 .. x /\ i - 1 <= j - 1
          OBVIOUS
        <5>2. /\ p.i \in Int /\ m.i \in Int /\ Len(p.tokens) \in Int /\ MaxText \in Int
              /\ p.i >= 1 /\ m.i >= p.i /\ m.i <= Len(p.tokens) + 1 /\ Len(p.tokens) <= MaxText
          BY <1>4, <3>11, <3>12
        <5> QED
          BY <3>12, <5>1, <5>2
      <4>2. m.dag \in Dags[m.i - 1] /\ left \in Dags[m.i - 1]
        BY <1>4, <3>13, <4>1, DagsNest
      <4>3. Ready(m) /\ rule \in Rules
        BY <1>1, <3>9
      <4>4. /\ third \in Calls
            /\ CallWeight(third) = ((Len(p.tokens) + 1 - m.i) * 6) + RuleRank(rule)
        BY <4>1, <4>2, <4>3, CallParts
      <4>5. m.i > p.i
        <5>1. \A i, j, l \in Int : j >= i + 1 /\ l >= j => l > i
          OBVIOUS
        <5>2. p.i \in Int /\ r.i \in Int /\ m.i \in Int /\ r.i >= p.i + 1 /\ m.i >= r.i
          BY <1>4, <2>6, <2>7, <3>9, <3>11
        <5> QED
          BY <5>1, <5>2
      <4>6. ((Len(p.tokens) + 1 - m.i) * 6) + RuleRank(rule)
            < ((Len(p.tokens) + 1 - p.i) * 6) + RuleRank(rule)
        BY <3>5, <3>6, <3>11, <4>5
      <4>7. q = h[third] /\ Advances(third, q)
        BY <1>3, <4>4, <4>6
      <4>8. LoopStep(g, rule, p, left, dag) = q /\ LoopStep(h, rule, p, left, dag) = q
        BY <3>10, <3>15, <4>7
      <4> HIDE DEF q
      <4>9. /\ Ready(q) /\ q.tokens = m.tokens /\ q.room = m.room
            /\ q.i >= m.i /\ q.id >= m.id /\ q.id - m.id <= q.i - m.i
            /\ \A k \in 0 .. m.i - 1 :
                 left \in Dags[k] /\ m.dag \in Dags[k] => q.dag \in Dags[k + (q.i - m.i)]
        BY <4>2, <4>3, <4>7, AdvancesCall
      <4> HIDE DEF third
      <4>10. q.i \in Int /\ q.id \in Int
        BY <4>9, ReadyParts
      <4>11. /\ q.i >= p.i /\ q.id >= p.id /\ q.id - p.id <= q.i - p.i
             /\ q.tokens = p.tokens /\ q.room = p.room
        <5>1. \A i, j, k, u, v, w \in Int :
                j >= i /\ v >= u /\ v - u <= j - i /\ k >= j /\ w >= v /\ w - v <= k - j
                => k >= i /\ w >= u /\ w - u <= k - i
          OBVIOUS
        <5>2. p.i \in Int /\ q.i \in Int /\ m.i \in Int /\ p.id \in Int /\ q.id \in Int /\ m.id \in Int
          BY <1>4, <2>7, <3>11, <4>10
        <5> QED
          BY <3>12, <4>9, <5>1, <5>2
      <4>12. ASSUME NEW k \in 0 .. p.i - 1, left \in Dags[k]
             PROVE  q.dag \in Dags[k + (q.i - p.i)]
        <5> DEFINE x == k + (m.i - p.i)
        <5>1. /\ x \in 0 .. m.i - 1 /\ x \in 0 .. MaxText /\ k \in 0 .. MaxText /\ k <= x
              /\ x + (q.i - m.i) = k + (q.i - p.i)
          <6>1. \A i, j, l, b \in Int : \A y \in 0 .. i - 1 :
                  j >= i /\ j - 1 \in 0 .. b
                  => /\ y + (j - i) \in 0 .. j - 1 /\ y + (j - i) \in 0 .. b
                     /\ y \in 0 .. b /\ y <= y + (j - i)
                     /\ (y + (j - i)) + (l - j) = y + (l - i)
            OBVIOUS
          <6>2. /\ p.i \in Int /\ m.i \in Int /\ q.i \in Int /\ MaxText \in Int
                /\ m.i >= p.i /\ m.i - 1 \in 0 .. MaxText
            BY <1>4, <3>11, <3>12, <4>1, <4>10
          <6> QED
            BY <6>1, <6>2
        <5>2. m.dag \in Dags[x]
          BY <3>13, <4>12
        <5> HIDE DEF x
        <5>3. left \in Dags[x]
          BY <4>12, <5>1, DagsNest
        <5> QED
          BY <4>9, <5>1, <5>2, <5>3
      <4>13. Advances(c, q)
        BY <1>1, <4>9, <4>11, <4>12, AdvancesBack
      <4> QED
        BY <4>8, <4>13
    <3> QED
      BY <3>14, <3>15
  <2> QED
    BY <2>10, <2>11
<1> QED
  BY <1>6, <1>7, <1>8

\* The four together.
LEMMA StepGood ==
    ASSUME NEW c \in Calls, NEW g, NEW h,
           \A d \in Calls : CallWeight(d) < CallWeight(c) => g[d] = h[d] /\ Advances(d, g[d])
    PROVE  ParsedStep(g, c) = ParsedStep(h, c) /\ Advances(c, ParsedStep(g, c))
<1> DEFINE q(f) == ParsedStep(f, c)
<1>1. /\ c = Call(c.rule, c.p, c.left, c.dag)
      /\ c.rule \in Rules /\ Ready(c.p)
      /\ c.left \in Dags[c.p.i - 1] /\ c.dag \in Dags[c.p.i - 1]
  BY CallsAre
<1> DEFINE d == To(c.rule, c.p)
<1>2. /\ d \in Calls /\ d.p = c.p /\ d.rule = c.rule /\ CallWeight(d) = CallWeight(c)
  BY <1>1, ToParts DEF CallWeight
<1>3. \A r : Advances(d, r) => Ready(r) /\ r.tokens = c.p.tokens /\ r.room = c.p.room
                               /\ r.i >= c.p.i /\ r.id >= c.p.id /\ r.id - c.p.id <= r.i - c.p.i
                               /\ r.dag \in Dags[r.i - c.p.i]
  BY <1>1, AdvancesTo
<1>4. \A r : Advances(d, r) => Advances(c, r)
  <2> TAKE r
  <2> HAVE Advances(d, r)
  <2>1. /\ Ready(r) /\ r.tokens = c.p.tokens /\ r.room = c.p.room
        /\ r.i >= c.p.i /\ r.id >= c.p.id /\ r.id - c.p.id <= r.i - c.p.i
        /\ r.dag \in Dags[r.i - c.p.i]
    BY <1>3
  <2>2. r.i - c.p.i \in 0 .. r.i - c.p.i
    <3>1. r.i \in Int /\ c.p.i \in Int
      BY <1>1, <2>1, ReadyParts
    <3>2. \A i, j \in Int : j >= i => j - i \in 0 .. j - i
      OBVIOUS
    <3> QED
      BY <2>1, <3>1, <3>2
  <2> QED
    BY <2>1, <2>2, AdvancesIf
<1>5. \A x \in Calls : CallWeight(x) < CallWeight(d) => g[x] = h[x] /\ Advances(x, g[x])
  BY <1>2
<1>6. CASE c.rule = "primary"
  <2>1. d = To("primary", c.p)
    BY <1>6
  <2>2. PrimaryStep(g, c.p) = PrimaryStep(h, c.p) /\ Advances(d, PrimaryStep(g, c.p))
    BY <1>1, <1>5, <2>1, PrimaryGood
  <2> QED
    BY <1>4, <1>6, <2>2 DEF ParsedStep
<1>7. CASE c.rule = "unary"
  <2>1. d = To("unary", c.p)
    BY <1>7
  <2>2. UnaryStep(g, c.p) = UnaryStep(h, c.p) /\ Advances(d, UnaryStep(g, c.p))
    BY <1>1, <1>5, <2>1, UnaryGood
  <2> QED
    BY <1>4, <1>7, <2>2 DEF ParsedStep
<1>8. CASE c.rule \in {"term", "expr"}
  <2>1. ChainStep(g, c.rule, c.p) = ChainStep(h, c.rule, c.p)
        /\ Advances(d, ChainStep(g, c.rule, c.p))
    BY <1>1, <1>5, <1>8, ChainGood
  <2>2. /\ ParsedStep(g, c) = ChainStep(g, c.rule, c.p)
        /\ ParsedStep(h, c) = ChainStep(h, c.rule, c.p)
    BY <1>8 DEF ParsedStep
  <2> QED
    BY <1>4, <2>1, <2>2
<1>9. CASE c.rule \in {"term_", "expr_"}
  <2>1. LoopStep(g, c.rule, c.p, c.left, c.dag) = LoopStep(h, c.rule, c.p, c.left, c.dag)
        /\ Advances(c, LoopStep(g, c.rule, c.p, c.left, c.dag))
    <3> DEFINE rule == c.rule
               p == c.p
               left == c.left
               dag == c.dag
    <3>1. /\ rule \in {"term_", "expr_"} /\ Ready(p) /\ c = Call(rule, p, left, dag)
          /\ left \in Dags[p.i - 1] /\ dag \in Dags[p.i - 1]
      BY <1>1, <1>9
    <3> HIDE DEF rule, p, left, dag
    <3>2. LoopStep(g, rule, p, left, dag) = LoopStep(h, rule, p, left, dag)
          /\ Advances(c, LoopStep(g, rule, p, left, dag))
      BY <3>1, LoopGood
    <3> QED
      BY <3>2 DEF rule, p, left, dag
  <2>2. /\ ParsedStep(g, c) = LoopStep(g, c.rule, c.p, c.left, c.dag)
        /\ ParsedStep(h, c) = LoopStep(h, c.rule, c.p, c.left, c.dag)
    BY <1>9 DEF ParsedStep
  <2> QED
    BY <2>1, <2>2
<1> QED
  BY <1>1, <1>6, <1>7, <1>8, <1>9 DEF Rules

\* Parsed is what its definition says of it, and every call returns further on.
LEMMA ParsedIs ==
    \A c \in Calls : Parsed[c] = ParsedStep(Parsed, c) /\ Advances(c, Parsed[c])
<1> DEFINE Below(n) == {c \in Calls : CallWeight(c) < n}
           S == {n \in Nat : \E g : /\ g = [c \in Below(n) |-> ParsedStep(g, c)]
                                    /\ \A c \in Below(n) : Advances(c, g[c])}
           top == (MaxText * 6) + 6
<1>1. MaxText \in Nat /\ top \in Nat
  BY TextAssumption
<1>2. \A c \in Calls : CallWeight(c) \in 0 .. (MaxText * 6) + 5
  BY CallsAre
<1>3. 0 \in S
  <2>1. Below(0) = {}
    BY <1>2
  <2> DEFINE g == [c \in Below(0) |-> c]
  <2>2. g = [c \in Below(0) |-> ParsedStep(g, c)]
    BY <2>1
  <2> QED
    BY <2>1, <2>2
<1>4. \A n \in 0 .. top - 1 : n \in S => n + 1 \in S
  <2> SUFFICES ASSUME NEW n \in 0 .. top - 1, n \in S PROVE n + 1 \in S
    OBVIOUS
  <2>1. PICK g : /\ g = [c \in Below(n) |-> ParsedStep(g, c)]
                 /\ \A c \in Below(n) : Advances(c, g[c])
    OBVIOUS
  <2> DEFINE h == [c \in Below(n + 1) |-> ParsedStep(g, c)]
  <2>2. \A c \in Below(n) : h[c] = g[c]
    <3> TAKE c \in Below(n)
    <3>1. c \in Below(n + 1)
      BY <1>1, <1>2
    <3>2. g[c] = ParsedStep(g, c)
      BY <2>1
    <3>3. h[c] = ParsedStep(g, c)
      BY <3>1
    <3> QED
      BY <3>2, <3>3
  <2>3. \A c \in Below(n + 1) : ParsedStep(g, c) = ParsedStep(h, c)
                                /\ Advances(c, ParsedStep(g, c))
    <3> TAKE c \in Below(n + 1)
    <3> HIDE DEF h
    <3>1. \A d \in Calls : CallWeight(d) < CallWeight(c) => d \in Below(n)
      BY <1>1, <1>2
    <3>2. \A d \in Calls : CallWeight(d) < CallWeight(c) => g[d] = h[d] /\ Advances(d, g[d])
      BY <2>1, <2>2, <3>1
    <3>3. c \in Calls
      OBVIOUS
    <3> QED
      BY <3>2, <3>3, StepGood
  <2>4. h = [c \in Below(n + 1) |-> ParsedStep(h, c)]
    <3> DEFINE A(c) == ParsedStep(g, c)
               B(c) == ParsedStep(h, c)
    <3>1. \A c \in Below(n + 1) : A(c) = B(c)
      BY <2>3
    <3>2. h = [c \in Below(n + 1) |-> A(c)]
      OBVIOUS
    <3> HIDE DEF A, B, h
    <3>3. h = [c \in Below(n + 1) |-> B(c)]
      BY <3>1, <3>2
    <3> QED
      BY <3>3 DEF B
  <2>5. \A c \in Below(n + 1) : Advances(c, h[c])
    BY <2>3
  <2> HIDE DEF h
  <2>6. n + 1 \in Nat
    OBVIOUS
  <2> QED
    BY <2>4, <2>5, <2>6
<1>5. top \in S
  <2> HIDE DEF S
  <2>1. 0 .. top \subseteq S
    BY <1>1, <1>3, <1>4, Upwards
  <2> QED
    BY <1>1, <2>1
<1>6. PICK g : /\ g = [c \in Below(top) |-> ParsedStep(g, c)]
               /\ \A c \in Below(top) : Advances(c, g[c])
  BY <1>5
<1>7. Below(top) = Calls
  BY <1>1, <1>2
<1>8. g = [c \in Calls |-> ParsedStep(g, c)]
  BY <1>6, <1>7
<1>9. Parsed = CHOOSE f : f = [c \in Calls |-> ParsedStep(f, c)]
  BY DEF Parsed, ParsedStep, PrimaryStep, UnaryStep, ChainStep, LoopStep
<1>10. Parsed = [c \in Calls |-> ParsedStep(Parsed, c)]
  BY <1>8, <1>9
<1>11. \A c \in Calls : Parsed[c] = ParsedStep(Parsed, c)
  BY <1>10
<1> DEFINE T == {n \in Nat : \A c \in Below(n) : Advances(c, Parsed[c])}
<1>12. 0 \in T
  BY <1>2
<1>13. \A n \in 0 .. top - 1 : n \in T => n + 1 \in T
  <2> SUFFICES ASSUME NEW n \in 0 .. top - 1, n \in T, NEW c \in Below(n + 1)
               PROVE  Advances(c, Parsed[c])
    OBVIOUS
  <2>1. \A d \in Calls : CallWeight(d) < CallWeight(c) => d \in Below(n)
    BY <1>1, <1>2
  <2>2. \A d \in Calls : CallWeight(d) < CallWeight(c) => Advances(d, Parsed[d])
    BY <2>1
  <2>3. c \in Calls
    OBVIOUS
  <2>4. Advances(c, ParsedStep(Parsed, c))
    BY <2>2, <2>3, StepGood
  <2> QED
    BY <1>11, <2>3, <2>4
<1>14. top \in T
  <2> HIDE DEF T
  <2>1. 0 .. top \subseteq T
    BY <1>1, <1>12, <1>13, Upwards
  <2> QED
    BY <1>1, <2>1
<1> QED
  BY <1>7, <1>11, <1>14

\* Induction over the calls.
LEMMA OverCalls ==
    ASSUME NEW S,
           \A c \in Calls :
             (\A d \in Calls : CallWeight(d) < CallWeight(c) => d \in S) => c \in S
    PROVE  Calls \subseteq S
<1> DEFINE N == {n \in Nat : \A c \in Calls : CallWeight(c) < n => c \in S}
           top == (MaxText * 6) + 6
<1>1. MaxText \in Nat /\ top \in Nat
  BY TextAssumption
<1>2. \A c \in Calls : CallWeight(c) \in 0 .. (MaxText * 6) + 5
  BY CallsAre
<1>3. 0 \in N
  BY <1>2
<1>4. \A n \in 0 .. top - 1 : n \in N => n + 1 \in N
  <2> SUFFICES ASSUME NEW n \in 0 .. top - 1, n \in N, NEW c \in Calls, CallWeight(c) < n + 1
               PROVE  c \in S
    OBVIOUS
  <2>1. \A d \in Calls : CallWeight(d) < CallWeight(c) => CallWeight(d) < n
    BY <1>1, <1>2
  <2>2. \A d \in Calls : CallWeight(d) < CallWeight(c) => d \in S
    BY <2>1
  <2> QED
    BY <2>2
<1>5. top \in N
  <2> HIDE DEF N
  <2>1. 0 .. top \subseteq N
    BY <1>1, <1>3, <1>4, Upwards
  <2> QED
    BY <1>1, <2>1
<1> QED
  BY <1>1, <1>2, <1>5

\* What a call without a tree on its left returns.
LEMMA ParsedTo ==
    ASSUME NEW rule \in Rules, NEW p, Ready(p), NEW q, q = Parsed[To(rule, p)]
    PROVE  /\ Ready(q) /\ q.tokens = p.tokens /\ q.room = p.room
           /\ q.i >= p.i /\ q.id >= p.id /\ q.id - p.id <= q.i - p.i
           /\ q.dag \in Dags[q.i - p.i] /\ q.i - p.i \in 0 .. MaxText
           /\ q.i \in 1 .. Len(p.tokens) + 1 /\ q.i \in Int /\ q.id \in Nat
           /\ q.dag \in Dags[q.i - 1]
<1>1. To(rule, p) \in Calls
  BY ToParts
<1>2. Advances(To(rule, p), q)
  BY <1>1, ParsedIs
<1>3. /\ Ready(q) /\ q.tokens = p.tokens /\ q.room = p.room
      /\ q.i >= p.i /\ q.id >= p.id /\ q.id - p.id <= q.i - p.i
      /\ q.dag \in Dags[q.i - p.i] /\ q.i - p.i \in 0 .. MaxText
  BY <1>2, AdvancesTo
<1>4. /\ q.i \in 1 .. Len(p.tokens) + 1 /\ q.i \in Int /\ q.id \in Nat
      /\ q.i - 1 \in 0 .. MaxText
  BY <1>3, ReadyParts
<1>5. p.i \in Int /\ p.i >= 1
  BY ReadyParts
<1>6. \A i, j \in Int : j >= i /\ i >= 1 => j - i <= j - 1
  OBVIOUS
<1>7. q.i - p.i <= q.i - 1
  BY <1>3, <1>4, <1>5, <1>6
<1> QED
  BY <1>3, <1>4, <1>7, DagsNest

\* What a loop returns.
LEMMA ParsedCall ==
    ASSUME NEW rule \in Rules, NEW p, Ready(p),
           NEW left \in Dags[p.i - 1], NEW dag \in Dags[p.i - 1],
           NEW q, q = Parsed[Call(rule, p, left, dag)]
    PROVE  /\ Ready(q) /\ q.tokens = p.tokens /\ q.room = p.room
           /\ q.i >= p.i /\ q.id >= p.id /\ q.id - p.id <= q.i - p.i
           /\ q.i \in 1 .. Len(p.tokens) + 1 /\ q.i \in Int /\ q.id \in Nat
           /\ q.dag \in Dags[q.i - 1]
<1>1. Call(rule, p, left, dag) \in Calls
  BY CallParts
<1>2. Advances(Call(rule, p, left, dag), q)
  BY <1>1, ParsedIs
<1>3. /\ Ready(q) /\ q.tokens = p.tokens /\ q.room = p.room
      /\ q.i >= p.i /\ q.id >= p.id /\ q.id - p.id <= q.i - p.i
      /\ \A k \in 0 .. p.i - 1 :
           left \in Dags[k] /\ dag \in Dags[k] => q.dag \in Dags[k + (q.i - p.i)]
  BY <1>2, AdvancesCall
<1>4. q.i \in 1 .. Len(p.tokens) + 1 /\ q.i \in Int /\ q.id \in Nat
  BY <1>3, ReadyParts
<1>5. p.i \in Int /\ p.i >= 1
  BY ReadyParts
<1>6. \A i, j \in Int : j >= i /\ i >= 1 => i - 1 \in 0 .. i - 1 /\ (i - 1) + (j - i) = j - 1
  OBVIOUS
<1>7. p.i - 1 \in 0 .. p.i - 1 /\ (p.i - 1) + (q.i - p.i) = q.i - 1
  BY <1>3, <1>4, <1>5, <1>6
<1> QED
  BY <1>3, <1>4, <1>7

\* The branches of the equation of Parsed.
LEMMA PrimaryIs ==
    ASSUME NEW p, Ready(p)
    PROVE  Parsed[To("primary", p)] = PrimaryStep(Parsed, p)
<1>1. To("primary", p) \in Calls /\ To("primary", p).rule = "primary" /\ To("primary", p).p = p
  BY ToParts DEF Rules
<1> QED
  BY <1>1, ParsedIs DEF ParsedStep

\* expr_unary is what its body says.
LEMMA UnaryIs ==
    ASSUME NEW p, Ready(p)
    PROVE  Parsed[To("unary", p)] = UnaryStep(Parsed, p)
<1>1. To("unary", p) \in Calls /\ To("unary", p).rule = "unary" /\ To("unary", p).p = p
  BY ToParts DEF Rules
<1> QED
  BY <1>1, ParsedIs DEF ParsedStep

\* expr_multiplicative and expr_additive are what their bodies say.
LEMMA ChainIs ==
    ASSUME NEW rule \in {"term", "expr"}, NEW p, Ready(p)
    PROVE  Parsed[To(rule, p)] = ChainStep(Parsed, rule, p)
<1>1. To(rule, p) \in Calls /\ To(rule, p).rule = rule /\ To(rule, p).p = p
  BY ToParts DEF Rules
<1> QED
  BY <1>1, ParsedIs DEF ParsedStep

\* The loops behind an operand are what their bodies say.
LEMMA LoopIs ==
    ASSUME NEW rule \in {"term_", "expr_"}, NEW p, Ready(p),
           NEW left \in Dags[p.i - 1], NEW dag \in Dags[p.i - 1]
    PROVE  Parsed[Call(rule, p, left, dag)] = LoopStep(Parsed, rule, p, left, dag)
<1> DEFINE c == Call(rule, p, left, dag)
<1>1. rule \in Rules
  BY DEF Rules
<1>2. c \in Calls /\ c.rule = rule /\ c.p = p /\ c.left = left /\ c.dag = dag
  BY <1>1, CallParts
<1> HIDE DEF c
<1>3. Parsed[c] = LoopStep(Parsed, rule, p, left, dag)
  BY <1>2, ParsedIs DEF ParsedStep
<1> QED
  BY <1>3 DEF c

\* What a loop reads: its operator, and the operand after it.
LEMMA LoopParts ==
    ASSUME NEW rule \in {"term_", "expr_"}, NEW p, Ready(p), Next_(p) \in OperatorsOf(rule),
           NEW r, r = Parsed[To(OperandOf(rule), Forward(Numbered(p)))],
           NEW left \in Dags[p.i - 1],
           NEW n, n = Node(Next_(p), p.id + 1, 0, left, r.dag)
    PROVE  /\ p.i <= Len(p.tokens) /\ Next_(p) \in NodeOps
           /\ Forward(Numbered(p)).id = p.id + 1
           /\ Ready(Forward(Numbered(p))) /\ OperandOf(rule) \in Rules
           /\ Ready(r) /\ r.tokens = p.tokens /\ r.room = p.room
           /\ r.i >= p.i + 1 /\ r.id >= p.id + 1 /\ r.id - (p.id + 1) <= r.i - (p.i + 1)
           /\ r.i \in 1 .. Len(p.tokens) + 1 /\ r.i \in Int /\ r.id \in Nat
           /\ n \in Dags[r.i - 1] /\ n # Null
           /\ n.op = Next_(p) /\ n.id = p.id + 1 /\ n.val = 0
           /\ n.left = left /\ n.right = r.dag
<1>1. /\ OperandOf(rule) \in Rules
      /\ OperatorsOf(rule) \subseteq NodeOps /\ "end" \notin OperatorsOf(rule)
  BY DEF Rules, OperandOf, OperatorsOf, NodeOps
<1>2. p.i <= Len(p.tokens) /\ Next_(p) \in NodeOps
  BY <1>1, NextIs
<1> DEFINE next == Forward(Numbered(p))
<1>3. Ready(next) /\ next.i = p.i + 1 /\ next.id = p.id + 1 /\ next.tokens = p.tokens
      /\ next.room = p.room
  BY <1>2, ForwardParts
<1> HIDE DEF next
<1>4. OperandOf(rule) \in Rules /\ r = Parsed[To(OperandOf(rule), next)]
  BY <1>1 DEF next
<1>5. /\ Ready(r) /\ r.tokens = next.tokens /\ r.room = next.room
      /\ r.i >= next.i /\ r.id >= next.id /\ r.id - next.id <= r.i - next.i
      /\ r.dag \in Dags[r.i - next.i] /\ r.i - next.i \in 0 .. MaxText
      /\ r.i \in 1 .. Len(next.tokens) + 1 /\ r.i \in Int /\ r.id \in Nat
  BY <1>3, <1>4, ParsedTo
<1>6. /\ Len(p.tokens) \in 0 .. MaxText /\ p.i \in 1 .. Len(p.tokens) + 1 /\ p.i \in Int
      /\ p.id \in Nat /\ MaxText \in Nat
  BY ReadyParts, TextAssumption
<1>7. /\ r.i - 2 \in 0 .. MaxText - 1 /\ r.i - 2 \in 0 .. MaxText
      /\ p.i - 1 \in 0 .. MaxText /\ p.i - 1 <= r.i - 2
      /\ r.i - (p.i + 1) \in 0 .. MaxText /\ r.i - (p.i + 1) <= r.i - 2
      /\ (r.i - 2) + 1 = r.i - 1
  <2>1. \A i, j, l, x \in Int :
          i >= 1 /\ j >= i + 1 /\ j <= l + 1 /\ l <= x
          => /\ j - 2 \in 0 .. x - 1 /\ j - 2 \in 0 .. x
             /\ i - 1 \in 0 .. x /\ i - 1 <= j - 2
             /\ j - (i + 1) \in 0 .. x /\ j - (i + 1) <= j - 2
             /\ (j - 2) + 1 = j - 1
    OBVIOUS
  <2>2. /\ p.i \in Int /\ r.i \in Int /\ Len(p.tokens) \in Int /\ MaxText \in Int
        /\ p.i >= 1 /\ r.i >= p.i + 1 /\ r.i <= Len(p.tokens) + 1 /\ Len(p.tokens) <= MaxText
    BY <1>3, <1>5, <1>6
  <2> QED
    BY <2>1, <2>2
<1>8. left \in Dags[r.i - 2] /\ r.dag \in Dags[r.i - 2]
  <2>1. r.dag \in Dags[r.i - (p.i + 1)]
    BY <1>3, <1>5
  <2> QED
    BY <1>7, <2>1, DagsNest
<1>9. p.id + 1 \in Nat /\ 0 \in Nat
  BY <1>6
<1>10. /\ n \in Dags[r.i - 1] /\ n # Null
       /\ n.op = Next_(p) /\ n.id = p.id + 1 /\ n.val = 0
       /\ n.left = left /\ n.right = r.dag
  <2>1. /\ n \in Dags[(r.i - 2) + 1] /\ n # Null
       /\ n.op = Next_(p) /\ n.id = p.id + 1 /\ n.val = 0
       /\ n.left = left /\ n.right = r.dag
    <3> DEFINE u == r.i - 2
               id == p.id + 1
               op == Next_(p)
    <3>1. /\ u \in 0 .. MaxText - 1 /\ op \in NodeOps /\ id \in Nat /\ 0 \in Nat
          /\ left \in Dags[u] /\ r.dag \in Dags[u] /\ n = Node(op, id, 0, left, r.dag)
      BY <1>2, <1>7, <1>8, <1>9
    <3> HIDE DEF u, id, op
    <3>2. /\ n \in Dags[u + 1] /\ n # Null
          /\ n.op = op /\ n.id = id /\ n.val = 0 /\ n.left = left /\ n.right = r.dag
      BY <3>1, NodeIn
    <3> QED
      BY <3>2 DEF u, id, op
  <2> QED
    BY <1>7, <2>1
<1> QED
  BY <1>1, <1>2, <1>3, <1>5, <1>10 DEF next

\* Where a loop has a tree to return, there is no operator of it any more.
LEMMA LoopEnds ==
    \A c \in Calls : c.rule \in {"term_", "expr_"} /\ Parsed[c].dag # Null
                       => Next_(Parsed[c]) \notin OperatorsOf(c.rule)
<1> DEFINE S == {c \in Calls : c.rule \in {"term_", "expr_"} /\ Parsed[c].dag # Null
                                 => Next_(Parsed[c]) \notin OperatorsOf(c.rule)}
<1>1. ASSUME NEW c \in Calls, \A d \in Calls : CallWeight(d) < CallWeight(c) => d \in S,
             c.rule \in {"term_", "expr_"}, Parsed[c].dag # Null
      PROVE  Next_(Parsed[c]) \notin OperatorsOf(c.rule)
  <2> DEFINE rule == c.rule
             p == c.p
             left == c.left
             dag == c.dag
  <2>1. /\ rule \in {"term_", "expr_"} /\ Ready(p) /\ c = Call(rule, p, left, dag)
        /\ left \in Dags[p.i - 1] /\ dag \in Dags[p.i - 1] /\ rule \in Rules
    BY <1>1, CallsAre
  <2> HIDE DEF rule, p, left, dag, S
  <2>2. Parsed[c] = LoopStep(Parsed, rule, p, left, dag)
    BY <2>1, LoopIs
  <2>3. CallWeight(c) = ((Len(p.tokens) + 1 - p.i) * 6) + RuleRank(rule)
    <3>1. c.p = p /\ c.rule = rule
      BY DEF p, rule
    <3> QED
      BY <3>1 DEF CallWeight
  <2>4. CASE Next_(p) \notin OperatorsOf(rule)
    <3>1. Parsed[c] = Returns(p, dag)
      BY <2>2, <2>4 DEF LoopStep
    <3>2. dag \in Dag
      BY <2>1, ReadyParts, DagsInDag
    <3>3. Next_(Returns(p, dag)) = Next_(p)
      BY <2>1, <3>2, ReturnsParts
    <3> QED
      BY <2>4, <3>1, <3>3 DEF rule
  <2>5. CASE Next_(p) \in OperatorsOf(rule) /\ Full(p)
    <3>1. Parsed[c] = Returns(p, Null)
      BY <2>2, <2>5 DEF LoopStep
    <3>2. Returns(p, Null).dag = Null
      BY <2>1, TextAssumption, NullIsDag, ReturnsParts
    <3> QED
      BY <1>1, <3>1, <3>2
  <2>6. CASE Next_(p) \in OperatorsOf(rule) /\ ~ Full(p)
    <3> DEFINE r == Parsed[To(OperandOf(rule), Forward(Numbered(p)))]
               n == Node(Next_(p), p.id + 1, 0, left, r.dag)
               m == Parsed[Call(rule, r, n, n)]
    <3>1. /\ p.i <= Len(p.tokens) /\ Next_(p) \in NodeOps
          /\ Forward(Numbered(p)).id = p.id + 1
          /\ Ready(r) /\ r.tokens = p.tokens
          /\ r.i >= p.i + 1 /\ r.i \in 1 .. Len(p.tokens) + 1 /\ r.i \in Int
          /\ n \in Dags[r.i - 1]
      <4> HIDE DEF r, n
      <4>1. r = Parsed[To(OperandOf(rule), Forward(Numbered(p)))]
            /\ n = Node(Next_(p), p.id + 1, 0, left, r.dag)
        BY DEF r, n
      <4> QED
        <5>1. rule \in {"term_", "expr_"} /\ Ready(p) /\ Next_(p) \in OperatorsOf(rule)
              /\ left \in Dags[p.i - 1]
          BY <2>1, <2>6
        <5> QED
          BY <4>1, <5>1, LoopParts, SMTT(30)
    <3>2. Parsed[c] = IF r.dag = Null THEN [r EXCEPT !.bad = @ \/ rule = "expr_"]
                      ELSE IF m.dag = Null THEN m ELSE Parsed[Call(rule, m, left, m.dag)]
      BY <2>2, <2>6, <3>1 DEF LoopStep
    <3> HIDE DEF r, n
    <3>3. CASE r.dag = Null
      <4>1. [r EXCEPT !.bad = @ \/ rule = "expr_"].dag = r.dag
        BY <3>1 DEF Ready, Parsers
      <4> QED
        BY <1>1, <3>2, <3>3, <4>1
    <3>4. CASE r.dag # Null /\ m.dag = Null
      BY <1>1, <3>2, <3>4
    <3>5. CASE r.dag # Null /\ m.dag # Null
      <4>1. Parsed[c] = Parsed[Call(rule, m, left, m.dag)]
        BY <3>2, <3>5
      <4>2. Ready(r)
        BY <3>1
      <4> HIDE DEF m
      <4>3. m = Parsed[Call(rule, r, n, n)]
        BY DEF m
      <4>4. /\ Ready(m) /\ m.tokens = r.tokens /\ m.i >= r.i
            /\ m.i \in 1 .. Len(r.tokens) + 1 /\ m.i \in Int
            /\ m.dag \in Dags[m.i - 1]
        <5>1. rule \in Rules /\ n \in Dags[r.i - 1]
          BY <2>1, <3>1
        <5> QED
          BY <4>2, <4>3, <5>1, ParsedCall
      <4>5. /\ p.i - 1 \in 0 .. MaxText /\ m.i - 1 \in 0 .. MaxText
            /\ p.i \in Int /\ Len(p.tokens) \in Int
        BY <2>1, <4>4, ReadyParts
      <4>6. p.i - 1 <= m.i - 1 /\ m.i > p.i
        <5>1. \A i, j, k \in Int : j >= i + 1 /\ k >= j => i - 1 <= k - 1 /\ k > i
          OBVIOUS
        <5> QED
          BY <3>1, <4>4, <4>5, <5>1
      <4>7. left \in Dags[m.i - 1]
        BY <2>1, <4>5, <4>6, DagsNest
      <4> DEFINE d == Call(rule, m, left, m.dag)
      <4>8. /\ d \in Calls /\ d.rule = rule
            /\ CallWeight(d) = ((Len(m.tokens) + 1 - m.i) * 6) + RuleRank(rule)
        BY <2>1, <4>4, <4>7, CallParts
      <4> HIDE DEF d
      <4>9. CallWeight(d) < CallWeight(c)
        <5>1. \A x, i, j, a \in Int :
                j > i => ((x + 1 - j) * 6) + a < ((x + 1 - i) * 6) + a
          OBVIOUS
        <5>2. RuleRank(rule) \in Int
          BY <2>1 DEF RuleRank
        <5>3. Len(m.tokens) = Len(p.tokens)
          BY <3>1, <4>4
        <5>4. ((Len(p.tokens) + 1 - m.i) * 6) + RuleRank(rule)
              < ((Len(p.tokens) + 1 - p.i) * 6) + RuleRank(rule)
          BY <4>4, <4>5, <4>6, <5>1, <5>2
        <5> QED
          BY <2>3, <4>8, <5>3, <5>4
      <4>10. d \in S
        BY <1>1, <4>8, <4>9
      <4>11. Parsed[d] = Parsed[c]
        BY <4>1 DEF d
      <4> QED
        BY <1>1, <2>1, <4>8, <4>10, <4>11 DEF S, rule
    <3> QED
      BY <3>3, <3>4, <3>5
  <2> QED
    BY <2>4, <2>5, <2>6
<1>2. \A c \in Calls : (\A d \in Calls : CallWeight(d) < CallWeight(c) => d \in S) => c \in S
  BY <1>1
<1> HIDE DEF S
<1>3. Calls \subseteq S
  BY <1>2, OverCalls
<1> QED
  BY <1>3 DEF S

\* What a loop returned is not changed by the loop that is called with it.
LEMMA LoopStops ==
    ASSUME NEW rule \in {"term_", "expr_"}, NEW p, Ready(p), NEW left \in Dags[p.i - 1],
           NEW r, Ready(r), r.i \in Int, r.i >= p.i + 1, NEW n \in Dags[r.i - 1],
           NEW m, m = Parsed[Call(rule, r, n, n)], m.dag # Null
    PROVE  Parsed[Call(rule, m, left, m.dag)] = m
<1>1. rule \in Rules
  BY DEF Rules
<1>2. /\ Ready(m) /\ m.i >= r.i /\ m.i \in Int
      /\ m.dag \in Dags[m.i - 1]
  BY <1>1, ParsedCall
<1>3. /\ p.i - 1 \in 0 .. MaxText /\ m.i - 1 \in 0 .. MaxText /\ p.i \in Int
  BY <1>2, ReadyParts
<1>4. p.i - 1 <= m.i - 1
  <2>1. \A i, j, k \in Int : j >= i + 1 /\ k >= j => i - 1 <= k - 1
    OBVIOUS
  <2> QED
    BY <1>2, <1>3, <2>1
<1>5. left \in Dags[m.i - 1]
  BY <1>3, <1>4, DagsNest
<1>6. Call(rule, r, n, n) \in Calls /\ Call(rule, r, n, n).rule = rule
  BY <1>1, CallParts
<1>7. Next_(m) \notin OperatorsOf(rule)
  BY <1>6, LoopEnds
<1>8. Parsed[Call(rule, m, left, m.dag)] = LoopStep(Parsed, rule, m, left, m.dag)
  BY <1>2, <1>5, LoopIs
<1>9. Parsed[Call(rule, m, left, m.dag)] = Returns(m, m.dag)
  BY <1>7, <1>8 DEF LoopStep
<1>10. m \in Parsers
  BY <1>2 DEF Ready
<1>11. Returns(m, m.dag) = m
  BY <1>10 DEF Parsers, Returns
<1> QED
  BY <1>9, <1>11

\* With an operator and its operand read, a loop returns what it returns after them.
LEMMA LoopGoesOn ==
    ASSUME NEW rule \in {"term_", "expr_"}, NEW p, Ready(p), Next_(p) \in OperatorsOf(rule),
           NEW left \in Dags[p.i - 1], NEW dag \in Dags[p.i - 1],
           NEW r, r = Parsed[To(OperandOf(rule), Forward(Numbered(p)))],
           NEW n, n = Node(Next_(p), p.id + 1, 0, left, r.dag)
    PROVE  /\ Full(p) \/ r.dag = Null => Parsed[Call(rule, p, left, dag)].dag = Null
           /\ ~ Full(p) /\ r.dag # Null
                => Parsed[Call(rule, p, left, dag)] = Parsed[Call(rule, r, n, n)]
<1> DEFINE q == Parsed[Call(rule, p, left, dag)]
           m == Parsed[Call(rule, r, n, n)]
<1>1. /\ Forward(Numbered(p)).id = p.id + 1 /\ Ready(r)
      /\ r.i \in 1 .. Len(p.tokens) + 1 /\ r.i \in Int /\ r.i >= p.i + 1
      /\ r.tokens = p.tokens /\ n \in Dags[r.i - 1]
  BY LoopParts
<1>2. q = LoopStep(Parsed, rule, p, left, dag)
  BY LoopIs
<1>3. q = IF Full(p) THEN Returns(p, Null)
          ELSE IF r.dag = Null THEN [r EXCEPT !.bad = @ \/ rule = "expr_"]
          ELSE IF m.dag = Null THEN m ELSE Parsed[Call(rule, m, left, m.dag)]
  BY <1>1, <1>2 DEF LoopStep
<1> HIDE DEF q, m
<1>4. CASE Full(p)
  <2>1. Returns(p, Null).dag = Null
    BY TextAssumption, NullIsDag, ReturnsParts
  <2> QED
    BY <1>3, <1>4, <2>1 DEF q
<1>5. CASE ~ Full(p) /\ r.dag = Null
  <2>1. [r EXCEPT !.bad = @ \/ rule = "expr_"].dag = r.dag
    BY <1>1 DEF Ready, Parsers
  <2> QED
    BY <1>3, <1>5, <2>1 DEF q
<1>6. CASE ~ Full(p) /\ r.dag # Null /\ m.dag = Null
  BY <1>3, <1>6 DEF q, m
<1>7. CASE ~ Full(p) /\ r.dag # Null /\ m.dag # Null
  <2>1. m = Parsed[Call(rule, r, n, n)] /\ m.dag # Null
    BY <1>7 DEF m
  <2>2. Ready(r) /\ r.i \in Int /\ r.i >= p.i + 1 /\ n \in Dags[r.i - 1]
    BY <1>1
  <2>3. Parsed[Call(rule, m, left, m.dag)] = m
    BY <2>1, <2>2, LoopStops
  <2> QED
    BY <1>3, <1>7, <2>3 DEF q, m
<1> QED
  BY <1>4, <1>5, <1>6, <1>7

\* What derives from each symbol.
LEMMA DerivesPrimary ==
    ASSUME NEW t \in Seq(Token), NEW i \in 1 .. Len(t) + 1, NEW j \in 0 .. Len(t), NEW z
    PROVE  z \in Derives(t)[<<"primary", i, j>>]
           <=> \/ i = j /\ t[i].op = "val" /\ z = <<"val", t[i].at>>
               \/ /\ i + 1 < j /\ t[i].op = "(" /\ t[j].op = ")"
                  /\ z \in Derives(t)[<<"expr", i + 1, j - 1>>]
<1> DEFINE x == <<"primary", i, j>>
           D == Derives(t)
<1>1. x \in Spans(t) /\ x[1] = "primary" /\ x[2] = i /\ x[3] = j
  BY DEF Spans, Symbols
<1>2. D[x] = DerivesStep(t, D, x)
  BY <1>1, DerivesIs
<1> HIDE DEF x, D
<1>3. D[x] = IF i = j /\ t[i].op = "val" THEN {<<"val", t[i].at>>}
             ELSE IF i + 1 < j /\ t[i].op = "(" /\ t[j].op = ")"
             THEN D[<<"expr", i + 1, j - 1>>] ELSE {}
  BY <1>1, <1>2 DEF DerivesStep
<1>4. ~(i = j /\ i + 1 < j)
  OBVIOUS
<1> QED
  BY <1>3, <1>4 DEF D, x

\* The terms of a unary expression.
LEMMA DerivesUnary ==
    ASSUME NEW t \in Seq(Token), NEW i \in 1 .. Len(t) + 1, NEW j \in 0 .. Len(t), NEW z
    PROVE  z \in Derives(t)[<<"unary", i, j>>]
           <=> \/ z \in Derives(t)[<<"primary", i, j>>]
               \/ i < j /\ t[i].op = "+" /\ z \in Derives(t)[<<"unary", i + 1, j>>]
               \/ /\ i < j /\ t[i].op = "-"
                  /\ \E y \in Derives(t)[<<"unary", i + 1, j>>] : z = <<"neg", y>>
<1> DEFINE x == <<"unary", i, j>>
           D == Derives(t)
<1>1. x \in Spans(t) /\ x[1] = "unary" /\ x[2] = i /\ x[3] = j
  BY DEF Spans, Symbols
<1>2. D[x] = DerivesStep(t, D, x)
  BY <1>1, DerivesIs
<1> HIDE DEF x, D
<1>3. D[x] = D[<<"primary", i, j>>] \cup
             (IF i < j /\ t[i].op = "+" THEN D[<<"unary", i + 1, j>>]
              ELSE IF i < j /\ t[i].op = "-"
              THEN {<<"neg", y>> : y \in D[<<"unary", i + 1, j>>]} ELSE {})
  BY <1>1, <1>2 DEF DerivesStep
<1>4. ~(t[i].op = "+" /\ t[i].op = "-")
  OBVIOUS
<1> QED
  BY <1>3, <1>4 DEF D, x

\* An operator of a chain between two spans.
Splits(rule, t, i, j, z) ==
  \E k \in i + 1 .. j - 1 :
    /\ t[k].op \in OperatorsOf(RestOf(rule))
    /\ \E l \in Derives(t)[<<rule, i, k - 1>>],
          r \in Derives(t)[<<OperandOf(rule), k + 1, j>>] : z = <<t[k].op, l, r>>

\* The terms of a product.
LEMMA DerivesTerm ==
    ASSUME NEW t \in Seq(Token), NEW i \in 1 .. Len(t) + 1, NEW j \in 0 .. Len(t), NEW z
    PROVE  z \in Derives(t)[<<"term", i, j>>]
           <=> z \in Derives(t)[<<"unary", i, j>>] \/ Splits("term", t, i, j, z)
<1> DEFINE x == <<"term", i, j>>
           D == Derives(t)
<1>1. x \in Spans(t) /\ x[1] = "term" /\ x[2] = i /\ x[3] = j
  BY DEF Spans, Symbols
<1>2. D[x] = DerivesStep(t, D, x)
  BY <1>1, DerivesIs
<1> HIDE DEF x, D
<1>3. D[x] = D[<<"unary", i, j>>] \cup BinaryIn(t, D, x, {"*", "/"}, "unary")
  BY <1>1, <1>2 DEF DerivesStep
<1> DEFINE K == {m \in i + 1 .. j - 1 : t[m].op \in {"*", "/"}}
           C(k) == Combined(t[k].op, D[<<"term", i, k - 1>>], D[<<"unary", k + 1, j>>])
<1>4. BinaryIn(t, D, x, {"*", "/"}, "unary") = UNION {C(k) : k \in K}
  BY <1>1 DEF BinaryIn
<1>5. \A k \in K : z \in C(k) <=> \E l \in D[<<"term", i, k - 1>>], r \in D[<<"unary", k + 1, j>>] :
                                     z = <<t[k].op, l, r>>
  BY DEF Combined
<1> HIDE DEF C
<1>6. z \in UNION {C(k) : k \in K} <=> \E k \in K : z \in C(k)
  OBVIOUS
<1>7. z \in D[x] <=> z \in D[<<"unary", i, j>>] \/ \E k \in K : z \in C(k)
  BY <1>3, <1>4, <1>6
<1>8. OperandOf("term") = "unary" /\ OperatorsOf(RestOf("term")) = {"*", "/"}
  BY DEF OperandOf, OperatorsOf, RestOf
<1>9. (\E k \in K : z \in C(k)) <=> Splits("term", t, i, j, z)
  BY <1>5, <1>8 DEF D, Splits
<1> QED
  BY <1>7, <1>9 DEF D, x

\* The terms of a sum.
LEMMA DerivesExpr ==
    ASSUME NEW t \in Seq(Token), NEW i \in 1 .. Len(t) + 1, NEW j \in 0 .. Len(t), NEW z
    PROVE  z \in Derives(t)[<<"expr", i, j>>]
           <=> z \in Derives(t)[<<"term", i, j>>] \/ Splits("expr", t, i, j, z)
<1> DEFINE x == <<"expr", i, j>>
           D == Derives(t)
<1>1. x \in Spans(t) /\ x[1] = "expr" /\ x[2] = i /\ x[3] = j
  BY DEF Spans, Symbols
<1>2. D[x] = DerivesStep(t, D, x)
  BY <1>1, DerivesIs
<1> HIDE DEF x, D
<1>3. D[x] = D[<<"term", i, j>>] \cup BinaryIn(t, D, x, {"+", "-"}, "term")
  BY <1>1, <1>2 DEF DerivesStep
<1> DEFINE K == {m \in i + 1 .. j - 1 : t[m].op \in {"+", "-"}}
           C(k) == Combined(t[k].op, D[<<"expr", i, k - 1>>], D[<<"term", k + 1, j>>])
<1>4. BinaryIn(t, D, x, {"+", "-"}, "term") = UNION {C(k) : k \in K}
  BY <1>1 DEF BinaryIn
<1>5. \A k \in K : z \in C(k) <=> \E l \in D[<<"expr", i, k - 1>>], r \in D[<<"term", k + 1, j>>] :
                                     z = <<t[k].op, l, r>>
  BY DEF Combined
<1> HIDE DEF C
<1>6. z \in UNION {C(k) : k \in K} <=> \E k \in K : z \in C(k)
  OBVIOUS
<1>7. z \in D[x] <=> z \in D[<<"term", i, j>>] \/ \E k \in K : z \in C(k)
  BY <1>3, <1>4, <1>6
<1>8. OperandOf("expr") = "term" /\ OperatorsOf(RestOf("expr")) = {"+", "-"}
  BY DEF OperandOf, OperatorsOf, RestOf
<1>9. (\E k \in K : z \in C(k)) <=> Splits("expr", t, i, j, z)
  BY <1>5, <1>8 DEF D, Splits
<1> QED
  BY <1>7, <1>9 DEF D, x

-----------------------------------------------------------------------------
(* What a tree is like that the parser builds.                             *)

\* A leaf has no operands, a minus has one and the others have two.  The ids of what
\* is on the left of a node are below its own, those on the right above.
Sorted(n) ==
  /\ n.op = "val" => n.left = Null /\ n.right = Null
  /\ n.op = "neg" => n.left = Null /\ n.right # Null
  /\ n.op \notin {"val", "neg"} => n.left # Null /\ n.right # Null
  /\ \A m \in Nodes[n.left] : m.id < n.id
  /\ \A m \in Nodes[n.right] : n.id < m.id

Whole(t) == \A n \in Nodes[t] : Sorted(n)

\* All ids are above a and not above b.
Within(t, a, b) == \A n \in Nodes[t] : a < n.id /\ n.id <= b

\* The numbers of a tree, and of the tokens from i to j.
Leaves(t) == {n.val : n \in {m \in Nodes[t] : m.op = "val"}}
Numbers(tokens, i, j) == {tokens[k].at : k \in {m \in i .. j : tokens[m].op = "val"}}

\* The nodes of a tree are trees.
LEMMA NodesIn ==
    ASSUME NEW t \in Dag
    PROVE  \A n \in Nodes[t] : n \in Dag /\ n # Null /\ n.id \in Nat
<1> DEFINE S == {u \in Dag : \A n \in Nodes[u] : n \in Dag /\ n # Null /\ n.id \in Nat}
<1>1. Null \in Dag
  BY TextAssumption, NullIsDag
<1>2. Null \in S
  BY <1>1, NodesAre
<1>3. ASSUME NEW u \in Dag \ {Null}, u.left \in S, u.right \in S PROVE u \in S
  <2>1. u.id \in Nat
    BY DagTop, DagParts
  <2> QED
    BY <1>3, <2>1, NodesAre
<1> HIDE DEF S
<1>4. Dag \subseteq S
  BY <1>2, <1>3, OverDags
<1> QED
  BY <1>4 DEF S

\* The empty tree has no nodes.
LEMMA NullIsWhole ==
    /\ Nodes[Null] = {} /\ Whole(Null) /\ Leaves(Null) = {} /\ \A a, b : Within(Null, a, b)
<1>1. Null \in Dag
  BY TextAssumption, NullIsDag
<1> QED
  BY <1>1, NodesAre DEF Whole, Leaves, Within

\* A node over whole trees.
LEMMA NodeIsWhole ==
    ASSUME NEW t \in Dag \ {Null}, Whole(t.left), Whole(t.right), Sorted(t)
    PROVE  /\ Whole(t)
           /\ Leaves(t) = (IF t.op = "val" THEN {t.val} ELSE {}) \cup Leaves(t.left) \cup Leaves(t.right)
           /\ \A a, b : a < t.id /\ t.id <= b /\ Within(t.left, a, b) /\ Within(t.right, a, b)
                          => Within(t, a, b)
<1>1. Nodes[t] = {t} \cup Nodes[t.left] \cup Nodes[t.right]
  BY NodesAre
<1> QED
  BY <1>1 DEF Whole, Leaves, Within

\* Bounds that are further apart.
LEMMA WithinMore ==
    ASSUME NEW t \in Dag, NEW a \in Int, NEW b \in Int, NEW c \in Int, NEW d \in Int,
           c <= a, b <= d, Within(t, a, b)
    PROVE  Within(t, c, d)
<1>1. \A n \in Nodes[t] : n.id \in Int
  BY NodesIn
<1>2. \A x \in Int : a < x /\ x <= b => c < x /\ x <= d
  OBVIOUS
<1> QED
  BY <1>1, <1>2 DEF Within

-----------------------------------------------------------------------------
(* A tree is what the grammar gives.                                       *)

\* A number derives itself.
LEMMA DerivesLeaf ==
    ASSUME NEW t \in Seq(Token), NEW i \in 1 .. Len(t), t[i].op = "val"
    PROVE  <<"val", t[i].at>> \in Derives(t)[<<"primary", i, i>>]
<1> DEFINE x == <<"primary", i, i>>
           D == Derives(t)
<1>1. x \in Spans(t) /\ x[1] = "primary" /\ x[2] = i /\ x[3] = i
  BY DEF Spans, Symbols
<1>2. D[x] = DerivesStep(t, D, x)
  BY <1>1, DerivesIs
<1> HIDE DEF x, D
<1>3. D[x] = {<<"val", t[i].at>>}
  BY <1>1, <1>2 DEF DerivesStep
<1> QED
  BY <1>3 DEF D, x

\* The numbers of two spans.
LEMMA NumbersSplit ==
    ASSUME NEW t \in Seq(Token), NEW i \in Int, NEW k \in Int, NEW j \in Int, i <= k, k <= j + 1
    PROVE  Numbers(t, i, j) = Numbers(t, i, k - 1) \cup Numbers(t, k, j)
<1>1. i .. j = (i .. k - 1) \cup (k .. j)
  OBVIOUS
<1>2. {m \in i .. j : t[m].op = "val"}
      = {m \in i .. k - 1 : t[m].op = "val"} \cup {m \in k .. j : t[m].op = "val"}
  BY <1>1
<1> QED
  BY <1>2 DEF Numbers

\* The same, with the end of the first part in view.
LEMMA NumbersJoin ==
    ASSUME NEW t \in Seq(Token), NEW i \in Int, NEW m \in Int, NEW k \in Int, NEW j \in Int,
           i <= k, k <= j + 1, m = k - 1
    PROVE  Numbers(t, i, m) \cup Numbers(t, k, j) = Numbers(t, i, j)
  BY NumbersSplit

\* The numbers of one token, and of none.
LEMMA NumbersOne ==
    ASSUME NEW t \in Seq(Token), NEW i \in Int
    PROVE  /\ Numbers(t, i, i) = IF t[i].op = "val" THEN {t[i].at} ELSE {}
           /\ Numbers(t, i, i - 1) = {}
<1>1. i .. i = {i} /\ i .. i - 1 = {}
  OBVIOUS
<1> QED
  BY <1>1 DEF Numbers

\* One more token at the start.
LEMMA NumbersFirst ==
    ASSUME NEW t \in Seq(Token), NEW i \in Int, NEW j \in Int, i <= j
    PROVE  Numbers(t, i, j) = (IF t[i].op = "val" THEN {t[i].at} ELSE {}) \cup Numbers(t, i + 1, j)
<1>1. i <= i + 1 /\ i + 1 <= j + 1 /\ (i + 1) - 1 = i /\ i + 1 \in Int
  OBVIOUS
<1>2. Numbers(t, i, j) = Numbers(t, i, (i + 1) - 1) \cup Numbers(t, i + 1, j)
  BY <1>1, NumbersSplit
<1> QED
  BY <1>1, <1>2, NumbersOne

\* What it is that a function of parser.c returns, where it returns a tree: the
\* tree of what it read, with the ids that it gave.
ReadsTo(rule, p, q) ==
  /\ ~ p.bad => ~ q.bad
  /\ Whole(q.dag)
  /\ Leaves(q.dag) = Numbers(p.tokens, p.i, q.i - 1)
  /\ Within(q.dag, p.id, q.id)
  /\ q.i > p.i
  /\ Stripped[q.dag] \in Derives(p.tokens)[<<rule, p.i, q.i - 1>>]

Base(rule) == IF rule \in {"term", "term_"} THEN "term" ELSE "expr"

\* The same of a loop, which adds to what was read before.
ReadsOn(rule, p, dag, q) ==
  /\ ~ p.bad => ~ q.bad
  /\ Whole(q.dag)
  /\ Leaves(q.dag) = Leaves(dag) \cup Numbers(p.tokens, p.i, q.i - 1)
  /\ \A a \in 0 .. p.id : Within(dag, a, p.id) => Within(q.dag, a, q.id)
  /\ \A i \in 1 .. p.i - 1 :
       Stripped[dag] \in Derives(p.tokens)[<<Base(rule), i, p.i - 1>>]
       => Stripped[q.dag] \in Derives(p.tokens)[<<Base(rule), i, q.i - 1>>]

\* A tree that expr_primary returns is the one of what it has read.
LEMMA PrimarySound ==
    ASSUME NEW p, Ready(p), NEW q, q = Parsed[To("primary", p)], q.dag # Null,
           \A f : /\ Ready(f) /\ f.tokens = p.tokens /\ f.i = p.i + 1
                  /\ Parsed[To("expr", f)].dag # Null
                  => ReadsTo("expr", f, Parsed[To("expr", f)])
    PROVE  ReadsTo("primary", p, q)
<1> DEFINE t == p.tokens
           i == p.i
<1>1. /\ t \in Seq(Token) /\ Len(t) \in 0 .. MaxText /\ i \in 1 .. Len(t) + 1 /\ i \in Int
      /\ p.id \in Nat /\ MaxText \in Nat
  BY ReadyParts, TextAssumption
<1>2. q = PrimaryStep(Parsed, p)
  BY PrimaryIs
<1>3. Null \in Dag
  BY TextAssumption, NullIsDag
<1>4. Returns(p, Null).dag = Null
  BY <1>3, ReturnsParts
<1>5. CASE Next_(p) = "val"
  <2>1. i <= Len(t) /\ t[i] \in Token /\ t[i].op = "val"
    BY <1>5, NextIs
  <2>2. t[i].at \in Nat /\ p.id + 1 \in Nat /\ "val" \in NodeOps
    BY <1>1, <2>1, SMTT(30) DEF Token, NodeOps
  <2>3. q = Value(p) /\ ~ Full(p)
    BY <1>2, <1>4, <1>5 DEF PrimaryStep, Value
  <2> DEFINE d == Node("val", p.id + 1, t[i].at, Null, Null)
             f == Forward(Numbered(p))
  <2>4. q = Returns(f, d)
    BY <2>3 DEF Value
  <2>5. Null \in Dags[0] /\ 0 \in 0 .. MaxText - 1 /\ 0 + 1 \in 0 .. MaxText
    BY <1>1, <2>1, NullIsDag
  <2>6. /\ d \in Dags[0 + 1] /\ d # Null /\ d.op = "val" /\ d.id = p.id + 1 /\ d.val = t[i].at
        /\ d.left = Null /\ d.right = Null
    BY <2>2, <2>5, NodeIn
  <2> HIDE DEF d
  <2>7. d \in Dag \ {Null}
    BY <2>5, <2>6, DagsInDag
  <2>8. Ready(f) /\ f.i = i + 1 /\ f.id = p.id + 1 /\ f.bad = p.bad
    BY <2>1, ForwardParts
  <2> HIDE DEF f
  <2>9. q.dag = d /\ q.i = i + 1 /\ q.id = p.id + 1 /\ q.bad = p.bad
    BY <2>4, <2>7, <2>8, ReturnsParts
  <2>10. Sorted(d)
    BY <2>6, NullIsWhole DEF Sorted
  <2>11. Whole(d) /\ Leaves(d) = {t[i].at}
    BY <2>6, <2>7, <2>10, NodeIsWhole, NullIsWhole
  <2>12. Within(d, p.id, q.id)
    <3>1. p.id < p.id + 1 /\ p.id + 1 <= q.id
      BY <1>1, <2>9
    <3> QED
      BY <2>6, <2>7, <2>10, <3>1, NodeIsWhole, NullIsWhole
  <2>13. q.i - 1 = i /\ q.i > i
    BY <1>1, <2>9
  <2>14. Numbers(t, i, i) = {t[i].at}
    BY <1>1, <2>1, NumbersOne
  <2>15. Stripped[d] = <<"val", t[i].at>>
    BY <2>6, <2>7, StrippedIs
  <2>16. i \in 1 .. Len(t) + 1 /\ i \in 0 .. Len(t)
    BY <1>1, <2>1
  <2>17. <<"val", t[i].at>> \in Derives(t)[<<"primary", i, i>>]
    <3>1. t \in Seq(Token) /\ i \in 1 .. Len(t) /\ t[i].op = "val"
      BY <1>1, <2>1
    <3> HIDE DEF t, i
    <3> QED
      BY <3>1, DerivesLeaf
  <2> QED
    BY <2>9, <2>11, <2>12, <2>13, <2>14, <2>15, <2>17 DEF ReadsTo
<1>6. CASE Next_(p) = "("
  <2>1. i <= Len(t) /\ t[i] \in Token /\ t[i].op = "("
    BY <1>6, NextIs
  <2> DEFINE f == Forward(p)
             e == Parsed[To("expr", f)]
  <2>2. Ready(f) /\ f.i = i + 1 /\ f.id = p.id /\ f.tokens = t /\ f.bad = p.bad
    BY <2>1, ForwardParts
  <2> HIDE DEF f
  <2>3. q = Closed(e)
    BY <1>2, <1>6 DEF PrimaryStep, f
  <2>4. "expr" \in Rules
    BY DEF Rules
  <2> HIDE DEF e
  <2>5. e = Parsed[To("expr", f)]
    BY DEF e
  <2>6. /\ Ready(e) /\ e.tokens = t /\ e.i \in 1 .. Len(t) + 1 /\ e.i \in Int /\ e.id \in Nat
    BY <2>2, <2>4, <2>5, ParsedTo
  <2>7. Returns(e, Null).dag = Null
    BY <1>3, <2>6, ReturnsParts
  <2>8. e.dag # Null /\ Next_(e) = ")" /\ q = Forward(e)
    BY <2>3, <2>7 DEF Closed
  <2>9. e.i <= Len(t) /\ t[e.i].op = ")"
    BY <2>6, <2>8, NextIs
  <2>10. q.i = e.i + 1 /\ q.id = e.id /\ q.dag = e.dag /\ q.bad = e.bad
    BY <2>6, <2>8, <2>9, ForwardParts
  <2>11. ReadsTo("expr", f, e)
    BY <2>2, <2>5, <2>8
  <2>12. /\ ~ p.bad => ~ e.bad
         /\ Whole(e.dag) /\ Leaves(e.dag) = Numbers(t, i + 1, e.i - 1)
         /\ Within(e.dag, p.id, e.id) /\ e.i > i + 1
         /\ Stripped[e.dag] \in Derives(t)[<<"expr", i + 1, e.i - 1>>]
    BY <2>2, <2>11 DEF ReadsTo
  <2> DEFINE j == e.i
  <2>13. j \in Int /\ j \in 0 .. Len(t) /\ i + 1 < j /\ q.i = j + 1
    BY <2>6, <2>9, <2>10, <2>12
  <2> HIDE DEF i, j
  <2>14. /\ q.i - 1 = j /\ q.i > i /\ i + 1 \in Int /\ j - 1 \in Int /\ i <= j
         /\ i + 1 <= j /\ j <= j + 1
    BY <1>1, <2>13
  <2>15. Numbers(t, i, j) = Numbers(t, i + 1, j)
    <3>1. t \in Seq(Token) /\ i \in Int /\ j \in Int /\ i <= j /\ t[i].op # "val"
      BY <1>1, <2>1, <2>13, <2>14 DEF i
    <3> HIDE DEF t
    <3>2. Numbers(t, i, j)
          = (IF t[i].op = "val" THEN {t[i].at} ELSE {}) \cup Numbers(t, i + 1, j)
      BY <3>1, NumbersFirst
    <3> QED
      BY <3>1, <3>2
  <2>16. Numbers(t, i + 1, j) = Numbers(t, i + 1, j - 1) \cup Numbers(t, j, j)
    <3>1. t \in Seq(Token)
      BY <1>1
    <3> HIDE DEF t
    <3> QED
      BY <2>13, <2>14, <3>1, NumbersSplit
  <2>17. Numbers(t, j, j) = {}
    BY <1>1, <2>9, <2>13, NumbersOne DEF j
  <2>18. Stripped[e.dag] \in Derives(t)[<<"primary", i, j>>]
    BY <1>1, <2>1, <2>9, <2>12, <2>13, DerivesPrimary, ZenonT(30) DEF j
  <2> QED
    BY <2>10, <2>12, <2>14, <2>15, <2>16, <2>17, <2>18 DEF ReadsTo, i, j
<1>7. CASE Next_(p) # "val" /\ Next_(p) # "("
  BY <1>2, <1>4, <1>7 DEF PrimaryStep
<1> QED
  BY <1>5, <1>6, <1>7

\* A symbol derives what the one below it derives.
LEMMA DerivesUp ==
    ASSUME NEW t \in Seq(Token), NEW i \in 1 .. Len(t) + 1, NEW j \in 0 .. Len(t), NEW z
    PROVE  /\ z \in Derives(t)[<<"primary", i, j>>] => z \in Derives(t)[<<"unary", i, j>>]
           /\ z \in Derives(t)[<<"unary", i, j>>] => z \in Derives(t)[<<"term", i, j>>]
           /\ z \in Derives(t)[<<"term", i, j>>] => z \in Derives(t)[<<"expr", i, j>>]
BY DerivesUnary, DerivesTerm, DerivesExpr

\* A sign and its operand.
LEMMA DerivesSign ==
    ASSUME NEW t \in Seq(Token), NEW i \in 1 .. Len(t) + 1, NEW j \in 0 .. Len(t), i < j, NEW z,
           z \in Derives(t)[<<"unary", i + 1, j>>]
    PROVE  /\ t[i].op = "+" => z \in Derives(t)[<<"unary", i, j>>]
           /\ t[i].op = "-" => <<"neg", z>> \in Derives(t)[<<"unary", i, j>>]
<1>1. t[i].op = "+" => z \in Derives(t)[<<"unary", i, j>>]
  BY DerivesUnary
<1> DEFINE y == <<"neg", z>>
<1>2. t[i].op = "-" => y \in Derives(t)[<<"unary", i, j>>]
  <2> HAVE t[i].op = "-"
  <2>1. \E u \in Derives(t)[<<"unary", i + 1, j>>] : y = <<"neg", u>>
    OBVIOUS
  <2> HIDE DEF y
  <2> QED
    BY <2>1, DerivesUnary
<1> QED
  BY <1>1, <1>2

\* An operator between its operands.
LEMMA DerivesBinary ==
    ASSUME NEW rule \in {"term_", "expr_"}, NEW t \in Seq(Token),
           NEW i \in 1 .. Len(t) + 1, NEW j \in 0 .. Len(t),
           NEW k \in i + 1 .. j - 1, t[k].op \in OperatorsOf(rule),
           NEW l, l \in Derives(t)[<<Base(rule), i, k - 1>>],
           NEW r, r \in Derives(t)[<<OperandOf(rule), k + 1, j>>]
    PROVE  <<t[k].op, l, r>> \in Derives(t)[<<Base(rule), i, j>>]
<1> DEFINE z == <<t[k].op, l, r>>
<1>1. CASE rule = "term_"
  <2>1. \E n \in i + 1 .. j - 1 :
          /\ t[n].op \in {"*", "/"}
          /\ \E a \in Derives(t)[<<"term", i, n - 1>>],
                b \in Derives(t)[<<"unary", n + 1, j>>] : z = <<t[n].op, a, b>>
    BY <1>1 DEF Base, OperandOf, OperatorsOf
  <2> HIDE DEF z
  <2>2. Splits("term", t, i, j, z)
    <3>1. OperandOf("term") = "unary" /\ OperatorsOf(RestOf("term")) = {"*", "/"}
      BY DEF OperandOf, OperatorsOf, RestOf
    <3> QED
      BY <2>1, <3>1 DEF Splits
  <2>3. z \in Derives(t)[<<"term", i, j>>]
    BY <2>2, DerivesTerm
  <2> QED
    BY <1>1, <2>3 DEF z, Base
<1>2. CASE rule = "expr_"
  <2>1. \E n \in i + 1 .. j - 1 :
          /\ t[n].op \in {"+", "-"}
          /\ \E a \in Derives(t)[<<"expr", i, n - 1>>],
                b \in Derives(t)[<<"term", n + 1, j>>] : z = <<t[n].op, a, b>>
    BY <1>2 DEF Base, OperandOf, OperatorsOf
  <2> HIDE DEF z
  <2>2. Splits("expr", t, i, j, z)
    <3>1. OperandOf("expr") = "term" /\ OperatorsOf(RestOf("expr")) = {"+", "-"}
      BY DEF OperandOf, OperatorsOf, RestOf
    <3> QED
      BY <2>1, <3>1 DEF Splits
  <2>3. z \in Derives(t)[<<"expr", i, j>>]
    BY <2>2, DerivesExpr
  <2> QED
    BY <1>2, <2>3 DEF z, Base
<1> QED
  BY <1>1, <1>2

\* A tree that expr_unary returns is the one of what it has read.
LEMMA UnarySound ==
    ASSUME NEW p, Ready(p), NEW q, q = Parsed[To("unary", p)], q.dag # Null,
           \A f : /\ Ready(f) /\ f.tokens = p.tokens /\ f.i = p.i + 1
                  /\ Parsed[To("unary", f)].dag # Null
                  => ReadsTo("unary", f, Parsed[To("unary", f)]),
           Parsed[To("primary", p)].dag # Null
             => ReadsTo("primary", p, Parsed[To("primary", p)])
    PROVE  ReadsTo("unary", p, q)
<1> DEFINE t == p.tokens
           i == p.i
<1>1. /\ t \in Seq(Token) /\ Len(t) \in 0 .. MaxText /\ i \in 1 .. Len(t) + 1 /\ i \in Int
      /\ p.id \in Nat /\ MaxText \in Nat
  BY ReadyParts, TextAssumption
<1>2. q = UnaryStep(Parsed, p)
  BY UnaryIs
<1>3. Null \in Dag
  BY TextAssumption, NullIsDag
<1>4. Returns(p, Null).dag = Null
  BY <1>3, ReturnsParts
<1>5. {"unary", "primary"} \subseteq Rules
  BY DEF Rules
<1>6. CASE Next_(p) = "+"
  <2>1. i <= Len(t) /\ t[i] \in Token /\ t[i].op = "+"
    BY <1>6, NextIs
  <2> DEFINE f == Forward(p)
  <2>2. Ready(f) /\ f.i = i + 1 /\ f.id = p.id /\ f.tokens = t /\ f.bad = p.bad
    BY <2>1, ForwardParts
  <2>3. q = Parsed[To("unary", f)]
    BY <1>2, <1>6 DEF UnaryStep
  <2> HIDE DEF f
  <2>4. Ready(q) /\ q.i \in 1 .. Len(t) + 1 /\ q.i \in Int
    BY <1>5, <2>2, <2>3, ParsedTo
  <2>5. ReadsTo("unary", f, q)
    BY <2>2, <2>3
  <2>6. /\ ~ p.bad => ~ q.bad
        /\ Whole(q.dag) /\ Leaves(q.dag) = Numbers(t, i + 1, q.i - 1)
        /\ Within(q.dag, p.id, q.id) /\ q.i > i + 1
        /\ Stripped[q.dag] \in Derives(t)[<<"unary", i + 1, q.i - 1>>]
    BY <2>2, <2>5 DEF ReadsTo
  <2> DEFINE j == q.i - 1
  <2>7. j \in 0 .. Len(t) /\ j \in Int /\ i < j /\ i <= j /\ q.i > i
    BY <1>1, <2>4, <2>6, SMTT(30)
  <2> HIDE DEF j
  <2>8. Numbers(t, i, j) = Numbers(t, i + 1, j)
    <3>1. t \in Seq(Token) /\ i \in Int /\ t[i].op # "val"
      BY <1>1, <2>1
    <3> HIDE DEF t, i
    <3>2. Numbers(t, i, j)
          = (IF t[i].op = "val" THEN {t[i].at} ELSE {}) \cup Numbers(t, i + 1, j)
      BY <2>7, <3>1, NumbersFirst
    <3> QED
      BY <3>1, <3>2
  <2>9. Stripped[q.dag] \in Derives(t)[<<"unary", i, j>>]
    <3> DEFINE z == Stripped[q.dag]
    <3>1. t \in Seq(Token) /\ i \in 1 .. Len(t) + 1 /\ t[i].op = "+"
          /\ z \in Derives(t)[<<"unary", i + 1, j>>]
      BY <1>1, <2>1, <2>6 DEF j
    <3> HIDE DEF t, i, z
    <3>2. z \in Derives(t)[<<"unary", i, j>>]
      BY <2>7, <3>1, DerivesSign
    <3> QED
      BY <3>2 DEF z
  <2> QED
    BY <2>6, <2>7, <2>8, <2>9 DEF ReadsTo, j
<1>7. CASE Next_(p) = "-"
  <2>1. i <= Len(t) /\ t[i] \in Token /\ t[i].op = "-"
    BY <1>7, NextIs
  <2> DEFINE f == Forward(Numbered(p))
             r == Parsed[To("unary", f)]
  <2>2. Ready(f) /\ f.i = i + 1 /\ f.id = p.id + 1 /\ f.tokens = t /\ f.bad = p.bad
    BY <2>1, ForwardParts
  <2>3. q = Negated(p, r)
    BY <1>2, <1>7 DEF UnaryStep
  <2> HIDE DEF f, r
  <2>4. r = Parsed[To("unary", f)]
    BY DEF r
  <2>5. /\ Ready(r) /\ r.tokens = f.tokens /\ r.i >= f.i /\ r.id >= f.id
        /\ r.i \in 1 .. Len(f.tokens) + 1 /\ r.i \in Int /\ r.id \in Nat
        /\ r.dag \in Dags[r.i - f.i] /\ r.i - f.i \in 0 .. MaxText
    BY <1>5, <2>2, <2>4, ParsedTo
  <2> DEFINE d == Node("neg", p.id + 1, 0, Null, r.dag)
             m == r.i - f.i
  <2>6. ~ Full(p) /\ r.dag # Null /\ q = Returns(r, d)
    BY <1>4, <2>3 DEF Negated
  <2>7. m \in 0 .. MaxText - 1 /\ m \in 0 .. MaxText /\ m + 1 \in 0 .. MaxText
    <3>1. \A a, b, l, x \in Int : a >= 1 /\ b >= a + 1 /\ b <= l + 1 /\ l <= x
             => /\ b - (a + 1) \in 0 .. x - 1 /\ b - (a + 1) \in 0 .. x
                /\ (b - (a + 1)) + 1 \in 0 .. x
      OBVIOUS
    <3>2. /\ i \in Int /\ r.i \in Int /\ Len(t) \in Int /\ MaxText \in Int
          /\ i >= 1 /\ r.i >= i + 1 /\ r.i <= Len(t) + 1 /\ Len(t) <= MaxText
      BY <1>1, <2>2, <2>5
    <3> HIDE DEF i, t
    <3> QED
      BY <2>2, <3>1, <3>2
  <2>8. Null \in Dags[m] /\ r.dag \in Dags[m] /\ "neg" \in NodeOps /\ p.id + 1 \in Nat /\ 0 \in Nat
    BY <1>1, <2>5, <2>7, NullIsDag DEF NodeOps
  <2> HIDE DEF m
  <2>9. /\ d \in Dags[m + 1] /\ d # Null /\ d.op = "neg" /\ d.id = p.id + 1
        /\ d.left = Null /\ d.right = r.dag
    BY <2>7, <2>8, NodeIn
  <2> HIDE DEF d
  <2>10. d \in Dag \ {Null} /\ r.dag \in Dag
    BY <2>7, <2>8, <2>9, DagsInDag
  <2>11. q.dag = d /\ q.i = r.i /\ q.id = r.id /\ q.bad = r.bad
    BY <2>5, <2>6, <2>10, ReturnsParts
  <2>12. ReadsTo("unary", f, r)
    BY <2>2, <2>4, <2>6
  <2>13. /\ ~ p.bad => ~ r.bad
         /\ Whole(r.dag) /\ Leaves(r.dag) = Numbers(t, i + 1, r.i - 1)
         /\ Within(r.dag, p.id + 1, r.id) /\ r.i > i + 1
         /\ Stripped[r.dag] \in Derives(t)[<<"unary", i + 1, r.i - 1>>]
    BY <2>2, <2>12 DEF ReadsTo
  <2>14. Sorted(d)
    BY <2>6, <2>9, <2>13, NullIsWhole DEF Sorted, Within
  <2>15. Whole(d) /\ Leaves(d) = Leaves(r.dag)
    <3>1. Whole(d.left) /\ Whole(d.right) /\ Leaves(d.left) = {} /\ Leaves(d.right) = Leaves(r.dag)
      BY <2>9, <2>13, NullIsWhole
    <3>2. /\ Whole(d)
          /\ Leaves(d) = (IF d.op = "val" THEN {d.val} ELSE {}) \cup Leaves(d.left) \cup Leaves(d.right)
      BY <2>10, <2>14, <3>1, NodeIsWhole
    <3>3. d.op # "val"
      BY <2>9
    <3> QED
      BY <3>1, <3>2, <3>3
  <2>16. Within(d, p.id, q.id)
    <3>1. /\ p.id \in Int /\ p.id + 1 \in Int /\ r.id \in Int /\ p.id <= p.id + 1 /\ r.id <= r.id
          /\ p.id < p.id + 1 /\ p.id + 1 <= r.id
      BY <1>1, <2>2, <2>5, SMTT(30)
    <3>2. Within(r.dag, p.id, r.id)
      BY <2>10, <2>13, <3>1, WithinMore
    <3> QED
      BY <2>9, <2>10, <2>11, <2>13, <2>14, <3>1, <3>2, NodeIsWhole, NullIsWhole
  <2> DEFINE j == q.i - 1
  <2>17. j \in 0 .. Len(t) /\ j \in Int /\ i < j /\ i <= j /\ q.i > i
    <3>1. r.i \in 1 .. Len(t) + 1
      BY <2>2, <2>5
    <3> QED
      BY <1>1, <2>11, <2>13, <3>1, SMTT(30)
  <2>18. Numbers(t, i, j) = Numbers(t, i + 1, j)
    <3>1. t \in Seq(Token) /\ i \in Int /\ t[i].op # "val" /\ j \in Int /\ i <= j
      BY <1>1, <2>1, <2>17
    <3> HIDE DEF t, i, j
    <3>2. Numbers(t, i, j)
          = (IF t[i].op = "val" THEN {t[i].at} ELSE {}) \cup Numbers(t, i + 1, j)
      BY <3>1, NumbersFirst
    <3> QED
      BY <3>1, <3>2
  <2>19. Stripped[d] \in Derives(t)[<<"unary", i, j>>]
    <3> DEFINE z == Stripped[r.dag]
    <3>1. t \in Seq(Token) /\ i \in 1 .. Len(t) + 1 /\ t[i].op = "-"
          /\ z \in Derives(t)[<<"unary", i + 1, j>>] /\ j \in 0 .. Len(t) /\ i < j
      BY <1>1, <2>1, <2>11, <2>13, <2>17
    <3>2. Stripped[d] = <<"neg", z>>
      BY <2>9, <2>10, StrippedIs
    <3> HIDE DEF t, i, z, j
    <3>3. <<"neg", z>> \in Derives(t)[<<"unary", i, j>>]
      BY <3>1, DerivesSign
    <3> QED
      BY <3>3, <3>2
  <2> QED
    BY <2>11, <2>13, <2>15, <2>16, <2>17, <2>18, <2>19 DEF ReadsTo
<1>8. CASE Next_(p) # "+" /\ Next_(p) # "-"
  <2>1. q = Parsed[To("primary", p)]
    BY <1>2, <1>8 DEF UnaryStep
  <2>2. ReadsTo("primary", p, q)
    BY <2>1
  <2>3. Ready(q) /\ q.i \in 1 .. Len(t) + 1 /\ q.i \in Int
    BY <1>5, <2>1, ParsedTo
  <2> DEFINE j == q.i - 1
             z == Stripped[q.dag]
  <2>4. j \in 0 .. Len(t) /\ t \in Seq(Token) /\ i \in 1 .. Len(t) + 1
    BY <1>1, <2>3
  <2>5. z \in Derives(t)[<<"primary", i, j>>]
    BY <2>2 DEF ReadsTo
  <2> HIDE DEF z, t, i, j
  <2>6. z \in Derives(t)[<<"unary", i, j>>]
    BY <2>4, <2>5, DerivesUp
  <2> QED
    BY <2>2, <2>6 DEF ReadsTo, z, t, i, j
<1> QED
  BY <1>6, <1>7, <1>8

\* A tree that expr_multiplicative or expr_additive returns is the one of what it has
\* read: an operand, and on from there.
LEMMA ChainSound ==
    ASSUME NEW rule \in {"term", "expr"}, NEW p, Ready(p), NEW q, q = Parsed[To(rule, p)],
           q.dag # Null,
           Parsed[To(OperandOf(rule), p)].dag # Null
             => ReadsTo(OperandOf(rule), p, Parsed[To(OperandOf(rule), p)]),
           \A f : /\ Ready(f) /\ f.tokens = p.tokens /\ f.i > p.i
                  /\ f.dag \in Dags[f.i - 1] /\ f.dag # Null
                  /\ Whole(f.dag) /\ Within(f.dag, 0, f.id)
                  /\ Parsed[Call(RestOf(rule), f, f.dag, f.dag)].dag # Null
                  => ReadsOn(RestOf(rule), f, f.dag, Parsed[Call(RestOf(rule), f, f.dag, f.dag)])
    PROVE  ReadsTo(rule, p, q)
<1> DEFINE t == p.tokens
           i == p.i
           l == Parsed[To(OperandOf(rule), p)]
           c == Call(RestOf(rule), l, l.dag, l.dag)
<1>1. /\ t \in Seq(Token) /\ Len(t) \in 0 .. MaxText /\ i \in 1 .. Len(t) + 1 /\ i \in Int
      /\ p.id \in Nat /\ MaxText \in Nat
  BY ReadyParts, TextAssumption
<1>2. /\ OperandOf(rule) \in Rules /\ RestOf(rule) \in Rules /\ Base(RestOf(rule)) = rule
      /\ RestOf(rule) \in {"term_", "expr_"}
      /\ OperandOf(rule) = IF rule = "term" THEN "unary" ELSE "term"
  BY DEF Rules, OperandOf, RestOf, Base
<1>3. q = IF l.dag = Null THEN l ELSE Parsed[c]
  BY ChainIs DEF ChainStep
<1>4. l.dag # Null /\ q = Parsed[c]
  BY <1>3
<1>5. ReadsTo(OperandOf(rule), p, l)
  BY <1>4
<1>6. /\ Ready(l) /\ l.tokens = t /\ l.i >= i /\ l.i \in 1 .. Len(t) + 1 /\ l.i \in Int
      /\ l.id >= p.id /\ l.id \in Nat /\ l.dag \in Dags[l.i - 1]
  <2>1. OperandOf(rule) \in Rules
    BY <1>2
  <2> HIDE DEF l
  <2>2. l = Parsed[To(OperandOf(rule), p)]
    BY DEF l
  <2> QED
    BY <2>1, <2>2, ParsedTo
<1> HIDE DEF l
<1>7. /\ ~ p.bad => ~ l.bad
      /\ Whole(l.dag) /\ Leaves(l.dag) = Numbers(t, i, l.i - 1)
      /\ Within(l.dag, p.id, l.id) /\ l.i > i
      /\ Stripped[l.dag] \in Derives(t)[<<OperandOf(rule), i, l.i - 1>>]
  BY <1>5 DEF ReadsTo
<1>8. l.dag \in Dag
  <2>1. l.i - 1 \in 0 .. MaxText
    BY <1>6, ReadyParts
  <2> QED
    BY <1>6, <2>1, DagsInDag
<1>9. Within(l.dag, 0, l.id)
  <2>1. 0 \in Int /\ p.id \in Int /\ l.id \in Int /\ 0 <= p.id /\ l.id <= l.id
    BY <1>1, <1>6
  <2> QED
    BY <1>7, <1>8, <2>1, WithinMore
<1>10. ReadsOn(RestOf(rule), l, l.dag, q)
  BY <1>4, <1>6, <1>7, <1>9
<1>11. /\ Ready(q) /\ q.tokens = t /\ q.i >= l.i /\ q.i \in Int /\ q.i \in 1 .. Len(t) + 1
  <2>1. RestOf(rule) \in Rules
    BY <1>2
  <2> DEFINE d == l.dag
             r == RestOf(rule)
  <2>2. q = Parsed[Call(r, l, d, d)] /\ r \in Rules /\ Ready(l) /\ d \in Dags[l.i - 1]
    BY <1>4, <1>6, <2>1
  <2> HIDE DEF d, r, c
  <2>3. /\ Ready(q) /\ q.tokens = l.tokens /\ q.i >= l.i /\ q.i \in 1 .. Len(l.tokens) + 1 /\ q.i \in Int
    BY <2>2, ParsedCall
  <2> QED
    BY <1>6, <2>3
<1>12. /\ ~ l.bad => ~ q.bad
       /\ Whole(q.dag)
       /\ Leaves(q.dag) = Leaves(l.dag) \cup Numbers(t, l.i, q.i - 1)
       /\ Within(l.dag, p.id, l.id) => Within(q.dag, p.id, q.id)
       /\ \A n \in 1 .. l.i - 1 :
            Stripped[l.dag] \in Derives(t)[<<rule, n, l.i - 1>>]
            => Stripped[q.dag] \in Derives(t)[<<rule, n, q.i - 1>>]
  <2>1. p.id \in 0 .. l.id
    BY <1>1, <1>6
  <2>2. l.tokens = t /\ Base(RestOf(rule)) = rule
    BY <1>2, <1>6
  <2> HIDE DEF t, i
  <2> QED
    BY <1>10, <2>1, <2>2 DEF ReadsOn
<1>13. Leaves(q.dag) = Numbers(t, i, q.i - 1)
  <2> DEFINE k == l.i
             m == k - 1
             j == q.i - 1
  <2>1. t \in Seq(Token) /\ i \in Int /\ k \in Int /\ m \in Int /\ j \in Int
        /\ i <= k /\ k <= j + 1 /\ m = k - 1
    BY <1>1, <1>6, <1>11
  <2>2. Leaves(q.dag) = Numbers(t, i, m) \cup Numbers(t, k, j)
    BY <1>7, <1>12
  <2> HIDE DEF t, i, k, m, j
  <2>3. Numbers(t, i, m) \cup Numbers(t, k, j) = Numbers(t, i, j)
    BY <2>1, NumbersJoin
  <2> QED
    BY <2>2, <2>3 DEF j
<1>14. Stripped[q.dag] \in Derives(t)[<<rule, i, q.i - 1>>]
  <2> DEFINE j == l.i - 1
             z == Stripped[l.dag]
  <2>1. t \in Seq(Token) /\ i \in 1 .. Len(t) + 1 /\ j \in 0 .. Len(t)
    BY <1>1, <1>6
  <2>2. z \in Derives(t)[<<OperandOf(rule), i, j>>]
    BY <1>7
  <2> HIDE DEF t, j, z
  <2>3. z \in Derives(t)[<<rule, i, j>>]
    <3>1. CASE rule = "term"
      <4>1. z \in Derives(t)[<<"unary", i, j>>]
        BY <1>2, <2>2, <3>1
      <4> HIDE DEF i
      <4>2. z \in Derives(t)[<<"term", i, j>>]
        BY <2>1, <4>1, DerivesUp
      <4> QED
        BY <3>1, <4>2
    <3>2. CASE rule = "expr"
      <4>1. z \in Derives(t)[<<"term", i, j>>]
        BY <1>2, <2>2, <3>2
      <4> HIDE DEF i
      <4>2. z \in Derives(t)[<<"expr", i, j>>]
        BY <2>1, <4>1, DerivesUp
      <4> QED
        BY <3>2, <4>2
    <3> QED
      BY <3>1, <3>2
  <2>4. i \in 1 .. l.i - 1
    BY <1>1, <1>6, <1>7
  <2> QED
    BY <1>12, <2>3, <2>4 DEF z, j
<1>15. q.i > i
  BY <1>1, <1>6, <1>7, <1>11
<1> QED
  BY <1>7, <1>12, <1>13, <1>14, <1>15 DEF ReadsTo

\* A loop that reads an operator and returns a tree.
LEMMA LoopReads ==
    ASSUME NEW rule \in {"term_", "expr_"}, NEW p, Ready(p), Next_(p) \in OperatorsOf(rule),
           NEW dag \in Dags[p.i - 1],
           NEW q, q = Parsed[Call(rule, p, dag, dag)], q.dag # Null
    PROVE  LET f == Forward(Numbered(p))
               r == Parsed[To(OperandOf(rule), f)]
               n == Node(Next_(p), p.id + 1, 0, dag, r.dag)
           IN  /\ p.i <= Len(p.tokens) /\ Next_(p) \in NodeOps
               /\ Ready(f)
               /\ Ready(r) /\ r.tokens = p.tokens
               /\ r.i >= p.i + 1 /\ r.id >= p.id + 1
               /\ r.i \in 1 .. Len(p.tokens) + 1 /\ r.i \in Int /\ r.id \in Nat
               /\ n \in Dags[r.i - 1] /\ n # Null
               /\ n.op = Next_(p) /\ n.id = p.id + 1
               /\ n.left = dag /\ n.right = r.dag
               /\ ~ Full(p) /\ r.dag # Null /\ q = Parsed[Call(rule, r, n, n)]
<1> DEFINE f == Forward(Numbered(p))
           r == Parsed[To(OperandOf(rule), f)]
           n == Node(Next_(p), p.id + 1, 0, dag, r.dag)
<1>1. r = Parsed[To(OperandOf(rule), Forward(Numbered(p)))]
  OBVIOUS
<1>2. n = Node(Next_(p), p.id + 1, 0, dag, r.dag)
  OBVIOUS
<1> HIDE DEF r, n, f
<1>3. /\ p.i <= Len(p.tokens) /\ Next_(p) \in NodeOps
      /\ Ready(Forward(Numbered(p)))
      /\ Ready(r) /\ r.tokens = p.tokens
      /\ r.i >= p.i + 1 /\ r.id >= p.id + 1
      /\ r.i \in 1 .. Len(p.tokens) + 1 /\ r.i \in Int /\ r.id \in Nat
      /\ n \in Dags[r.i - 1] /\ n # Null
      /\ n.op = Next_(p) /\ n.id = p.id + 1
      /\ n.left = dag /\ n.right = r.dag
  BY <1>1, <1>2, LoopParts, SMTT(30)
<1>4. /\ Full(p) \/ r.dag = Null => q.dag = Null
      /\ ~ Full(p) /\ r.dag # Null => q = Parsed[Call(rule, r, n, n)]
  BY <1>1, <1>2, LoopGoesOn
<1> QED
  BY <1>3, <1>4 DEF f, r, n

\* What the operands behind the operator of a loop return is right.
OperandsSound(rule, p) ==
  \A f : /\ Ready(f) /\ f.tokens = p.tokens /\ f.i = p.i + 1
         /\ Parsed[To(OperandOf(rule), f)].dag # Null
         => ReadsTo(OperandOf(rule), f, Parsed[To(OperandOf(rule), f)])

\* What a loop returns behind its first operator is right.
LoopsSound(rule, p) ==
  \A f, n : /\ Ready(f) /\ f.tokens = p.tokens /\ f.i > p.i
            /\ n \in Dags[f.i - 1] /\ n # Null
            /\ Whole(n) /\ Within(n, 0, f.id)
            /\ Parsed[Call(rule, f, n, n)].dag # Null
            => ReadsOn(rule, f, n, Parsed[Call(rule, f, n, n)])

\* A tree that a loop returns is the one of its left operand and what it has read.
LEMMA LoopSound ==
    ASSUME NEW rule \in {"term_", "expr_"}, NEW p, Ready(p),
           NEW dag \in Dags[p.i - 1], dag # Null, Whole(dag), Within(dag, 0, p.id),
           NEW q, q = Parsed[Call(rule, p, dag, dag)], q.dag # Null,
           OperandsSound(rule, p), LoopsSound(rule, p)
    PROVE  ReadsOn(rule, p, dag, q)
<1> DEFINE t == p.tokens
           i == p.i
<1>1. /\ t \in Seq(Token) /\ Len(t) \in 0 .. MaxText /\ i \in 1 .. Len(t) + 1 /\ i \in Int
      /\ p.id \in Nat /\ MaxText \in Nat /\ i - 1 \in 0 .. MaxText
  BY ReadyParts, TextAssumption
<1>2. dag \in Dag
  BY <1>1, DagsInDag
<1>3. CASE Next_(p) \notin OperatorsOf(rule)
  <2>1. q = LoopStep(Parsed, rule, p, dag, dag)
    BY LoopIs
  <2>2. q = Returns(p, dag)
    BY <1>3, <2>1 DEF LoopStep
  <2>3. q.dag = dag /\ q.i = i /\ q.id = p.id /\ q.bad = p.bad
    BY <1>2, <2>2, ReturnsParts
  <2>4. Numbers(t, i, i - 1) = {}
    BY <1>1, NumbersOne
  <2> QED
    BY <2>3, <2>4 DEF ReadsOn
<1>4. CASE Next_(p) \in OperatorsOf(rule)
  <2> DEFINE f == Forward(Numbered(p))
             r == Parsed[To(OperandOf(rule), f)]
             n == Node(Next_(p), p.id + 1, 0, dag, r.dag)
  <2>1. Parsed[Call(rule, p, dag, dag)] = q
    OBVIOUS
  <2>2. /\ p.i <= Len(p.tokens) /\ Next_(p) \in NodeOps
        /\ Ready(f)
        /\ Ready(r) /\ r.tokens = p.tokens
        /\ r.i >= p.i + 1 /\ r.id >= p.id + 1
        /\ r.i \in 1 .. Len(p.tokens) + 1 /\ r.i \in Int /\ r.id \in Nat
        /\ n \in Dags[r.i - 1] /\ n # Null
        /\ n.op = Next_(p) /\ n.id = p.id + 1
        /\ n.left = dag /\ n.right = r.dag
    BY <1>4, LoopReads
  <2>3. ~ Full(p) /\ r.dag # Null /\ q = Parsed[Call(rule, r, n, n)]
    BY <1>4, LoopReads
  <2>4. f.i = i + 1 /\ f.id = p.id + 1 /\ f.tokens = t /\ f.bad = p.bad
    BY <2>2, ForwardParts
  <2>5. ReadsTo(OperandOf(rule), f, r)
    BY <2>2, <2>3, <2>4 DEF OperandsSound
  <2> HIDE DEF f, r, n
  <2>6. /\ ~ p.bad => ~ r.bad
        /\ Whole(r.dag) /\ Leaves(r.dag) = Numbers(t, i + 1, r.i - 1)
        /\ Within(r.dag, p.id + 1, r.id) /\ r.i > i + 1
        /\ Stripped[r.dag] \in Derives(t)[<<OperandOf(rule), i + 1, r.i - 1>>]
    BY <2>4, <2>5 DEF ReadsTo
  <2>7. n \in Dag \ {Null} /\ r.dag \in Dag
    <3>1. r.i - 1 \in 0 .. MaxText /\ r.dag \in Dag
      BY <2>2, ReadyParts
    <3> QED
      BY <2>2, <3>1, DagsInDag
  <2>8. /\ OperatorsOf(rule) \cap {"val", "neg"} = {} /\ Next_(p) = t[i].op
        /\ t[i].op \in OperatorsOf(rule)
    BY <1>4, <2>2, NextIs DEF OperatorsOf
  <2>9. Sorted(n)
    <3>1. \A m \in Nodes[n.left] : m.id < n.id
      <4>1. \A m \in Nodes[dag] : m.id \in Int /\ m.id <= p.id
        BY <1>2, NodesIn DEF Within
      <4>2. \A x \in Int : x <= p.id => x < p.id + 1
        BY <1>1
      <4> QED
        BY <2>2, <4>1, <4>2
    <3>2. \A m \in Nodes[n.right] : n.id < m.id
      BY <2>2, <2>6 DEF Within
    <3>3. n.op \notin {"val", "neg"}
      BY <1>4, <2>2, <2>8
    <3> QED
      BY <2>2, <2>3, <3>1, <3>2, <3>3 DEF Sorted
  <2>10. Whole(n) /\ Leaves(n) = Leaves(dag) \cup Leaves(r.dag)
    <3>1. Whole(n.left) /\ Whole(n.right) /\ n.op # "val"
      BY <1>4, <2>2, <2>6, <2>8
    <3>2. /\ Whole(n)
          /\ Leaves(n) = (IF n.op = "val" THEN {n.val} ELSE {}) \cup Leaves(n.left) \cup Leaves(n.right)
      BY <2>7, <2>9, <3>1, NodeIsWhole
    <3> QED
      BY <2>2, <3>1, <3>2
  <2>11. ASSUME NEW a \in 0 .. p.id, Within(dag, a, p.id) PROVE Within(n, a, r.id)
    <3>1. /\ a \in Int /\ p.id \in Int /\ p.id + 1 \in Int /\ r.id \in Int
          /\ a <= p.id + 1 /\ a <= a /\ p.id <= r.id /\ r.id <= r.id /\ a < p.id + 1
          /\ p.id + 1 <= r.id
      BY <1>1, <2>2, SMTT(30)
    <3>2. Within(dag, a, r.id)
      BY <1>2, <2>11, <3>1, WithinMore
    <3>3. Within(r.dag, a, r.id)
      BY <2>6, <2>7, <3>1, WithinMore
    <3>4. Whole(n.left) /\ Whole(n.right)
      BY <2>2, <2>6
    <3>5. a < n.id /\ n.id <= r.id /\ Within(n.left, a, r.id) /\ Within(n.right, a, r.id)
      BY <2>2, <3>1, <3>2, <3>3
    <3> QED
      BY <2>7, <2>9, <3>4, <3>5, NodeIsWhole
  <2>12. 0 \in 0 .. p.id /\ Within(n, 0, r.id)
    <3>1. 0 \in 0 .. p.id
      BY <1>1
    <3> QED
      BY <2>11, <3>1
  <2>13. r.i > p.i /\ \A a \in 0 .. p.id : a \in 0 .. r.id
    BY <1>1, <2>2, SMTT(30)
  <2>14. ReadsOn(rule, r, n, q)
    BY <2>2, <2>3, <2>10, <2>12, <2>13 DEF LoopsSound
  <2>15. /\ ~ r.bad => ~ q.bad
         /\ Whole(q.dag)
         /\ Leaves(q.dag) = Leaves(n) \cup Numbers(t, r.i, q.i - 1)
         /\ \A a \in 0 .. r.id : Within(n, a, r.id) => Within(q.dag, a, q.id)
         /\ \A k \in 1 .. r.i - 1 :
              Stripped[n] \in Derives(t)[<<Base(rule), k, r.i - 1>>]
              => Stripped[q.dag] \in Derives(t)[<<Base(rule), k, q.i - 1>>]
    <3>1. r.tokens = t
      BY <2>2
    <3> HIDE DEF t
    <3> QED
      BY <2>14, <3>1 DEF ReadsOn
  <2>16. q.i >= r.i /\ q.i \in Int
    <3>1. rule \in Rules
      BY DEF Rules
    <3>2. Ready(r) /\ n \in Dags[r.i - 1] /\ q = Parsed[Call(rule, r, n, n)]
      BY <2>2, <2>3
    <3> QED
      BY <3>1, <3>2, ParsedCall
  <2>17. Leaves(q.dag) = Leaves(dag) \cup Numbers(t, i, q.i - 1)
    <3> DEFINE h == i + 1
               k == r.i
               m == k - 1
               j == q.i - 1
    <3>1. /\ t \in Seq(Token) /\ i \in Int /\ h \in Int /\ k \in Int /\ m \in Int /\ j \in Int
          /\ i <= j /\ h <= k /\ k <= j + 1 /\ m = k - 1 /\ h = i + 1
      <4>1. \A a, b, c \in Int : b >= a + 1 /\ c >= b
              => /\ a + 1 \in Int /\ b - 1 \in Int /\ c - 1 \in Int
                 /\ a <= c - 1 /\ a + 1 <= b /\ b <= (c - 1) + 1
        OBVIOUS
      <4>2. i \in Int /\ r.i \in Int /\ q.i \in Int /\ r.i >= i + 1 /\ q.i >= r.i
        BY <1>1, <2>2, <2>16
      <4>3. t \in Seq(Token)
        BY <1>1
      <4> HIDE DEF t, i
      <4> QED
        BY <4>1, <4>2, <4>3
    <3>2. t[i].op # "val"
      BY <2>8
    <3>3. Leaves(q.dag) = Leaves(dag) \cup Numbers(t, h, m) \cup Numbers(t, k, j)
      BY <2>6, <2>10, <2>15
    <3> HIDE DEF t, i, h, k, m, j
    <3>4. Numbers(t, h, m) \cup Numbers(t, k, j) = Numbers(t, h, j)
      <4>1. t \in Seq(Token) /\ h \in Int /\ k \in Int /\ m \in Int /\ j \in Int
        BY <3>1
      <4>2. h <= k /\ k <= j + 1 /\ m = k - 1
        BY <3>1
      <4> QED
        BY <4>1, <4>2, NumbersJoin
    <3>5. Numbers(t, i, j) = (IF t[i].op = "val" THEN {t[i].at} ELSE {}) \cup Numbers(t, h, j)
      <4>1. Numbers(t, i, j)
            = (IF t[i].op = "val" THEN {t[i].at} ELSE {}) \cup Numbers(t, i + 1, j)
        BY <3>1, NumbersFirst
      <4> QED
        BY <3>1, <4>1
    <3>6. Leaves(q.dag) = Leaves(dag) \cup Numbers(t, i, j)
      BY <3>2, <3>3, <3>4, <3>5
    <3> QED
      BY <3>6 DEF j
  <2>18. ASSUME NEW k \in 1 .. i - 1, Stripped[dag] \in Derives(t)[<<Base(rule), k, i - 1>>]
         PROVE  Stripped[q.dag] \in Derives(t)[<<Base(rule), k, q.i - 1>>]
    <3> DEFINE j == r.i - 1
               x == Stripped[dag]
               y == Stripped[r.dag]
    <3>1. /\ t \in Seq(Token) /\ k \in 1 .. Len(t) + 1 /\ j \in 0 .. Len(t) /\ i \in k + 1 .. j - 1
      <4>1. \A a, b, c, l \in Int : 1 <= c /\ c <= a - 1 /\ b > a + 1 /\ b <= l + 1
              => c \in 1 .. l + 1 /\ b - 1 \in 0 .. l /\ a \in c + 1 .. (b - 1) - 1
        OBVIOUS
      <4>2. /\ i \in Int /\ r.i \in Int /\ k \in Int /\ Len(t) \in Int
            /\ 1 <= k /\ k <= i - 1 /\ r.i > i + 1 /\ r.i <= Len(t) + 1
        BY <1>1, <2>2, <2>6
      <4>3. t \in Seq(Token)
        BY <1>1
      <4> HIDE DEF t, i
      <4> QED
        BY <4>1, <4>2, <4>3
    <3>2. /\ x \in Derives(t)[<<Base(rule), k, i - 1>>]
          /\ y \in Derives(t)[<<OperandOf(rule), i + 1, j>>]
      BY <2>6, <2>18
    <3>3. Stripped[n] = <<t[i].op, x, y>>
      <4>1. n.op \notin {"val", "neg"}
        BY <1>4, <2>2, <2>8
      <4>2. Stripped[n] = <<n.op, Stripped[n.left], Stripped[n.right]>>
        BY <2>7, <4>1, StrippedIs
      <4> QED
        BY <2>2, <2>8, <4>2
    <3>4. t[i].op \in OperatorsOf(rule)
      BY <2>8
    <3> HIDE DEF t, i, j, x, y
    <3>5. <<t[i].op, x, y>> \in Derives(t)[<<Base(rule), k, j>>]
      BY <3>1, <3>2, <3>4, DerivesBinary
    <3>6. k \in 1 .. r.i - 1
      BY <1>1, <2>2, <2>6, SMTT(30) DEF i
    <3> QED
      BY <2>15, <3>3, <3>5, <3>6 DEF j
  <2>19. \A a \in 0 .. p.id : Within(dag, a, p.id) => Within(q.dag, a, q.id)
    BY <2>11, <2>13, <2>15
  <2> QED
    BY <2>6, <2>15, <2>17, <2>18, <2>19 DEF ReadsOn
<1> QED
  BY <1>3, <1>4

\* A call further on, or of a rule below, is lighter.
LEMMA Lighter ==
    ASSUME NEW rule \in Rules, NEW p, Ready(p), NEW rest \in Rules, NEW f, Ready(f),
           f.tokens = p.tokens,
           f.i > p.i \/ (f = p /\ RuleRank(rest) < RuleRank(rule))
    PROVE  ((Len(f.tokens) + 1 - f.i) * 6) + RuleRank(rest)
           < ((Len(p.tokens) + 1 - p.i) * 6) + RuleRank(rule)
<1>1. \A x, i, j \in Int : \A a, b \in 0 .. 5 :
        j > i \/ (j = i /\ a < b) => ((x + 1 - j) * 6) + a < ((x + 1 - i) * 6) + b
  OBVIOUS
<1>2. RuleRank(rest) \in 0 .. 5 /\ RuleRank(rule) \in 0 .. 5
  BY DEF RuleRank
<1>3. Len(p.tokens) \in Int /\ p.i \in Int /\ f.i \in Int
  BY ReadyParts
<1>4. f.i > p.i \/ (f.i = p.i /\ RuleRank(rest) < RuleRank(rule))
  OBVIOUS
<1>5. ((Len(p.tokens) + 1 - f.i) * 6) + RuleRank(rest)
      < ((Len(p.tokens) + 1 - p.i) * 6) + RuleRank(rule)
  BY <1>1, <1>2, <1>3, <1>4
<1> QED
  BY <1>5

\* Every function of parser.c returns the tree of what it read.
SoundTo(c) ==
  c.rule \in Symbols /\ c.left = Null /\ c.dag = Null /\ Parsed[c].dag # Null
    => ReadsTo(c.rule, c.p, Parsed[c])

SoundOn(c) ==
  /\ c.rule \in {"term_", "expr_"} /\ c.left = c.dag /\ c.dag # Null
  /\ Whole(c.dag) /\ Within(c.dag, 0, c.p.id) /\ Parsed[c].dag # Null
  => ReadsOn(c.rule, c.p, c.dag, Parsed[c])

\* Soundness of a call from that of the calls with less to do.
LEMMA SoundStep ==
    ASSUME NEW c \in Calls,
           \A d \in Calls : CallWeight(d) < CallWeight(c) => SoundTo(d) /\ SoundOn(d)
    PROVE  SoundTo(c) /\ SoundOn(c)
<1> DEFINE rule == c.rule
           p == c.p
           dag == c.dag
           q == Parsed[c]
<1>1. /\ rule \in Rules /\ Ready(p) /\ c = Call(rule, p, c.left, dag)
      /\ dag \in Dags[p.i - 1]
  BY CallsAre
<1>2. CallWeight(c) = ((Len(p.tokens) + 1 - p.i) * 6) + RuleRank(rule)
  BY DEF CallWeight
<1> HIDE DEF rule, p, dag, q
<1>3. ASSUME NEW rest \in Symbols, NEW f, Ready(f), f.tokens = p.tokens,
             f.i > p.i \/ (f = p /\ RuleRank(rest) < RuleRank(rule)),
             Parsed[To(rest, f)].dag # Null
      PROVE  ReadsTo(rest, f, Parsed[To(rest, f)])
  <2>1. rest \in Rules
    BY DEF Symbols, Rules
  <2> DEFINE d == To(rest, f)
  <2>2. /\ d \in Calls /\ d.rule = rest /\ d.p = f /\ d.left = Null /\ d.dag = Null
        /\ CallWeight(d) = ((Len(f.tokens) + 1 - f.i) * 6) + RuleRank(rest)
    BY <1>3, <2>1, ToParts
  <2> HIDE DEF d
  <2>3. ((Len(f.tokens) + 1 - f.i) * 6) + RuleRank(rest)
        < ((Len(p.tokens) + 1 - p.i) * 6) + RuleRank(rule)
    BY <1>1, <1>3, <2>1, Lighter
  <2>4. CallWeight(d) < CallWeight(c)
    BY <1>2, <2>2, <2>3
  <2>5. SoundTo(d)
    BY <2>2, <2>4
  <2>6. Parsed[d].dag # Null
    BY <1>3 DEF d
  <2>7. ReadsTo(d.rule, d.p, Parsed[d])
    BY <2>2, <2>5, <2>6 DEF SoundTo
  <2> QED
    BY <2>2, <2>7 DEF d
<1>4. ASSUME NEW rest \in {"term_", "expr_"}, NEW f, Ready(f), f.tokens = p.tokens, f.i > p.i,
             NEW n \in Dags[f.i - 1], n # Null, Whole(n), Within(n, 0, f.id),
             Parsed[Call(rest, f, n, n)].dag # Null
      PROVE  ReadsOn(rest, f, n, Parsed[Call(rest, f, n, n)])
  <2>1. rest \in Rules
    BY DEF Rules
  <2> DEFINE d == Call(rest, f, n, n)
  <2>2. /\ d \in Calls /\ d.rule = rest /\ d.p = f /\ d.left = n /\ d.dag = n
        /\ CallWeight(d) = ((Len(f.tokens) + 1 - f.i) * 6) + RuleRank(rest)
    BY <1>4, <2>1, CallParts
  <2> HIDE DEF d
  <2>3. ((Len(f.tokens) + 1 - f.i) * 6) + RuleRank(rest)
        < ((Len(p.tokens) + 1 - p.i) * 6) + RuleRank(rule)
    BY <1>1, <1>4, <2>1, Lighter
  <2>4. CallWeight(d) < CallWeight(c)
    BY <1>2, <2>2, <2>3
  <2>5. SoundOn(d)
    BY <2>2, <2>4
  <2>6. Parsed[d].dag # Null
    BY <1>4 DEF d
  <2>7. ReadsOn(d.rule, d.p, d.dag, Parsed[d])
    BY <1>4, <2>2, <2>5, <2>6 DEF SoundOn
  <2> QED
    BY <2>2, <2>7 DEF d
<1>5. \A f : p.i \in Int /\ f.i = p.i + 1 => f.i > p.i
  OBVIOUS
<1>6. p.i \in Int
  BY <1>1, ReadyParts
<1>7. SoundTo(c)
  <2> SUFFICES ASSUME rule \in Symbols, c = To(rule, p), q = Parsed[To(rule, p)], q.dag # Null
               PROVE  ReadsTo(rule, p, q)
    BY <1>1 DEF SoundTo, To, rule, p, q, dag
  <2>1. CASE rule = "primary"
    <3>1. "expr" \in Symbols
      BY DEF Symbols
    <3>2. \A f : /\ Ready(f) /\ f.tokens = p.tokens /\ f.i = p.i + 1
                  /\ Parsed[To("expr", f)].dag # Null
                  => ReadsTo("expr", f, Parsed[To("expr", f)])
      BY <1>3, <1>5, <1>6, <3>1
    <3>3. q = Parsed[To("primary", p)] /\ Ready(p) /\ q.dag # Null
      BY <1>1, <2>1
    <3>4. ReadsTo("primary", p, q)
      BY <3>2, <3>3, PrimarySound
    <3> QED
      BY <2>1, <3>4
  <2>2. CASE rule = "unary"
    <3>1. "unary" \in Symbols /\ "primary" \in Symbols /\ RuleRank("primary") < RuleRank("unary")
      BY DEF Symbols, RuleRank
    <3>2. \A f : /\ Ready(f) /\ f.tokens = p.tokens /\ f.i = p.i + 1
                  /\ Parsed[To("unary", f)].dag # Null
                  => ReadsTo("unary", f, Parsed[To("unary", f)])
      BY <1>3, <1>5, <1>6, <3>1
    <3>3. Parsed[To("primary", p)].dag # Null
             => ReadsTo("primary", p, Parsed[To("primary", p)])
      BY <1>1, <1>3, <2>2, <3>1
    <3>4. q = Parsed[To("unary", p)] /\ Ready(p) /\ q.dag # Null
      BY <1>1, <2>2
    <3>5. ReadsTo("unary", p, q)
      BY <3>2, <3>3, <3>4, UnarySound
    <3> QED
      BY <2>2, <3>5
  <2>3. CASE rule \in {"term", "expr"}
    <3>1. /\ OperandOf(rule) \in Symbols /\ RestOf(rule) \in {"term_", "expr_"}
          /\ RuleRank(OperandOf(rule)) < RuleRank(rule)
      BY <2>3 DEF Symbols, RuleRank, OperandOf, RestOf
    <3>2. Parsed[To(OperandOf(rule), p)].dag # Null
             => ReadsTo(OperandOf(rule), p, Parsed[To(OperandOf(rule), p)])
      BY <1>1, <1>3, <3>1
    <3>3. \A f : /\ Ready(f) /\ f.tokens = p.tokens /\ f.i > p.i
                  /\ f.dag \in Dags[f.i - 1] /\ f.dag # Null
                  /\ Whole(f.dag) /\ Within(f.dag, 0, f.id)
                  /\ Parsed[Call(RestOf(rule), f, f.dag, f.dag)].dag # Null
                  => ReadsOn(RestOf(rule), f, f.dag, Parsed[Call(RestOf(rule), f, f.dag, f.dag)])
      BY <1>4, <3>1
    <3> QED
      BY <1>1, <2>3, <3>2, <3>3, ChainSound
  <2> QED
    BY <2>1, <2>2, <2>3 DEF Symbols
<1>8. SoundOn(c)
  <2> SUFFICES ASSUME rule \in {"term_", "expr_"}, dag # Null, Whole(dag), Within(dag, 0, p.id),
                      q = Parsed[Call(rule, p, dag, dag)], q.dag # Null
               PROVE  ReadsOn(rule, p, dag, q)
    BY <1>1 DEF SoundOn, rule, p, q, dag
  <2>1. OperandOf(rule) \in Symbols
    BY DEF Symbols, OperandOf
  <2>2. OperandsSound(rule, p)
    BY <1>3, <1>5, <1>6, <2>1 DEF OperandsSound
  <2>3. LoopsSound(rule, p)
    BY <1>4 DEF LoopsSound
  <2> QED
    BY <1>1, <2>2, <2>3, LoopSound
<1> QED
  BY <1>7, <1>8

\* A tree that a function returns is one that the grammar gives for what it has read.
LEMMA Sound ==
    ASSUME NEW rule \in Symbols, NEW p, Ready(p), NEW q, q = Parsed[To(rule, p)], q.dag # Null
    PROVE  ReadsTo(rule, p, q)
<1> DEFINE S == {c \in Calls : SoundTo(c) /\ SoundOn(c)}
<1>1. \A c \in Calls : (\A d \in Calls : CallWeight(d) < CallWeight(c) => d \in S) => c \in S
  <2> SUFFICES ASSUME NEW c \in Calls,
                      \A d \in Calls : CallWeight(d) < CallWeight(c) => SoundTo(d) /\ SoundOn(d)
               PROVE  SoundTo(c) /\ SoundOn(c)
    OBVIOUS
  <2> QED
    BY SoundStep
<1> HIDE DEF S
<1>2. Calls \subseteq S
  BY <1>1, OverCalls
<1>3. rule \in Rules
  BY DEF Symbols, Rules
<1> DEFINE c == To(rule, p)
<1>4. c \in Calls /\ c.rule = rule /\ c.p = p /\ c.left = Null /\ c.dag = Null
  BY <1>3, ToParts
<1> HIDE DEF c
<1>5. SoundTo(c)
  BY <1>2, <1>4 DEF S
<1>6. q = Parsed[c]
  BY DEF c
<1> QED
  BY <1>4, <1>5, <1>6 DEF SoundTo

-----------------------------------------------------------------------------
(* What the grammar gives is found.                                        *)

\* Induction over the spans of tokens.
LEMMA OverSpans ==
    ASSUME NEW t \in Seq(Token), NEW S,
           \A x \in Spans(t) :
             (\A y \in Spans(t) : SpanWeight(y) < SpanWeight(x) => y \in S) => x \in S
    PROVE  Spans(t) \subseteq S
<1> DEFINE N == {n \in Nat : \A x \in Spans(t) : SpanWeight(x) < n => x \in S}
           top == (Len(t) * 4) + 4
<1>1. Len(t) \in Nat /\ top \in Nat
  OBVIOUS
<1>2. \A x \in Spans(t) : SpanWeight(x) \in 0 .. (Len(t) * 4) + 3
  BY SpanParts
<1>3. 0 \in N
  BY <1>2
<1>4. \A n \in 0 .. top - 1 : n \in N => n + 1 \in N
  <2> SUFFICES ASSUME NEW n \in 0 .. top - 1, n \in N, NEW x \in Spans(t), SpanWeight(x) < n + 1
               PROVE  x \in S
    OBVIOUS
  <2>1. \A y \in Spans(t) : SpanWeight(y) < SpanWeight(x) => SpanWeight(y) < n
    BY <1>1, <1>2
  <2>2. \A y \in Spans(t) : SpanWeight(y) < SpanWeight(x) => y \in S
    BY <2>1
  <2> QED
    BY <2>2
<1>5. top \in N
  <2> HIDE DEF N
  <2>1. 0 .. top \subseteq N
    BY <1>1, <1>3, <1>4, Upwards
  <2> QED
    BY <1>1, <2>1
<1> QED
  BY <1>1, <1>2, <1>5

\* There is memory for a node for each token.
Roomy(p) == Ready(p) /\ p.id <= p.i - 1 /\ Len(p.tokens) <= p.room

\* A call reads the tokens up to j, and returns a tree that is z.
Gets(rule, p, j, z) ==
  LET q == Parsed[To(rule, p)] IN q.dag # Null /\ Stripped[q.dag] = z /\ q.i = j + 1

\* It goes on from j with the tree that is z.
GoesOn(rule, p, j, z) ==
  \E q : \E d \in Dags[q.i - 1] :
    /\ Roomy(q) /\ q.tokens = p.tokens /\ q.i = j + 1
    /\ d # Null /\ Stripped[d] = z
    /\ Parsed[To(rule, p)] = Parsed[Call(RestOf(rule), q, d, d)]

\* Where there is room for the tokens that are left, a node is never refused.
LEMMA RoomyParts ==
    ASSUME NEW p, Roomy(p)
    PROVE  /\ Ready(p)
           /\ p.i <= Len(p.tokens) =>
                /\ ~ Full(p) /\ Roomy(Forward(p)) /\ Roomy(Forward(Numbered(p)))
                /\ Forward(p).i = p.i + 1 /\ Forward(p).tokens = p.tokens
                /\ Forward(Numbered(p)).i = p.i + 1 /\ Forward(Numbered(p)).tokens = p.tokens
           /\ \A d \in Dag : Roomy(Returns(p, d))
<1>1. Ready(p) /\ p.id <= p.i - 1 /\ Len(p.tokens) <= p.room
  BY DEF Roomy
<1>2. p.i \in Int /\ p.id \in Nat /\ p.room \in Nat /\ Len(p.tokens) \in Int
  BY <1>1, ReadyParts
<1>3. p.i <= Len(p.tokens) => ~ Full(p)
  <2>1. \A i, n, l, r \in Int : n <= i - 1 /\ l <= r /\ i <= l => n # r
    OBVIOUS
  <2> QED
    BY <1>1, <1>2, <2>1 DEF Full
<1>4. ASSUME p.i <= Len(p.tokens)
      PROVE  /\ Roomy(Forward(p)) /\ Roomy(Forward(Numbered(p)))
             /\ Forward(p).i = p.i + 1 /\ Forward(p).tokens = p.tokens
             /\ Forward(Numbered(p)).i = p.i + 1 /\ Forward(Numbered(p)).tokens = p.tokens
  <2> DEFINE f == Forward(p)
             g == Forward(Numbered(p))
  <2>1. /\ Ready(f) /\ f.i = p.i + 1 /\ f.id = p.id /\ f.tokens = p.tokens /\ f.room = p.room
        /\ Ready(g) /\ g.i = p.i + 1 /\ g.id = p.id + 1 /\ g.tokens = p.tokens /\ g.room = p.room
    BY <1>1, <1>4, ForwardParts
  <2> HIDE DEF f, g
  <2>2. p.id <= (p.i + 1) - 1 /\ p.id + 1 <= (p.i + 1) - 1
    <3>1. \A i, n \in Int : n <= i - 1 => n <= (i + 1) - 1 /\ n + 1 <= (i + 1) - 1
      OBVIOUS
    <3> QED
      BY <1>1, <1>2, <3>1
  <2>3. Roomy(f) /\ Roomy(g)
    BY <1>1, <2>1, <2>2 DEF Roomy
  <2> QED
    BY <2>1, <2>3 DEF f, g
<1>5. \A d \in Dag : Roomy(Returns(p, d))
  BY <1>1, ReturnsParts DEF Roomy
<1> QED
  BY <1>1, <1>3, <1>4, <1>5

\* What a call returns has room as well.
LEMMA RoomyTo ==
    ASSUME NEW rule \in Rules, NEW p, Roomy(p), NEW q, q = Parsed[To(rule, p)]
    PROVE  Roomy(q) /\ q.tokens = p.tokens /\ q.i \in Int /\ q.dag \in Dags[q.i - 1] /\ q.dag \in Dag
<1>1. Ready(p) /\ p.id <= p.i - 1 /\ Len(p.tokens) <= p.room
  BY DEF Roomy
<1>2. /\ Ready(q) /\ q.tokens = p.tokens /\ q.room = p.room
      /\ q.id - p.id <= q.i - p.i /\ q.i \in Int /\ q.id \in Nat
      /\ q.dag \in Dags[q.i - 1]
  BY <1>1, ParsedTo
<1>3. p.i \in Int /\ p.id \in Nat
  BY <1>1, ReadyParts
<1>4. q.id <= q.i - 1
  <2>1. \A i, j, n, m \in Int : n <= i - 1 /\ m - n <= j - i => m <= j - 1
    OBVIOUS
  <2> QED
    BY <1>1, <1>2, <1>3, <2>1
<1>5. q.dag \in Dag
  BY <1>2, ReadyParts
<1> QED
  BY <1>1, <1>2, <1>4, <1>5 DEF Roomy

\* What is read where a token is.
LEMMA NextAt ==
    ASSUME NEW p, Ready(p), NEW k \in 1 .. Len(p.tokens), p.i = k
    PROVE  Next_(p) = p.tokens[k].op /\ p.i <= Len(p.tokens)
BY DEF Next_

\* expr_primary finds what the grammar gives, if expr does between parentheses.
LEMMA PrimaryComplete ==
    ASSUME NEW p, Roomy(p), NEW j \in 0 .. Len(p.tokens), NEW z,
           z \in Derives(p.tokens)[<<"primary", p.i, j>>],
           \A f, y : /\ Roomy(f) /\ f.tokens = p.tokens /\ f.i = p.i + 1
                     /\ p.i + 1 < j /\ p.tokens[j].op = ")"
                     /\ y \in Derives(p.tokens)[<<"expr", p.i + 1, j - 1>>]
                     => Gets("expr", f, j - 1, y)
    PROVE  Gets("primary", p, j, z) /\ p.i <= j /\ p.tokens[p.i].op \in {"val", "("}
<1> DEFINE t == p.tokens
           i == p.i
           q == Parsed[To("primary", p)]
<1>1. /\ Ready(p) /\ t \in Seq(Token) /\ Len(t) \in 0 .. MaxText /\ i \in 1 .. Len(t) + 1
      /\ i \in Int /\ p.id \in Nat /\ MaxText \in Nat
  BY ReadyParts, TextAssumption DEF Roomy
<1>2. q = PrimaryStep(Parsed, p)
  BY <1>1, PrimaryIs
<1> HIDE DEF q
<1>3. \/ i = j /\ t[i].op = "val" /\ z = <<"val", t[i].at>>
      \/ /\ i + 1 < j /\ t[i].op = "(" /\ t[j].op = ")"
         /\ z \in Derives(t)[<<"expr", i + 1, j - 1>>]
  <2>1. t \in Seq(Token) /\ i \in 1 .. Len(t) + 1 /\ j \in 0 .. Len(t)
        /\ z \in Derives(t)[<<"primary", i, j>>]
    BY <1>1
  <2> HIDE DEF t, i
  <2> QED
    BY <2>1, DerivesPrimary
<1>4. i \in 1 .. Len(t)
  BY <1>1, <1>3
<1>5. Next_(p) = t[i].op /\ i <= Len(t) /\ ~ Full(p)
  BY <1>1, <1>4, NextAt, RoomyParts
<1>6. CASE i = j /\ t[i].op = "val" /\ z = <<"val", t[i].at>>
  <2> DEFINE d == Node("val", p.id + 1, t[i].at, Null, Null)
             f == Forward(Numbered(p))
  <2>1. q = Returns(f, d)
    BY <1>2, <1>5, <1>6 DEF PrimaryStep, Value
  <2>2. t[i].at \in Nat /\ p.id + 1 \in Nat /\ "val" \in NodeOps
    <3>1. t[i] \in Token
      BY <1>1, <1>5, NextIs
    <3>2. t[i].at \in 1 .. MaxText
      BY <3>1 DEF Token
    <3>3. \A k \in 1 .. MaxText : k \in Nat
      BY <1>1
    <3>4. p.id + 1 \in Nat
      BY <1>1
    <3> HIDE DEF t, i
    <3> QED
      BY <3>2, <3>3, <3>4 DEF NodeOps
  <2>3. Null \in Dags[0] /\ 0 \in 0 .. MaxText - 1 /\ 0 + 1 \in 0 .. MaxText
    BY <1>1, <1>4, NullIsDag
  <2>4. d \in Dags[0 + 1] /\ d # Null /\ d.op = "val" /\ d.val = t[i].at
    BY <2>2, <2>3, NodeIn, SMTT(30)
  <2> HIDE DEF d
  <2>5. d \in Dag
    BY <2>3, <2>4, DagsInDag
  <2>6. Ready(f) /\ f.i = i + 1
    BY <1>1, <1>5, ForwardParts
  <2> HIDE DEF f
  <2>7. q.dag = d /\ q.i = i + 1
    BY <2>1, <2>5, <2>6, ReturnsParts
  <2>8. Stripped[d] = z
    BY <1>6, <2>4, <2>5, StrippedIs
  <2> QED
    BY <1>1, <1>6, <2>4, <2>7, <2>8 DEF Gets, q
<1>7. CASE /\ i + 1 < j /\ t[i].op = "(" /\ t[j].op = ")"
           /\ z \in Derives(t)[<<"expr", i + 1, j - 1>>]
  <2> DEFINE f == Forward(p)
             e == Parsed[To("expr", f)]
  <2>1. q = Closed(e)
    BY <1>2, <1>5, <1>7 DEF PrimaryStep
  <2>2. Roomy(f) /\ f.tokens = t /\ f.i = i + 1
    BY <1>5, RoomyParts
  <2> HIDE DEF f
  <2>3. Gets("expr", f, j - 1, z)
    BY <1>7, <2>2
  <2>4. e.dag # Null /\ Stripped[e.dag] = z /\ e.i = (j - 1) + 1
    BY <2>3 DEF Gets
  <2> HIDE DEF e
  <2>5. Roomy(e) /\ e.tokens = t
    <3>1. "expr" \in Rules
      BY DEF Rules
    <3> QED
      BY <2>2, <3>1, RoomyTo DEF e
  <2>6. e.i = j /\ j \in 1 .. Len(t)
    BY <1>1, <1>7, <2>4
  <2>7. Next_(e) = ")" /\ e.i <= Len(t) /\ Ready(e)
    BY <1>7, <2>5, <2>6, NextAt, RoomyParts
  <2>8. q = Forward(e)
    BY <2>1, <2>4, <2>7 DEF Closed
  <2>9. q.i = j + 1 /\ q.dag = e.dag
    BY <2>5, <2>6, <2>7, <2>8, ForwardParts
  <2>10. i <= j
    BY <1>1, <1>7
  <2> QED
    BY <1>7, <2>4, <2>9, <2>10 DEF Gets, q
<1> QED
  BY <1>3, <1>6, <1>7

\* expr_unary finds what the grammar gives, behind a sign or without.
LEMMA UnaryComplete ==
    ASSUME NEW p, Roomy(p), NEW j \in 0 .. Len(p.tokens), NEW z,
           z \in Derives(p.tokens)[<<"unary", p.i, j>>],
           z \in Derives(p.tokens)[<<"primary", p.i, j>>]
             => Gets("primary", p, j, z) /\ p.i <= j /\ p.tokens[p.i].op \in {"val", "("},
           \A f, y : /\ Roomy(f) /\ f.tokens = p.tokens /\ f.i = p.i + 1 /\ p.i < j
                     /\ y \in Derives(p.tokens)[<<"unary", p.i + 1, j>>]
                     => Gets("unary", f, j, y)
    PROVE  Gets("unary", p, j, z)
<1> DEFINE t == p.tokens
           i == p.i
           q == Parsed[To("unary", p)]
<1>1. /\ Ready(p) /\ t \in Seq(Token) /\ Len(t) \in 0 .. MaxText /\ i \in 1 .. Len(t) + 1
      /\ i \in Int /\ p.id \in Nat /\ MaxText \in Nat
  BY ReadyParts, TextAssumption DEF Roomy
<1>2. q = UnaryStep(Parsed, p)
  BY <1>1, UnaryIs
<1> HIDE DEF q
<1>3. \/ z \in Derives(t)[<<"primary", i, j>>]
      \/ i < j /\ t[i].op = "+" /\ z \in Derives(t)[<<"unary", i + 1, j>>]
      \/ /\ i < j /\ t[i].op = "-"
         /\ \E y \in Derives(t)[<<"unary", i + 1, j>>] : z = <<"neg", y>>
  <2>1. t \in Seq(Token) /\ i \in 1 .. Len(t) + 1 /\ j \in 0 .. Len(t)
        /\ z \in Derives(t)[<<"unary", i, j>>]
    BY <1>1
  <2> HIDE DEF t, i
  <2> QED
    BY <2>1, DerivesUnary, SMTT(30)
<1>4. i \in 1 .. Len(t)
  BY <1>1, <1>3
<1>5. Next_(p) = t[i].op /\ i <= Len(t) /\ ~ Full(p)
  BY <1>1, <1>4, NextAt, RoomyParts
<1>6. CASE z \in Derives(t)[<<"primary", i, j>>]
  <2>1. Gets("primary", p, j, z) /\ t[i].op \in {"val", "("}
    BY <1>6
  <2>2. q = Parsed[To("primary", p)]
    BY <1>2, <1>5, <2>1 DEF UnaryStep
  <2> QED
    BY <2>1, <2>2 DEF Gets, q
<1>7. CASE i < j /\ t[i].op = "+" /\ z \in Derives(t)[<<"unary", i + 1, j>>]
  <2> DEFINE f == Forward(p)
  <2>1. Roomy(f) /\ f.tokens = t /\ f.i = i + 1
    BY <1>5, RoomyParts
  <2>2. q = Parsed[To("unary", f)]
    BY <1>2, <1>5, <1>7 DEF UnaryStep
  <2> HIDE DEF f
  <2>3. Gets("unary", f, j, z)
    BY <1>7, <2>1
  <2> QED
    BY <2>2, <2>3 DEF Gets, q
<1>8. CASE /\ i < j /\ t[i].op = "-"
           /\ \E y \in Derives(t)[<<"unary", i + 1, j>>] : z = <<"neg", y>>
  <2> DEFINE f == Forward(Numbered(p))
             r == Parsed[To("unary", f)]
             d == Node("neg", p.id + 1, 0, Null, r.dag)
  <2>1. PICK y \in Derives(t)[<<"unary", i + 1, j>>] : z = <<"neg", y>>
    BY <1>8
  <2>2. Roomy(f) /\ f.tokens = t /\ f.i = i + 1
    BY <1>5, RoomyParts
  <2>3. q = Negated(p, r)
    BY <1>2, <1>5, <1>8 DEF UnaryStep
  <2> HIDE DEF f
  <2>4. Gets("unary", f, j, y)
    BY <1>8, <2>1, <2>2
  <2>5. r.dag # Null /\ Stripped[r.dag] = y /\ r.i = j + 1
    BY <2>4 DEF Gets
  <2>6. q = Returns(r, d)
    BY <1>5, <2>3, <2>5 DEF Negated
  <2> HIDE DEF r
  <2>7. /\ Ready(r) /\ r.tokens = f.tokens /\ r.dag \in Dags[r.i - f.i]
        /\ r.i - f.i \in 0 .. MaxText
    <3>1. "unary" \in Rules /\ Ready(f)
      BY <2>2, RoomyParts DEF Rules
    <3>2. r = Parsed[To("unary", f)]
      BY DEF r
    <3> QED
      BY <3>1, <3>2, ParsedTo
  <2> DEFINE m == j - i
  <2>8. r.i - f.i = m /\ m \in 0 .. MaxText - 1 /\ m \in 0 .. MaxText /\ m + 1 \in 0 .. MaxText
    BY <1>1, <1>4, <2>2, <2>5, <2>7, SMTT(30)
  <2>9. Null \in Dags[m] /\ r.dag \in Dags[m] /\ "neg" \in NodeOps /\ p.id + 1 \in Nat /\ 0 \in Nat
    BY <1>1, <2>7, <2>8, NullIsDag, SMTT(30) DEF NodeOps
  <2> HIDE DEF m
  <2>10. d \in Dags[m + 1] /\ d # Null /\ d.op = "neg" /\ d.right = r.dag
    BY <2>8, <2>9, NodeIn, SMTT(30)
  <2> HIDE DEF d
  <2>11. d \in Dag
    BY <2>8, <2>10, DagsInDag
  <2>12. q.dag = d /\ q.i = j + 1
    BY <2>5, <2>6, <2>7, <2>11, ReturnsParts
  <2>13. Stripped[d] = <<"neg", y>>
    BY <2>5, <2>10, <2>11, StrippedIs
  <2> QED
    BY <2>1, <2>10, <2>12, <2>13 DEF Gets, q
<1> QED
  BY <1>3, <1>6, <1>7, <1>8

\* The tree of the first operand of a chain.
LEMMA ChainFirst ==
    ASSUME NEW rule \in {"term", "expr"}, NEW p, Roomy(p), NEW j, NEW z,
           Gets(OperandOf(rule), p, j, z)
    PROVE  GoesOn(rule, p, j, z)
<1> DEFINE l == Parsed[To(OperandOf(rule), p)]
<1>1. Ready(p) /\ OperandOf(rule) \in Rules
  BY RoomyParts DEF OperandOf, Rules
<1>2. l.dag # Null /\ Stripped[l.dag] = z /\ l.i = j + 1
  BY DEF Gets
<1>3. Parsed[To(rule, p)] = ChainStep(Parsed, rule, p)
  BY <1>1, ChainIs
<1>4. Parsed[To(rule, p)] = Parsed[Call(RestOf(rule), l, l.dag, l.dag)]
  BY <1>2, <1>3 DEF ChainStep
<1>5. l = Parsed[To(OperandOf(rule), p)]
  OBVIOUS
<1> HIDE DEF l
<1>6. Roomy(l) /\ l.tokens = p.tokens /\ l.dag \in Dags[l.i - 1]
  BY <1>1, <1>5, RoomyTo
<1> QED
  BY <1>2, <1>4, <1>6 DEF GoesOn

\* A loop with room for the node of an operator goes on with that.
LEMMA LoopGoes ==
    ASSUME NEW rule \in {"term_", "expr_"}, NEW p, Ready(p), Next_(p) \in OperatorsOf(rule),
           NEW dag \in Dags[p.i - 1], ~ Full(p),
           NEW r, r = Parsed[To(OperandOf(rule), Forward(Numbered(p)))], r.dag # Null
    PROVE  \E n \in Dags[r.i - 1] :
             /\ n # Null /\ n.op = Next_(p) /\ n.left = dag /\ n.right = r.dag
             /\ Parsed[Call(rule, p, dag, dag)] = Parsed[Call(rule, r, n, n)]
<1> DEFINE n == Node(Next_(p), p.id + 1, 0, dag, r.dag)
<1>1. n = Node(Next_(p), p.id + 1, 0, dag, r.dag)
  OBVIOUS
<1> HIDE DEF n
<1>2. n \in Dags[r.i - 1] /\ n # Null /\ n.op = Next_(p) /\ n.left = dag /\ n.right = r.dag
  BY <1>1, LoopParts, SMTT(30)
<1>3. Parsed[Call(rule, p, dag, dag)] = Parsed[Call(rule, r, n, n)]
  BY <1>1, LoopGoesOn
<1> QED
  BY <1>2, <1>3

\* The tree of what was read, an operator and its operand.
LEMMA ChainMore ==
    ASSUME NEW rule \in {"term", "expr"}, NEW p, NEW j, NEW l, NEW r,
           NEW k \in 1 .. Len(p.tokens), p.tokens[k].op \in OperatorsOf(RestOf(rule)),
           GoesOn(rule, p, k - 1, l),
           \A f : Roomy(f) /\ f.tokens = p.tokens /\ f.i = k + 1 => Gets(OperandOf(rule), f, j, r)
    PROVE  GoesOn(rule, p, j, <<p.tokens[k].op, l, r>>)
<1> DEFINE t == p.tokens
           rest == RestOf(rule)
<1>1. rest \in {"term_", "expr_"} /\ OperandOf(rest) = OperandOf(rule) /\ OperandOf(rest) \in Rules
  BY DEF RestOf, OperandOf, Rules
<1>2. PICK q : \E d \in Dags[q.i - 1] :
        /\ Roomy(q) /\ q.tokens = t /\ q.i = (k - 1) + 1
        /\ d # Null /\ Stripped[d] = l
        /\ Parsed[To(rule, p)] = Parsed[Call(rest, q, d, d)]
  BY DEF GoesOn
<1>3. PICK d \in Dags[q.i - 1] :
        /\ Roomy(q) /\ q.tokens = t /\ q.i = (k - 1) + 1
        /\ d # Null /\ Stripped[d] = l
        /\ Parsed[To(rule, p)] = Parsed[Call(rest, q, d, d)]
  BY <1>2
<1>4. Ready(q) /\ q.i = k /\ Next_(q) = t[k].op /\ q.i <= Len(q.tokens) /\ ~ Full(q)
  <2>1. q.i = k
    BY <1>3
  <2> QED
    BY <1>3, <2>1, NextAt, RoomyParts
<1> DEFINE f == Forward(Numbered(q))
           m == Parsed[To(OperandOf(rest), f)]
<1>5. Roomy(f) /\ f.tokens = t /\ f.i = k + 1
  BY <1>3, <1>4, RoomyParts
<1>6. Gets(OperandOf(rest), f, j, r)
  BY <1>1, <1>5
<1>7. m.dag # Null /\ Stripped[m.dag] = r /\ m.i = j + 1
  BY <1>6 DEF Gets
<1>8. Next_(q) \in OperatorsOf(rest)
  BY <1>4
<1> HIDE DEF rest, m
<1>9. Roomy(m) /\ m.tokens = t /\ m.dag \in Dag
  <2>1. m = Parsed[To(OperandOf(rest), f)]
    BY DEF m
  <2> HIDE DEF f
  <2> QED
    BY <1>1, <1>5, <2>1, RoomyTo
<1>10. PICK n \in Dags[m.i - 1] :
         /\ n # Null /\ n.op = Next_(q) /\ n.left = d /\ n.right = m.dag
         /\ Parsed[Call(rest, q, d, d)] = Parsed[Call(rest, m, n, n)]
  <2>1. /\ rest \in {"term_", "expr_"} /\ Ready(q) /\ Next_(q) \in OperatorsOf(rest)
        /\ d \in Dags[q.i - 1] /\ ~ Full(q) /\ m.dag # Null
        /\ m = Parsed[To(OperandOf(rest), Forward(Numbered(q)))]
    BY <1>1, <1>4, <1>7, <1>8 DEF m
  <2> HIDE DEF f, t
  <2> QED
    BY <2>1, LoopGoes, SMTT(30)
<1>11. Parsed[Call(rest, q, d, d)] = Parsed[Call(rest, m, n, n)]
  BY <1>10
<1>12. Stripped[n] = <<t[k].op, l, r>>
  <2>1. n \in Dag
    <3>1. m.i - 1 \in 0 .. MaxText
      BY <1>9, RoomyParts, ReadyParts
    <3> QED
      BY <1>10, <3>1, DagsInDag
  <2>2. n.op \notin {"val", "neg"}
    BY <1>1, <1>8, <1>10 DEF OperatorsOf
  <2>3. Stripped[n] = <<n.op, Stripped[n.left], Stripped[n.right]>>
    BY <1>10, <2>1, <2>2, StrippedIs
  <2> QED
    BY <1>3, <1>4, <1>7, <1>10, <2>3
<1>13. Parsed[To(rule, p)] = Parsed[Call(rest, m, n, n)]
  BY <1>3, <1>11
<1> HIDE DEF f
<1> QED
  BY <1>7, <1>9, <1>10, <1>12, <1>13 DEF GoesOn, rest

\* Where no operator of it follows, a chain ends.
LEMMA GoesGets ==
    ASSUME NEW rule \in {"term", "expr"}, NEW p, NEW j \in 0 .. Len(p.tokens), NEW z,
           GoesOn(rule, p, j, z),
           j = Len(p.tokens) \/ p.tokens[j + 1].op \notin OperatorsOf(RestOf(rule))
    PROVE  Gets(rule, p, j, z)
<1> DEFINE t == p.tokens
           rest == RestOf(rule)
<1>1. rest \in {"term_", "expr_"} /\ "end" \notin OperatorsOf(rest)
  BY DEF RestOf, OperatorsOf
<1>2. PICK q : \E d \in Dags[q.i - 1] :
        /\ Roomy(q) /\ q.tokens = t /\ q.i = j + 1
        /\ d # Null /\ Stripped[d] = z
        /\ Parsed[To(rule, p)] = Parsed[Call(rest, q, d, d)]
  BY DEF GoesOn
<1>3. PICK d \in Dags[q.i - 1] :
        /\ Roomy(q) /\ q.tokens = t /\ q.i = j + 1
        /\ d # Null /\ Stripped[d] = z
        /\ Parsed[To(rule, p)] = Parsed[Call(rest, q, d, d)]
  BY <1>2
<1>4. Ready(q) /\ q.i - 1 \in 0 .. MaxText
  BY <1>3, RoomyParts, ReadyParts
<1>5. Next_(q) \notin OperatorsOf(rest)
  <2>1. CASE j = Len(t)
    <3>1. Next_(q) = "end"
      BY <1>3, <2>1 DEF Next_
    <3> QED
      BY <1>1, <3>1
  <2>2. CASE j # Len(t)
    <3>1. j + 1 \in 1 .. Len(t)
      BY <2>2
    <3>2. Next_(q) = t[j + 1].op
      BY <1>3, <1>4, <3>1, NextAt
    <3> QED
      BY <2>2, <3>2
  <2> QED
    BY <2>1, <2>2
<1> HIDE DEF rest
<1>6. Parsed[Call(rest, q, d, d)] = LoopStep(Parsed, rest, q, d, d)
  BY <1>1, <1>4, LoopIs
<1>7. Parsed[Call(rest, q, d, d)] = Returns(q, d)
  BY <1>5, <1>6 DEF LoopStep
<1>8. d \in Dag
  BY <1>4, DagsInDag
<1>9. Returns(q, d).dag = d /\ Returns(q, d).i = q.i
  BY <1>4, <1>8, ReturnsParts
<1> QED
  BY <1>3, <1>7, <1>9 DEF Gets

\* Where a term of the grammar is in the tokens, the function of its symbol reads it,
\* and that of expr does unless it is the beginning of a longer term.
Complete(t, x) ==
  \A p, z :
    Roomy(p) /\ p.tokens = t /\ p.i = x[2] /\ z \in Derives(t)[x] =>
      /\ x[1] \in {"primary", "unary"} => Gets(x[1], p, x[3], z)
      /\ x[1] = "primary" => p.i <= x[3] /\ t[p.i].op \in {"val", "("}
      /\ x[1] = "term" => GoesOn("term", p, x[3], z)
      /\ x[1] = "expr" /\ (x[3] = Len(t) \/ t[x[3] + 1].op \notin {"*", "/"})
           => GoesOn("expr", p, x[3], z)

\* What derives from the symbols of a chain.
LEMMA DerivesChain ==
    ASSUME NEW t \in Seq(Token), NEW i \in 1 .. Len(t) + 1, NEW j \in 0 .. Len(t), NEW z
    PROVE  \A rule \in {"term", "expr"} :
             z \in Derives(t)[<<rule, i, j>>]
             => z \in Derives(t)[<<OperandOf(rule), i, j>>] \/ Splits(rule, t, i, j, z)
<1>1. OperandOf("term") = "unary" /\ OperandOf("expr") = "term"
  BY DEF OperandOf
<1> QED
  BY <1>1, DerivesTerm, DerivesExpr

\* A chain, where its operands are read and its beginnings gone on from.
LEMMA ChainComplete ==
    ASSUME NEW rule \in {"term", "expr"}, NEW p, Roomy(p), NEW j \in 0 .. Len(p.tokens), NEW z,
           z \in Derives(p.tokens)[<<rule, p.i, j>>],
           z \in Derives(p.tokens)[<<OperandOf(rule), p.i, j>>] => Gets(OperandOf(rule), p, j, z),
           \A k \in p.i + 1 .. j - 1 : \A l :
             /\ p.tokens[k].op \in OperatorsOf(RestOf(rule))
             /\ l \in Derives(p.tokens)[<<rule, p.i, k - 1>>]
             => GoesOn(rule, p, k - 1, l),
           \A k \in p.i + 1 .. j - 1 : \A f, r :
             /\ Roomy(f) /\ f.tokens = p.tokens /\ f.i = k + 1
             /\ r \in Derives(p.tokens)[<<OperandOf(rule), k + 1, j>>]
             => Gets(OperandOf(rule), f, j, r)
    PROVE  GoesOn(rule, p, j, z)
<1> DEFINE t == p.tokens
           i == p.i
<1>1. t \in Seq(Token) /\ Len(t) \in Nat /\ i \in 1 .. Len(t) + 1 /\ i \in Int /\ j \in Int
  BY ReadyParts DEF Roomy
<1>2. z \in Derives(t)[<<OperandOf(rule), i, j>>] \/ Splits(rule, t, i, j, z)
  <2>1. z \in Derives(t)[<<rule, i, j>>] /\ j \in 0 .. Len(t)
    OBVIOUS
  <2> HIDE DEF t, i
  <2> QED
    BY <1>1, <2>1, DerivesChain
<1>3. CASE z \in Derives(t)[<<OperandOf(rule), i, j>>]
  <2>1. Gets(OperandOf(rule), p, j, z)
    BY <1>3
  <2> QED
    BY <2>1, ChainFirst
<1>4. ASSUME NEW k \in i + 1 .. j - 1, t[k].op \in OperatorsOf(RestOf(rule)),
             NEW l, NEW r,
             l \in Derives(t)[<<rule, i, k - 1>>],
             r \in Derives(t)[<<OperandOf(rule), k + 1, j>>],
             z = <<t[k].op, l, r>>
      PROVE  GoesOn(rule, p, j, z)
  <2>1. GoesOn(rule, p, k - 1, l)
    BY <1>4
  <2>2. \A f : Roomy(f) /\ f.tokens = p.tokens /\ f.i = k + 1 => Gets(OperandOf(rule), f, j, r)
    BY <1>4
  <2>3. k \in 1 .. Len(p.tokens)
    BY <1>1
  <2>4. GoesOn(rule, p, j, <<p.tokens[k].op, l, r>>)
    BY <1>4, <2>1, <2>2, <2>3, ChainMore
  <2> QED
    BY <1>4, <2>4
<1> QED
  BY <1>2, <1>3, <1>4 DEF Splits

\* The same for each span, where it holds of the lighter ones.
LEMMA CompleteStep ==
    ASSUME NEW t \in Seq(Token), NEW x \in Spans(t),
           \A y \in Spans(t) : SpanWeight(y) < SpanWeight(x) => Complete(t, y)
    PROVE  Complete(t, x)
<1> SUFFICES ASSUME NEW p, NEW z, Roomy(p), p.tokens = t, p.i = x[2], z \in Derives(t)[x]
             PROVE  /\ x[1] \in {"primary", "unary"} => Gets(x[1], p, x[3], z)
                    /\ x[1] = "primary" => p.i <= x[3] /\ t[p.i].op \in {"val", "("}
                    /\ x[1] = "term" => GoesOn("term", p, x[3], z)
                    /\ x[1] = "expr" /\ (x[3] = Len(t) \/ t[x[3] + 1].op \notin {"*", "/"})
                         => GoesOn("expr", p, x[3], z)
  BY DEF Complete
<1> DEFINE i == x[2]
           j == x[3]
<1>1. x = <<x[1], i, j>> /\ x[1] \in Symbols /\ i \in Int /\ j \in 0 .. Len(t) /\ p.i = i
  BY SpanParts
<1>2. \A s, a, b : <<s, a, b>>[1] = s /\ <<s, a, b>>[2] = a /\ <<s, a, b>>[3] = b
  OBVIOUS
<1>3. CASE x[1] = "primary"
  <2>1. ASSUME NEW f, NEW y, Roomy(f), f.tokens = p.tokens, f.i = p.i + 1,
               p.i + 1 < j, p.tokens[j].op = ")",
               y \in Derives(p.tokens)[<<"expr", p.i + 1, j - 1>>]
        PROVE  Gets("expr", f, j - 1, y)
    <3> DEFINE w == <<"expr", i + 1, j - 1>>
    <3>1. w \in Spans(t) /\ SpanWeight(w) < SpanWeight(x)
      BY <1>1, <1>3, <2>1, SpansBelow
    <3>2. Complete(t, w)
      BY <3>1
    <3>3. w[1] = "expr" /\ w[2] = f.i /\ w[3] = j - 1 /\ y \in Derives(t)[w]
      BY <1>1, <1>2, <2>1
    <3> HIDE DEF w
    <3>4. (j - 1) + 1 = j /\ j - 1 \in 0 .. Len(p.tokens)
      <4>1. \A a, b \in Int : \A n \in 0 .. b :
              1 <= a /\ a + 1 < n => (n - 1) + 1 = n /\ n - 1 \in 0 .. b
        OBVIOUS
      <4>2. i \in Int /\ 1 <= i /\ i + 1 < j /\ j \in 0 .. Len(t) /\ Len(t) \in Int
        BY <1>1, <2>1, SpanParts
      <4>3. (j - 1) + 1 = j /\ j - 1 \in 0 .. Len(t)
        <5> HIDE DEF i, j
        <5> QED
          BY <4>1, <4>2
      <4> QED
        BY <4>3
    <3>5. t[(j - 1) + 1].op = ")"
      BY <2>1, <3>4
    <3>6. GoesOn("expr", f, j - 1, y)
      BY <2>1, <3>2, <3>3, <3>5 DEF Complete
    <3>7. ")" \notin OperatorsOf(RestOf("expr"))
      BY DEF OperatorsOf, RestOf
    <3>8. f.tokens[(j - 1) + 1].op \notin OperatorsOf(RestOf("expr")) /\ j - 1 \in 0 .. Len(f.tokens)
      BY <2>1, <3>4, <3>5, <3>7
    <3> DEFINE k == j - 1
    <3> HIDE DEF k
    <3>9. f.tokens[k + 1].op \notin OperatorsOf(RestOf("expr")) /\ k \in 0 .. Len(f.tokens)
      BY <3>8 DEF k
    <3>10. GoesOn("expr", f, k, y)
      BY <3>6 DEF k
    <3>11. Gets("expr", f, k, y)
      BY <3>9, <3>10, GoesGets
    <3> QED
      BY <3>11 DEF k
  <2>2. j \in 0 .. Len(p.tokens) /\ z \in Derives(p.tokens)[<<"primary", p.i, j>>]
    BY <1>1, <1>3
  <2> HIDE DEF i, j
  <2>3. Gets("primary", p, j, z) /\ p.i <= j /\ p.tokens[p.i].op \in {"val", "("}
    BY <2>1, <2>2, PrimaryComplete
  <2> QED
    BY <1>3, <2>3 DEF j
<1>4. CASE x[1] = "unary"
  <2>1. ASSUME z \in Derives(p.tokens)[<<"primary", p.i, j>>]
        PROVE  Gets("primary", p, j, z) /\ p.i <= j /\ p.tokens[p.i].op \in {"val", "("}
    <3> DEFINE w == <<"primary", i, j>>
    <3>1. w \in Spans(t) /\ SpanWeight(w) < SpanWeight(x)
      BY <1>1, <1>4, SpansBelow
    <3>2. Complete(t, w)
      BY <3>1
    <3>3. w[1] = "primary" /\ w[2] = p.i /\ w[3] = j /\ z \in Derives(t)[w]
      BY <1>1, <1>2, <2>1
    <3> HIDE DEF w
    <3> QED
      BY <3>2, <3>3 DEF Complete
  <2>2. ASSUME NEW f, NEW y, Roomy(f), f.tokens = p.tokens, f.i = p.i + 1, p.i < j,
               y \in Derives(p.tokens)[<<"unary", p.i + 1, j>>]
        PROVE  Gets("unary", f, j, y)
    <3> DEFINE w == <<"unary", i + 1, j>>
    <3>1. w \in Spans(t) /\ SpanWeight(w) < SpanWeight(x)
      BY <1>1, <1>4, <2>2, SpansBelow
    <3>2. Complete(t, w)
      BY <3>1
    <3>3. w[1] = "unary" /\ w[2] = f.i /\ w[3] = j /\ y \in Derives(t)[w]
      BY <1>1, <1>2, <2>2
    <3> HIDE DEF w
    <3> QED
      BY <2>2, <3>2, <3>3 DEF Complete
  <2>3. j \in 0 .. Len(p.tokens) /\ z \in Derives(p.tokens)[<<"unary", p.i, j>>]
    BY <1>1, <1>4
  <2> HIDE DEF i, j
  <2>4. Gets("unary", p, j, z)
    BY <2>1, <2>2, <2>3, UnaryComplete
  <2> QED
    BY <1>4, <2>4 DEF j
<1>5. CASE x[1] = "term"
  <2>1. OperandOf("term") = "unary"
    BY DEF OperandOf
  <2>2. ASSUME z \in Derives(p.tokens)[<<"unary", p.i, j>>]
        PROVE  Gets("unary", p, j, z)
    <3> DEFINE w == <<"unary", i, j>>
    <3>1. w \in Spans(t) /\ SpanWeight(w) < SpanWeight(x)
      BY <1>1, <1>5, SpansBelow
    <3>2. Complete(t, w)
      BY <3>1
    <3>3. w[1] = "unary" /\ w[2] = p.i /\ w[3] = j /\ z \in Derives(t)[w]
      BY <1>1, <1>2, <2>2
    <3> HIDE DEF w
    <3> QED
      BY <3>2, <3>3 DEF Complete
  <2>3. ASSUME NEW k \in p.i + 1 .. j - 1, NEW l,
               l \in Derives(p.tokens)[<<"term", p.i, k - 1>>]
        PROVE  GoesOn("term", p, k - 1, l)
    <3> DEFINE w == <<"term", i, k - 1>>
    <3>1. w \in Spans(t) /\ SpanWeight(w) < SpanWeight(x)
      BY <1>1, <2>3, SpansBelow DEF Symbols
    <3>2. Complete(t, w)
      BY <3>1
    <3>3. w[1] = "term" /\ w[2] = p.i /\ w[3] = k - 1 /\ l \in Derives(t)[w]
      BY <1>1, <1>2, <2>3
    <3> HIDE DEF w
    <3> QED
      BY <3>2, <3>3 DEF Complete
  <2>4. ASSUME NEW k \in p.i + 1 .. j - 1, NEW f, NEW r,
               Roomy(f), f.tokens = p.tokens, f.i = k + 1,
               r \in Derives(p.tokens)[<<"unary", k + 1, j>>]
        PROVE  Gets("unary", f, j, r)
    <3> DEFINE w == <<"unary", k + 1, j>>
    <3>1. w \in Spans(t) /\ SpanWeight(w) < SpanWeight(x)
      BY <1>1, <2>4, SpansBelow DEF Symbols
    <3>2. Complete(t, w)
      BY <3>1
    <3>3. w[1] = "unary" /\ w[2] = f.i /\ w[3] = j /\ r \in Derives(t)[w]
      BY <1>1, <1>2, <2>4
    <3> HIDE DEF w
    <3> QED
      BY <2>4, <3>2, <3>3 DEF Complete
  <2>5. j \in 0 .. Len(p.tokens) /\ z \in Derives(p.tokens)[<<"term", p.i, j>>]
    BY <1>1, <1>5
  <2> HIDE DEF i, j
  <2> DEFINE rule == "term"
             operand == OperandOf(rule)
  <2>6. /\ z \in Derives(p.tokens)[<<operand, p.i, j>>] => Gets(operand, p, j, z)
        /\ \A k \in p.i + 1 .. j - 1 : \A l :
             /\ p.tokens[k].op \in OperatorsOf(RestOf(rule))
             /\ l \in Derives(p.tokens)[<<rule, p.i, k - 1>>]
             => GoesOn(rule, p, k - 1, l)
        /\ \A k \in p.i + 1 .. j - 1 : \A f, r :
             /\ Roomy(f) /\ f.tokens = p.tokens /\ f.i = k + 1
             /\ r \in Derives(p.tokens)[<<operand, k + 1, j>>]
             => Gets(operand, f, j, r)
    <3> HIDE DEF rule
    <3>1. operand = "unary"
      BY <2>1 DEF rule
    <3>2. \A k \in p.i + 1 .. j - 1 : \A l :
            l \in Derives(p.tokens)[<<rule, p.i, k - 1>>] => GoesOn(rule, p, k - 1, l)
      BY <2>3 DEF rule
    <3>3. z \in Derives(p.tokens)[<<operand, p.i, j>>] => Gets(operand, p, j, z)
      BY <2>2, <3>1
    <3>4. \A k \in p.i + 1 .. j - 1 : \A f, r :
             /\ Roomy(f) /\ f.tokens = p.tokens /\ f.i = k + 1
             /\ r \in Derives(p.tokens)[<<operand, k + 1, j>>]
             => Gets(operand, f, j, r)
      BY <2>4, <3>1
    <3> HIDE DEF operand
    <3> QED
      BY <3>2, <3>3, <3>4
  <2>7. rule \in {"term", "expr"} /\ z \in Derives(p.tokens)[<<rule, p.i, j>>]
    BY <2>5
  <2>8. GoesOn(rule, p, j, z)
    <3> HIDE DEF rule
    <3> QED
      BY <2>5, <2>6, <2>7, ChainComplete
  <2> QED
    BY <1>5, <2>8 DEF j
<1>6. CASE x[1] = "expr" /\ (x[3] = Len(t) \/ t[x[3] + 1].op \notin {"*", "/"})
  <2>1. /\ OperandOf("expr") = "term" /\ OperatorsOf(RestOf("expr")) = {"+", "-"}
        /\ OperatorsOf(RestOf("term")) = {"*", "/"}
    BY DEF OperandOf, OperatorsOf, RestOf
  <2>2. ASSUME NEW f, NEW r, NEW w \in Spans(t), SpanWeight(w) < SpanWeight(x),
               w[1] = "term", w[3] = j, Roomy(f), f.tokens = t, f.i = w[2],
               r \in Derives(t)[w]
        PROVE  Gets("term", f, j, r)
    <3>1. Complete(t, w)
      BY <2>2
    <3>2. GoesOn("term", f, j, r)
      BY <2>2, <3>1 DEF Complete
    <3>3. j \in 0 .. Len(f.tokens)
      BY <1>1, <2>2
    <3>4. j = Len(f.tokens) \/ f.tokens[j + 1].op \notin OperatorsOf(RestOf("term"))
      BY <1>6, <2>1, <2>2
    <3> HIDE DEF i, j
    <3> QED
      BY <3>2, <3>3, <3>4, GoesGets
  <2>3. ASSUME z \in Derives(p.tokens)[<<"term", p.i, j>>]
        PROVE  Gets("term", p, j, z)
    <3> DEFINE w == <<"term", i, j>>
    <3>1. w \in Spans(t) /\ SpanWeight(w) < SpanWeight(x)
      BY <1>1, <1>6, SpansBelow
    <3>2. w[1] = "term" /\ w[2] = p.i /\ w[3] = j /\ z \in Derives(t)[w]
      BY <1>1, <1>2, <2>3
    <3> HIDE DEF w, i, j
    <3> QED
      BY <2>2, <3>1, <3>2
  <2>4. ASSUME NEW k \in p.i + 1 .. j - 1, NEW l, p.tokens[k].op \in OperatorsOf(RestOf("expr")),
               l \in Derives(p.tokens)[<<"expr", p.i, k - 1>>]
        PROVE  GoesOn("expr", p, k - 1, l)
    <3> DEFINE w == <<"expr", i, k - 1>>
    <3>1. w \in Spans(t) /\ SpanWeight(w) < SpanWeight(x)
      BY <1>1, <2>4, SpansBelow DEF Symbols
    <3>2. Complete(t, w)
      BY <3>1
    <3>3. w[1] = "expr" /\ w[2] = p.i /\ w[3] = k - 1 /\ l \in Derives(t)[w]
      BY <1>1, <1>2, <2>4
    <3> HIDE DEF w
    <3>4. (k - 1) + 1 = k
      BY <1>1
    <3>5. t[w[3] + 1].op \notin {"*", "/"}
      BY <2>1, <2>4, <3>3, <3>4
    <3> QED
      BY <3>2, <3>3, <3>5 DEF Complete
  <2>5. ASSUME NEW k \in p.i + 1 .. j - 1, NEW f, NEW r,
               Roomy(f), f.tokens = p.tokens, f.i = k + 1,
               r \in Derives(p.tokens)[<<"term", k + 1, j>>]
        PROVE  Gets("term", f, j, r)
    <3> DEFINE w == <<"term", k + 1, j>>
    <3>1. w \in Spans(t) /\ SpanWeight(w) < SpanWeight(x)
      BY <1>1, <2>5, SpansBelow DEF Symbols
    <3>2. w[1] = "term" /\ w[2] = f.i /\ w[3] = j /\ r \in Derives(t)[w]
      BY <1>1, <1>2, <2>5
    <3> HIDE DEF w, i, j
    <3> QED
      BY <2>2, <2>5, <3>1, <3>2
  <2>6. j \in 0 .. Len(p.tokens) /\ z \in Derives(p.tokens)[<<"expr", p.i, j>>]
    BY <1>1, <1>6
  <2> HIDE DEF i, j
  <2> DEFINE rule == "expr"
             operand == OperandOf(rule)
  <2>7. /\ z \in Derives(p.tokens)[<<operand, p.i, j>>] => Gets(operand, p, j, z)
        /\ \A k \in p.i + 1 .. j - 1 : \A l :
             /\ p.tokens[k].op \in OperatorsOf(RestOf(rule))
             /\ l \in Derives(p.tokens)[<<rule, p.i, k - 1>>]
             => GoesOn(rule, p, k - 1, l)
        /\ \A k \in p.i + 1 .. j - 1 : \A f, r :
             /\ Roomy(f) /\ f.tokens = p.tokens /\ f.i = k + 1
             /\ r \in Derives(p.tokens)[<<operand, k + 1, j>>]
             => Gets(operand, f, j, r)
    <3> HIDE DEF rule
    <3>1. operand = "term"
      BY <2>1 DEF rule
    <3>2. \A k \in p.i + 1 .. j - 1 : \A l :
            /\ p.tokens[k].op \in OperatorsOf(RestOf(rule))
            /\ l \in Derives(p.tokens)[<<rule, p.i, k - 1>>]
            => GoesOn(rule, p, k - 1, l)
      BY <2>4 DEF rule
    <3>3. z \in Derives(p.tokens)[<<operand, p.i, j>>] => Gets(operand, p, j, z)
      BY <2>3, <3>1
    <3>4. \A k \in p.i + 1 .. j - 1 : \A f, r :
             /\ Roomy(f) /\ f.tokens = p.tokens /\ f.i = k + 1
             /\ r \in Derives(p.tokens)[<<operand, k + 1, j>>]
             => Gets(operand, f, j, r)
      BY <2>5, <3>1
    <3> HIDE DEF operand
    <3> QED
      BY <3>2, <3>3, <3>4
  <2>8. rule \in {"term", "expr"} /\ z \in Derives(p.tokens)[<<rule, p.i, j>>]
    BY <2>6
  <2>9. GoesOn(rule, p, j, z)
    <3> HIDE DEF rule
    <3> QED
      BY <2>6, <2>7, <2>8, ChainComplete
  <2> QED
    BY <1>6, <2>9 DEF j
<1> QED
  BY <1>1, <1>3, <1>4, <1>5, <1>6 DEF Symbols

\* The recursive descent finds every term that the grammar has.
LEMMA Completes ==
    ASSUME NEW t \in Seq(Token)
    PROVE  \A x \in Spans(t) : Complete(t, x)
<1> DEFINE S == {x \in Spans(t) : Complete(t, x)}
<1>1. \A x \in Spans(t) :
        (\A y \in Spans(t) : SpanWeight(y) < SpanWeight(x) => y \in S) => x \in S
  <2> SUFFICES ASSUME NEW x \in Spans(t),
                      \A y \in Spans(t) : SpanWeight(y) < SpanWeight(x) => Complete(t, y)
               PROVE  Complete(t, x)
    OBVIOUS
  <2> QED
    BY CompleteStep
<1> HIDE DEF S
<1>2. Spans(t) \subseteq S
  BY <1>1, OverSpans
<1> QED
  BY <1>2 DEF S

-----------------------------------------------------------------------------
(* A text.                                                                 *)

\* The right side of the definition of Tokens.
ReadStep(s, g, k) ==
  IF k = 0 THEN <<>>
  ELSE IF StartsToken(s, k) THEN Append(g[k - 1], TokenAt(s, k)) ELSE g[k - 1]

\* Tokens is what its definition says of it.
LEMMA TokensIs ==
    ASSUME NEW s \in Seq(STRING)
    PROVE  \E g : g = [k \in 0 .. Len(s) |-> ReadStep(s, g, k)] /\ Tokens(s) = g[Len(s)]
<1> DEFINE S == {n \in Nat : \E g : g = [k \in 0 .. n |-> ReadStep(s, g, k)]}
           m == Len(s)
<1>1. m \in Nat
  OBVIOUS
<1> HIDE DEF m
<1>2. 0 \in S
  <2> DEFINE g == [k \in 0 .. 0 |-> <<>>]
  <2>1. g = [k \in 0 .. 0 |-> ReadStep(s, g, k)]
    BY DEF ReadStep
  <2> QED
    BY <2>1
<1>3. \A n \in 0 .. m - 1 : n \in S => n + 1 \in S
  <2> SUFFICES ASSUME NEW n \in 0 .. m - 1, n \in S PROVE n + 1 \in S
    OBVIOUS
  <2>1. PICK g : g = [k \in 0 .. n |-> ReadStep(s, g, k)]
    OBVIOUS
  <2> DEFINE h == [k \in 0 .. n + 1 |-> ReadStep(s, g, k)]
  <2>2. \A k \in 0 .. n : h[k] = g[k]
    <3> TAKE k \in 0 .. n
    <3>1. k \in 0 .. n + 1
      BY <1>1
    <3>2. g[k] = ReadStep(s, g, k)
      BY <2>1
    <3>3. h[k] = ReadStep(s, g, k)
      BY <3>1
    <3> QED
      BY <3>2, <3>3
  <2>3. \A k \in 0 .. n + 1 : ReadStep(s, g, k) = ReadStep(s, h, k)
    <3> TAKE k \in 0 .. n + 1
    <3>1. CASE k = 0
      BY <3>1 DEF ReadStep
    <3>2. CASE k # 0
      <4>1. k - 1 \in 0 .. n
        BY <1>1, <3>2
      <4>2. h[k - 1] = g[k - 1]
        BY <2>2, <4>1
      <4> HIDE DEF h
      <4> QED
        BY <3>2, <4>2 DEF ReadStep
    <3> QED
      BY <3>1, <3>2
  <2>4. h = [k \in 0 .. n + 1 |-> ReadStep(s, h, k)]
    BY <2>3
  <2> HIDE DEF h
  <2> QED
    BY <1>1, <2>4
<1>4. m \in S
  <2> HIDE DEF S
  <2>1. 0 .. m \subseteq S
    BY <1>1, <1>2, <1>3, Upwards
  <2> QED
    BY <1>1, <2>1
<1>5. \E g : g = [k \in 0 .. m |-> ReadStep(s, g, k)]
  BY <1>4
<1> DEFINE read == CHOOSE g : g = [k \in 0 .. m |-> ReadStep(s, g, k)]
<1>6. Tokens(s) = read[m]
  BY DEF Tokens, ReadStep, m
<1>7. read = [k \in 0 .. m |-> ReadStep(s, read, k)]
  BY <1>5
<1> QED
  BY <1>6, <1>7 DEF m

\* What is read of a text up to k.
ReadSoFar(s, q, k) ==
  /\ q \in Seq(Token) /\ Len(q) <= k
  /\ \A n \in 1 .. Len(q) : q[n].at \in 1 .. k
  /\ \A v \in 1 .. k : s[v] = "i" =>
       \E n \in 1 .. Len(q) : q[n].op = "val" /\ q[n].at = v

\* The tokens of a text: no more than characters, each at its place, and each of the
\* infinite numerals among them.
LEMMA TokensAre ==
    ASSUME NEW s \in Seq(STRING), Len(s) <= MaxText
    PROVE  /\ Tokens(s) \in Seq(Token) /\ Len(Tokens(s)) <= MaxText
           /\ \A n \in 1 .. Len(Tokens(s)) : Tokens(s)[n].at \in 1 .. Len(s)
           /\ \A v \in 1 .. Len(s) : s[v] = "i" =>
                \E n \in 1 .. Len(Tokens(s)) : Tokens(s)[n].op = "val" /\ Tokens(s)[n].at = v
<1> DEFINE m == Len(s)
<1>1. m \in Nat /\ MaxText \in Nat /\ m <= MaxText
  BY TextAssumption
<1>2. PICK g : g = [k \in 0 .. m |-> ReadStep(s, g, k)] /\ Tokens(s) = g[m]
  BY TokensIs
<1> HIDE DEF m
<1>3. \A k \in 0 .. m : g[k] = ReadStep(s, g, k)
  BY <1>2
<1> DEFINE S == {k \in Nat : k <= m => ReadSoFar(s, g[k], k)}
<1>4. 0 \in S
  <2>1. g[0] = <<>>
    BY <1>1, <1>3 DEF ReadStep
  <2>2. ReadSoFar(s, <<>>, 0)
    BY DEF ReadSoFar
  <2> QED
    BY <2>1, <2>2
<1>5. \A k \in 0 .. m - 1 : k \in S => k + 1 \in S
  <2> SUFFICES ASSUME NEW k \in 0 .. m - 1, ReadSoFar(s, g[k], k) PROVE ReadSoFar(s, g[k + 1], k + 1)
    BY <1>1
  <2> DEFINE q == g[k]
             e == TokenAt(s, k + 1)
  <2>1. k + 1 \in 0 .. m /\ k + 1 # 0 /\ (k + 1) - 1 = k /\ k + 1 \in 1 .. MaxText /\ k \in Nat
    BY <1>1
  <2>2. g[k + 1] = IF StartsToken(s, k + 1) THEN Append(q, e) ELSE q
    BY <1>3, <2>1 DEF ReadStep
  <2>3. /\ q \in Seq(Token) /\ Len(q) <= k
        /\ \A n \in 1 .. Len(q) : q[n].at \in 1 .. k
        /\ \A v \in 1 .. k : s[v] = "i" =>
             \E n \in 1 .. Len(q) : q[n].op = "val" /\ q[n].at = v
    BY DEF ReadSoFar
  <2> HIDE DEF q
  <2>4. CASE StartsToken(s, k + 1)
    <3>1. e \in Token /\ e.at = k + 1 /\ (s[k + 1] = "i" => e.op = "val")
      BY <2>1 DEF TokenAt, Token, Operators
    <3> DEFINE u == Append(q, e)
    <3>2. u \in Seq(Token) /\ Len(u) = Len(q) + 1 /\ Len(q) \in Nat
      BY <2>3, <3>1
    <3>3. (\A n \in 1 .. Len(q) : u[n] = q[n]) /\ u[Len(q) + 1] = e
      BY <2>3, <3>1
    <3> HIDE DEF u, e
    <3>4. \A n \in 1 .. Len(u) : u[n].at \in 1 .. k + 1
      <4> TAKE n \in 1 .. Len(u)
      <4>1. CASE n \in 1 .. Len(q)
        BY <2>1, <2>3, <3>3, <4>1
      <4>2. CASE n = Len(q) + 1
        BY <2>1, <3>1, <3>3, <4>2
      <4> QED
        BY <3>2, <4>1, <4>2
    <3>5. \A v \in 1 .. k + 1 : s[v] = "i" =>
            \E n \in 1 .. Len(u) : u[n].op = "val" /\ u[n].at = v
      <4> SUFFICES ASSUME NEW v \in 1 .. k + 1, s[v] = "i"
                   PROVE  \E n \in 1 .. Len(u) : u[n].op = "val" /\ u[n].at = v
        OBVIOUS
      <4>1. CASE v = k + 1
        <5>1. Len(q) + 1 \in 1 .. Len(u)
          BY <3>2
        <5> QED
          BY <3>1, <3>3, <4>1, <5>1
      <4>2. CASE v \in 1 .. k
        <5>1. PICK n \in 1 .. Len(q) : q[n].op = "val" /\ q[n].at = v
          BY <2>3, <4>2
        <5>2. n \in 1 .. Len(u)
          BY <3>2
        <5> QED
          BY <3>3, <5>1, <5>2
      <4> QED
        BY <2>1, <4>1, <4>2
    <3>6. Len(u) <= k + 1
      BY <2>1, <2>3, <3>2
    <3>7. ReadSoFar(s, u, k + 1)
      BY <3>2, <3>4, <3>5, <3>6 DEF ReadSoFar
    <3> QED
      BY <2>2, <2>4, <3>7 DEF u
  <2>5. CASE ~ StartsToken(s, k + 1)
    <3>1. s[k + 1] # "i"
      BY <2>5 DEF StartsToken
    <3>2. \A v \in 1 .. k + 1 : v = k + 1 \/ v \in 1 .. k
      BY <2>1
    <3>3. ReadSoFar(s, q, k + 1)
      <4>1. Len(q) <= k + 1
        BY <2>1, <2>3
      <4>2. \A n \in 1 .. Len(q) : q[n].at \in 1 .. k + 1
        BY <2>1, <2>3
      <4>3. \A v \in 1 .. k + 1 : s[v] = "i" =>
              \E n \in 1 .. Len(q) : q[n].op = "val" /\ q[n].at = v
        BY <2>3, <3>1, <3>2
      <4> QED
        BY <2>3, <4>1, <4>2, <4>3 DEF ReadSoFar
    <3> QED
      BY <2>2, <2>5, <3>3
  <2> QED
    BY <2>4, <2>5
<1>6. m \in S
  <2> HIDE DEF S
  <2>1. 0 .. m \subseteq S
    BY <1>1, <1>4, <1>5, Upwards
  <2> QED
    BY <1>1, <2>1
<1>7. ReadSoFar(s, Tokens(s), m)
  BY <1>1, <1>2, <1>6
<1>8. Len(Tokens(s)) <= MaxText
  BY <1>1, <1>7 DEF ReadSoFar
<1> QED
  BY <1>7, <1>8 DEF m, ReadSoFar

\* The parser at the start of some tokens.
LEMMA StartParts ==
    ASSUME NEW t \in Seq(Token), Len(t) <= MaxText, NEW room \in Nat
    PROVE  /\ Ready(Start(t, room)) /\ Start(t, room).tokens = t /\ Start(t, room).i = 1
           /\ Start(t, room).dag = Null /\ Start(t, room).bad = FALSE /\ Start(t, room).id = 0
           /\ Len(t) <= room => Roomy(Start(t, room))
<1>1. Null \in Dag /\ Len(t) \in Nat
  BY NullIsDag, TextAssumption
<1>2. Start(t, room) \in Parsers /\ Start(t, room).i <= Len(t) + 1
  BY <1>1 DEF Start, Parsers
<1>3. /\ Start(t, room).tokens = t /\ Start(t, room).i = 1 /\ Start(t, room).room = room
      /\ Start(t, room).dag = Null /\ Start(t, room).bad = FALSE /\ Start(t, room).id = 0
  BY DEF Start
<1>4. Ready(Start(t, room))
  BY <1>2, <1>3 DEF Ready
<1>5. Len(t) <= room => Roomy(Start(t, room))
  BY <1>1, <1>3, <1>4 DEF Roomy
<1> QED
  BY <1>3, <1>4, <1>5

\* What the grammar has for all tokens, the parser returns if it has room.
LEMMA TopComplete ==
    ASSUME NEW t \in Seq(Token), Len(t) <= MaxText, NEW room \in Nat, Len(t) <= room,
           NEW z, z \in Derives(t)[<<"expr", 1, Len(t)>>]
    PROVE  Top(Start(t, room)).dag # Null /\ Stripped[Top(Start(t, room)).dag] = z
<1> DEFINE p == Start(t, room)
           e == Parsed[To("expr", p)]
           x == <<"expr", 1, Len(t)>>
<1>1. Roomy(p) /\ p.tokens = t /\ p.i = 1 /\ Len(t) \in Nat
  <2>1. Len(t) \in Nat
    OBVIOUS
  <2>2. /\ Start(t, room).tokens = t /\ Start(t, room).i = 1
        /\ Len(t) <= room => Roomy(Start(t, room))
    BY StartParts
  <2> QED
    BY <2>1, <2>2
<1>2. x \in Spans(t) /\ x[1] = "expr" /\ x[2] = 1 /\ x[3] = Len(t)
  BY <1>1 DEF Spans, Symbols
<1>3. Complete(t, x)
  BY <1>2, Completes
<1>4. Top(p) = IF Next_(e) = "end" THEN e ELSE Returns(e, Null)
  BY DEF Top, Expr
<1> HIDE DEF p, x
<1>5. GoesOn("expr", p, Len(t), z)
  BY <1>1, <1>2, <1>3 DEF Complete, x
<1>6. Gets("expr", p, Len(t), z)
  <2> DEFINE rule == "expr"
             j == Len(t)
  <2>1. rule \in {"term", "expr"} /\ j \in 0 .. Len(p.tokens) /\ j = Len(p.tokens)
    BY <1>1
  <2>2. GoesOn(rule, p, j, z)
    BY <1>5
  <2> HIDE DEF rule, j
  <2>3. Gets(rule, p, j, z)
    BY <2>1, <2>2, GoesGets
  <2> QED
    BY <2>3 DEF rule, j
<1>7. e.dag # Null /\ Stripped[e.dag] = z /\ e.i = Len(t) + 1
  BY <1>6 DEF Gets
<1>8. e.tokens = t
  <2>1. "expr" \in Rules
    BY DEF Rules
  <2> QED
    BY <1>1, <2>1, RoomyTo
<1>9. Next_(e) = "end"
  BY <1>1, <1>7, <1>8 DEF Next_
<1> QED
  BY <1>4, <1>7, <1>9 DEF p

\* What the parser returns for all tokens is a tree that the grammar has.
LEMMA TopSound ==
    ASSUME NEW t \in Seq(Token), Len(t) <= MaxText, NEW room \in Nat,
           NEW q, q = Top(Start(t, room))
    PROVE  /\ q.dag \in Dag
           /\ q.dag # Null =>
                /\ ~ q.bad /\ Whole(q.dag) /\ Leaves(q.dag) = Numbers(t, 1, Len(t))
                /\ Stripped[q.dag] \in Derives(t)[<<"expr", 1, Len(t)>>]
<1> DEFINE p == Start(t, room)
           e == Parsed[To("expr", p)]
<1>1. Ready(p) /\ p.tokens = t /\ p.i = 1 /\ ~ p.bad /\ Len(t) \in Nat
  <2>1. Len(t) \in Nat
    OBVIOUS
  <2>2. /\ Ready(Start(t, room)) /\ Start(t, room).tokens = t /\ Start(t, room).i = 1
        /\ Start(t, room).bad = FALSE
    BY StartParts
  <2> QED
    BY <2>1, <2>2
<1>2. "expr" \in Rules /\ "expr" \in Symbols
  BY DEF Rules, Symbols
<1>3. q = IF Next_(e) = "end" THEN e ELSE Returns(e, Null)
  BY DEF Top, Expr
<1>4. e = Parsed[To("expr", p)]
  OBVIOUS
<1> HIDE DEF p, e
<1>5. Ready(e) /\ e.tokens = t /\ e.i \in 1 .. Len(t) + 1
  BY <1>1, <1>2, <1>4, ParsedTo
<1>6. e.dag \in Dag /\ Null \in Dag
  BY <1>5, ReadyParts, NullIsDag, TextAssumption
<1>7. CASE Next_(e) # "end"
  <2>1. q.dag = Null
    BY <1>3, <1>5, <1>6, <1>7, ReturnsParts
  <2> QED
    BY <1>6, <2>1
<1>8. CASE Next_(e) = "end"
  <2>1. q = e
    BY <1>3, <1>8
  <2>2. ~ (e.i <= Len(t))
    BY <1>5, <1>8, NextIs
  <2>3. e.i = Len(t) + 1 /\ e.i - 1 = Len(t)
    BY <1>1, <1>5, <2>2
  <2>4. ASSUME e.dag # Null PROVE ReadsTo("expr", p, e)
    BY <1>1, <1>2, <1>4, <2>4, Sound
  <2>5. ASSUME e.dag # Null
        PROVE  /\ ~ e.bad /\ Whole(e.dag) /\ Leaves(e.dag) = Numbers(t, 1, Len(t))
               /\ Stripped[e.dag] \in Derives(t)[<<"expr", 1, Len(t)>>]
    BY <1>1, <2>3, <2>4, <2>5 DEF ReadsTo
  <2> QED
    BY <1>6, <2>1, <2>5
<1> QED
  BY <1>7, <1>8

\* parser_parse accepts the texts of the grammar and no other, and returns the tree
\* that the grammar gives, of which there is one only; with too little memory it may
\* fail.  Where its error is not of its table there is no tree.
THEOREM ParseIsRight ==
    ASSUME NEW s \in Seq(STRING), Len(s) <= MaxText, NEW room \in Nat,
           NEW q, q = Parse(s, room)
    PROVE  /\ q.dag \in Dag
           /\ q.dag # Null =>
                /\ ~ q.bad /\ Whole(q.dag)
                /\ "i" \in ToSet(s) <=> \E v \in Leaves(q.dag) : s[v] = "i"
                /\ Terms(s) = {Stripped[q.dag]}
           /\ q.dag = Null /\ MaxText <= room => Terms(s) = {}
<1> DEFINE t == Tokens(s)
           good == Lexes(s) /\ t # <<>>
<1>1. /\ t \in Seq(Token) /\ Len(t) <= MaxText /\ Len(t) \in Nat /\ MaxText \in Nat
      /\ \A n \in 1 .. Len(t) : t[n].at \in 1 .. Len(s)
      /\ \A v \in 1 .. Len(s) : s[v] = "i" =>
           \E n \in 1 .. Len(t) : t[n].op = "val" /\ t[n].at = v
  BY TokensAre, TextAssumption
<1>2. /\ q = IF good THEN Top(Start(t, room)) ELSE Start(<<>>, room)
      /\ Terms(s) = IF good THEN Derives(t)[<<"expr", 1, Len(t)>>] ELSE {}
  BY DEF Parse, Terms
<1> HIDE DEF t, good
<1>3. CASE ~ good
  <2>1. q.dag = Null /\ Terms(s) = {}
    BY <1>2, <1>3 DEF Start
  <2>2. Null \in Dag
    BY NullIsDag, TextAssumption
  <2> QED
    BY <2>1, <2>2
<1>4. CASE good
  <2>1. q = Top(Start(t, room)) /\ Terms(s) = Derives(t)[<<"expr", 1, Len(t)>>]
    BY <1>2, <1>4
  <2>2. /\ q.dag \in Dag
        /\ q.dag # Null =>
             /\ ~ q.bad /\ Whole(q.dag) /\ Leaves(q.dag) = Numbers(t, 1, Len(t))
             /\ Stripped[q.dag] \in Derives(t)[<<"expr", 1, Len(t)>>]
    BY <1>1, <2>1, TopSound
  <2> DEFINE one == Stripped[Top(Start(t, MaxText)).dag]
  <2>3. \A z \in Terms(s) : z = one
    BY <1>1, <2>1, TopComplete
  <2> HIDE DEF one
  <2>4. ASSUME q.dag # Null PROVE Terms(s) = {Stripped[q.dag]}
    BY <2>1, <2>2, <2>3, <2>4
  <2>5. ASSUME q.dag = Null, MaxText <= room PROVE Terms(s) = {}
    <3>1. Len(t) <= room
      BY <1>1, <2>5
    <3>2. \A z \in Derives(t)[<<"expr", 1, Len(t)>>] : Top(Start(t, room)).dag # Null
      BY <1>1, <3>1, TopComplete
    <3> QED
      BY <2>1, <2>5, <3>2
  <2>6. ASSUME q.dag # Null
        PROVE  "i" \in ToSet(s) <=> \E v \in Leaves(q.dag) : s[v] = "i"
    <3>1. Leaves(q.dag) = Numbers(t, 1, Len(t))
      BY <2>2, <2>6
    <3>2. "i" \in ToSet(s) <=> \E v \in 1 .. Len(s) : s[v] = "i"
      BY DEF ToSet
    <3>3. ASSUME NEW v \in 1 .. Len(s), s[v] = "i" PROVE v \in Numbers(t, 1, Len(t))
      BY <1>1, <3>3 DEF Numbers
    <3>4. Numbers(t, 1, Len(t)) \subseteq 1 .. Len(s)
      BY <1>1 DEF Numbers
    <3> QED
      BY <3>1, <3>2, <3>3, <3>4
  <2> QED
    BY <2>2, <2>4, <2>5, <2>6
<1> QED
  BY <1>3, <1>4

-----------------------------------------------------------------------------
(* The code.                                                               *)

Ids(t) == {n.id : n \in Nodes[t]}

Statements == {Statement(t) : t \in Dag}

\* A tree is a node and its two subtrees.
LEMMA TreeParts ==
    ASSUME NEW t \in Dag \ {Null}
    PROVE  /\ t.left \in Dag /\ t.right \in Dag /\ t.op \in NodeOps /\ t.id \in Nat /\ t.val \in Nat
           /\ Nodes[t] = {t} \cup Nodes[t.left] \cup Nodes[t.right]
           /\ Ids(t) = {t.id} \cup Ids(t.left) \cup Ids(t.right)
           /\ Whole(t) => Whole(t.left) /\ Whole(t.right) /\ Sorted(t)
<1>1. t.left \in Dag /\ t.right \in Dag /\ t.op \in NodeOps /\ t.id \in Nat /\ t.val \in Nat
  BY DagTop, DagParts
<1>2. Nodes[t] = {t} \cup Nodes[t.left] \cup Nodes[t.right]
  BY NodesAre
<1> QED
  BY <1>1, <1>2 DEF Ids, Whole

\* What a statement is made of.
LEMMA StatementParts ==
    ASSUME NEW t, t.op \in NodeOps
    PROVE  /\ Statement(t)[1] = t.id /\ Statement(t)[2] = t.op
           /\ t.op = "val" => Statement(t)[3] = t.val
           /\ t.op = "neg" => Statement(t)[3] = t.right.id
           /\ t.op \notin {"val", "neg"} =>
                Statement(t)[3] = t.left.id /\ Statement(t)[4] = t.right.id
BY DEF Statement

\* The statements of a tree follow those of its subtrees.
LEMMA ReflectParts ==
    ASSUME NEW t \in Dag
    PROVE  Reflect[t] \in Seq(Statements)
<1> DEFINE S == {u \in Dag : Reflect[u] \in Seq(Statements)}
<1>1. Null \in S
  <2>1. Null \in Dag
    BY NullIsDag, TextAssumption
  <2>2. Reflect[Null] = <<>>
    BY <2>1, ReflectIs
  <2>3. <<>> \in Seq(Statements)
    OBVIOUS
  <2> QED
    BY <2>1, <2>2, <2>3
<1>2. ASSUME NEW u \in Dag \ {Null}, u.left \in S, u.right \in S PROVE u \in S
  <2>1. Reflect[u] = Reflect[u.left] \o Reflect[u.right] \o <<Statement(u)>>
    BY <1>2, ReflectIs
  <2>2. Statement(u) \in Statements
    BY DEF Statements
  <2> DEFINE e == Statement(u)
             a == Reflect[u.left]
             b == Reflect[u.right]
  <2>3. a \in Seq(Statements) /\ b \in Seq(Statements) /\ e \in Statements
    BY <1>2, <2>2
  <2> HIDE DEF e, a, b
  <2>4. a \o b \o <<e>> \in Seq(Statements)
    BY <2>3
  <2> QED
    BY <2>1, <2>4 DEF a, b, e
<1> HIDE DEF S
<1>3. Dag \subseteq S
  BY <1>1, <1>2, OverDags
<1> QED
  BY <1>3 DEF S

\* Where the statements of a tree stand in a program.
Stands(b, k, t) ==
  k + Len(Reflect[t]) <= Len(b) /\ \A m \in 1 .. Len(Reflect[t]) : b[k + m] = Reflect[t][m]

\* Those of its subtrees stand one after the other, and that of its root behind them.
LEMMA StandsParts ==
    ASSUME NEW t \in Dag \ {Null}, NEW b \in Seq(Statements), NEW k \in Nat, Stands(b, k, t),
           NEW n, n = k + Len(Reflect[t.left]),
           NEW m, m = n + Len(Reflect[t.right])
    PROVE  /\ n \in Nat /\ m \in Nat /\ k <= n /\ n <= m /\ m + 1 \in 1 .. Len(b)
           /\ k + Len(Reflect[t]) = m + 1
           /\ Stands(b, k, t.left) /\ Stands(b, n, t.right) /\ b[m + 1] = Statement(t)
<1> DEFINE u == Reflect[t.left]
           v == Reflect[t.right]
           e == Statement(t)
<1>1. Reflect[t] = u \o v \o <<e>>
  BY ReflectIs
<1>2. u \in Seq(Statements) /\ v \in Seq(Statements)
  BY TreeParts, ReflectParts
<1>3. k + Len(Reflect[t]) <= Len(b) /\ \A c \in 1 .. Len(Reflect[t]) : b[k + c] = Reflect[t][c]
  BY DEF Stands
<1>4. e \in Statements
  BY DEF Statements
<1>5. n = k + Len(u) /\ m = n + Len(v)
  OBVIOUS
<1> DEFINE w == Reflect[t]
<1> HIDE DEF u, v, e, w
<1>6. /\ Len(u) \in Nat /\ Len(v) \in Nat /\ Len(b) \in Nat /\ Len(w) = Len(u) + Len(v) + 1
      /\ \A c \in 1 .. Len(u) : w[c] = u[c]
      /\ \A c \in 1 .. Len(v) : w[Len(u) + c] = v[c]
      /\ w[Len(u) + Len(v) + 1] = e
  <2>1. w = u \o v \o <<e>>
    BY <1>1 DEF w
  <2> QED
    BY <1>2, <1>4, <2>1
<1>7. k + Len(w) <= Len(b) /\ \A c \in 1 .. Len(w) : b[k + c] = w[c]
  BY <1>3 DEF w
<1> DEFINE i == Len(u)
           j == Len(v)
           l == Len(b)
<1>8. i \in Nat /\ j \in Nat /\ l \in Nat /\ k + (i + j + 1) <= l /\ n = k + i /\ m = n + j
  BY <1>5, <1>6, <1>7
<1> HIDE DEF i, j, l
<1>9. /\ n \in Nat /\ m \in Nat /\ k <= n /\ n <= m /\ k + (i + j + 1) = m + 1
       /\ m + 1 \in 1 .. l
  <2>1. \A a, x, y, z \in Nat : a + (x + y + 1) <= z =>
          /\ a + x \in Nat /\ (a + x) + y \in Nat /\ a <= a + x /\ a + x <= (a + x) + y
          /\ a + (x + y + 1) = ((a + x) + y) + 1 /\ ((a + x) + y) + 1 \in 1 .. z
    OBVIOUS
  <2>2. /\ k + i \in Nat /\ (k + i) + j \in Nat /\ k <= k + i /\ k + i <= (k + i) + j
        /\ k + (i + j + 1) = ((k + i) + j) + 1 /\ ((k + i) + j) + 1 \in 1 .. l
    BY <1>8, <2>1
  <2>3. n = k + i /\ m = (k + i) + j
    BY <1>8
  <2> QED
    BY <2>2, <2>3
<1>10. /\ \A c \in 1 .. j : i + c \in 1 .. i + j + 1 /\ k + (i + c) = n + c
       /\ i + j + 1 \in 1 .. i + j + 1
  BY <1>8
<1>11. n \in Nat /\ m \in Nat /\ k <= n /\ n <= m /\ k + Len(w) = m + 1 /\ m + 1 \in 1 .. Len(b)
  BY <1>6, <1>9 DEF i, j, l
<1>12. k + Len(u) <= Len(b) /\ \A c \in 1 .. Len(u) : b[k + c] = u[c]
  <2>1. \A c \in 1 .. Len(u) : c \in 1 .. Len(w)
    BY <1>6
  <2> QED
    BY <1>5, <1>6, <1>7, <1>11, <2>1
<1>13. n + Len(v) <= Len(b) /\ \A c \in 1 .. Len(v) : b[n + c] = v[c]
  <2>1. \A c \in 1 .. Len(v) : Len(u) + c \in 1 .. Len(w) /\ k + (Len(u) + c) = n + c
    BY <1>6, <1>10 DEF i, j
  <2> QED
    BY <1>5, <1>6, <1>7, <1>11, <2>1, SMTT(30)
<1>14. b[m + 1] = e
  <2>1. Len(u) + Len(v) + 1 \in 1 .. Len(w) /\ k + (Len(u) + Len(v) + 1) = m + 1
    BY <1>6, <1>9, <1>10 DEF i, j
  <2> QED
    BY <1>6, <1>7, <2>1
<1> QED
  BY <1>11, <1>12, <1>13, <1>14 DEF Stands, u, v, e, w

\* What a compiler makes of a statement.
LEMMA AfterIs ==
    ASSUME NEW s, NEW st, NEW c, c = [ok |-> c.ok, env |-> c.env], c.ok \in BOOLEAN,
           NEW d, d = After(s, st, c)
    PROVE  /\ d = [ok |-> d.ok, env |-> d.env] /\ d.ok \in BOOLEAN
           /\ ~ (c.ok /\ Accepts(s, st, c.env)) => ~ d.ok
           /\ c.ok /\ Accepts(s, st, c.env) =>
                /\ d.ok /\ DOMAIN d.env = DOMAIN c.env \cup {st[1]}
                /\ d.env[st[1]] = Term(st, c.env)
                /\ \A w \in DOMAIN c.env : d.env[w] = c.env[w]
<1>1. CASE c.ok /\ Accepts(s, st, c.env)
  <2> DEFINE x == Declaring(c.env, st[1], Term(st, c.env))
  <2>1. d = [c EXCEPT !.env = x]
    BY <1>1 DEF After
  <2>2. st[1] \notin DOMAIN c.env
    BY <1>1 DEF Accepts
  <2>3. /\ DOMAIN x = DOMAIN c.env \cup {st[1]} /\ x[st[1]] = Term(st, c.env)
        /\ \A w \in DOMAIN c.env : x[w] = c.env[w]
    BY <2>2 DEF Declaring
  <2> HIDE DEF x
  <2>4. d = [ok |-> c.ok, env |-> x]
    BY <2>1
  <2> QED
    BY <1>1, <2>3, <2>4
<1>2. CASE ~ (c.ok /\ Accepts(s, st, c.env))
  <2>1. d = [c EXCEPT !.ok = FALSE]
    BY <1>2 DEF After
  <2>2. d = [ok |-> FALSE, env |-> c.env]
    BY <2>1
  <2> QED
    BY <1>2, <2>2
<1> QED
  BY <1>1, <1>2

\* The right side of the definition in Meaning.
CompileStep(s, b, g, k) ==
  IF k = 0 THEN [ok |-> TRUE, env |-> <<>>] ELSE After(s, b[k], g[k - 1])

Compiling(s, b, g) == g = [k \in 0 .. Len(b) |-> CompileStep(s, b, g, k)]

\* Meaning is what its definition says of it.
LEMMA MeaningIs ==
    ASSUME NEW s, NEW b \in Seq(Statements), NEW v
    PROVE  \E g : /\ Compiling(s, b, g)
                  /\ Meaning(s, [body |-> b, returns |-> v])
                     = IF g[Len(b)].ok /\ v \in DOMAIN g[Len(b)].env
                       THEN g[Len(b)].env[v] ELSE NoProgram
<1> DEFINE S == {n \in Nat : \E g : g = [k \in 0 .. n |-> CompileStep(s, b, g, k)]}
           m == Len(b)
<1>1. m \in Nat
  OBVIOUS
<1> HIDE DEF m
<1>2. 0 \in S
  <2> DEFINE g == [k \in 0 .. 0 |-> [ok |-> TRUE, env |-> <<>>]]
  <2>1. g = [k \in 0 .. 0 |-> CompileStep(s, b, g, k)]
    BY DEF CompileStep
  <2> QED
    BY <2>1
<1>3. \A n \in 0 .. m - 1 : n \in S => n + 1 \in S
  <2> SUFFICES ASSUME NEW n \in 0 .. m - 1, n \in S PROVE n + 1 \in S
    OBVIOUS
  <2>1. PICK g : g = [k \in 0 .. n |-> CompileStep(s, b, g, k)]
    OBVIOUS
  <2> DEFINE h == [k \in 0 .. n + 1 |-> CompileStep(s, b, g, k)]
  <2>2. \A k \in 0 .. n : h[k] = g[k]
    <3> TAKE k \in 0 .. n
    <3>1. k \in 0 .. n + 1
      BY <1>1
    <3>2. g[k] = CompileStep(s, b, g, k)
      BY <2>1
    <3>3. h[k] = CompileStep(s, b, g, k)
      BY <3>1
    <3> QED
      BY <3>2, <3>3
  <2>3. \A k \in 0 .. n + 1 : CompileStep(s, b, g, k) = CompileStep(s, b, h, k)
    <3> TAKE k \in 0 .. n + 1
    <3>1. CASE k = 0
      BY <3>1 DEF CompileStep
    <3>2. CASE k # 0
      <4>1. k - 1 \in 0 .. n
        BY <1>1, <3>2
      <4>2. h[k - 1] = g[k - 1]
        BY <2>2, <4>1
      <4> HIDE DEF h
      <4> QED
        BY <3>2, <4>2 DEF CompileStep
    <3> QED
      BY <3>1, <3>2
  <2>4. h = [k \in 0 .. n + 1 |-> CompileStep(s, b, h, k)]
    BY <2>3
  <2> HIDE DEF h
  <2> QED
    BY <1>1, <2>4
<1>4. m \in S
  <2> HIDE DEF S
  <2>1. 0 .. m \subseteq S
    BY <1>1, <1>2, <1>3, Upwards
  <2> QED
    BY <1>1, <2>1
<1>5. \E g : g = [k \in 0 .. m |-> CompileStep(s, b, g, k)]
  BY <1>4
<1> DEFINE all == CHOOSE g : g = [k \in 0 .. m |-> CompileStep(s, b, g, k)]
<1>6. Meaning(s, [body |-> b, returns |-> v])
      = IF all[m].ok /\ v \in DOMAIN all[m].env THEN all[m].env[v] ELSE NoProgram
  BY DEF Meaning, CompileStep, m
<1>7. all = [k \in 0 .. m |-> CompileStep(s, b, all, k)]
  BY <1>5
<1> HIDE DEF all
<1> QED
  BY <1>6, <1>7 DEF m, Compiling

\* What is compiled up to each statement.
LEMMA CompiledAre ==
    ASSUME NEW s, NEW b \in Seq(Statements), NEW g, Compiling(s, b, g)
    PROVE  /\ g[0] = [ok |-> TRUE, env |-> <<>>]
           /\ \A k \in 0 .. Len(b) - 1 : g[k + 1] = After(s, b[k + 1], g[k])
           /\ \A k \in 0 .. Len(b) : g[k] = [ok |-> g[k].ok, env |-> g[k].env] /\ g[k].ok \in BOOLEAN
<1>1. Len(b) \in Nat
  OBVIOUS
<1> DEFINE m == Len(b)
<1>2. \A k \in 0 .. m : g[k] = CompileStep(s, b, g, k)
  BY DEF Compiling
<1> HIDE DEF m
<1>3. g[0] = [ok |-> TRUE, env |-> <<>>]
  BY <1>1, <1>2 DEF CompileStep, m
<1>4. \A k \in 0 .. m - 1 : g[k + 1] = After(s, b[k + 1], g[k])
  <2> TAKE k \in 0 .. m - 1
  <2>1. k + 1 \in 0 .. m /\ k + 1 # 0 /\ (k + 1) - 1 = k
    BY <1>1 DEF m
  <2> QED
    BY <1>2, <2>1 DEF CompileStep
<1> DEFINE Fine(c) == c = [ok |-> c.ok, env |-> c.env] /\ c.ok \in BOOLEAN
           S == {k \in Nat : k <= m => Fine(g[k])}
<1>5. 0 \in S
  <2>1. g[0].ok = TRUE /\ g[0].env = <<>>
    BY <1>3
  <2> QED
    BY <1>3, <2>1
<1>6. \A k \in 0 .. m - 1 : k \in S => k + 1 \in S
  <2> SUFFICES ASSUME NEW k \in 0 .. m - 1, Fine(g[k]) PROVE Fine(g[k + 1])
    BY <1>1 DEF m
  <2> QED
    BY <1>4, AfterIs
<1>7. \A k \in 0 .. m : Fine(g[k])
  <2> HIDE DEF S
  <2>1. 0 .. m \subseteq S
    BY <1>1, <1>5, <1>6, Upwards DEF m
  <2> HIDE DEF Fine
  <2> QED
    BY <1>1, <2>1 DEF m, S
<1> QED
  BY <1>3, <1>4, <1>7 DEF m

\* What is wrong once stays wrong.
LEMMA StaysWrong ==
    ASSUME NEW s, NEW b \in Seq(Statements), NEW g, Compiling(s, b, g),
           NEW k \in 0 .. Len(b), ~ g[k].ok, NEW n \in 0 .. Len(b), k <= n
    PROVE  ~ g[n].ok
<1> DEFINE m == Len(b)
           S == {i \in Nat : k + i <= m => ~ g[k + i].ok}
<1>1. m \in Nat
  OBVIOUS
<1>2. \A i \in 0 .. m - 1 : g[i + 1] = After(s, b[i + 1], g[i])
  BY CompiledAre
<1>3. \A i \in 0 .. m : g[i] = [ok |-> g[i].ok, env |-> g[i].env] /\ g[i].ok \in BOOLEAN
  BY CompiledAre
<1> HIDE DEF m
<1>4. 0 \in S
  BY <1>1 DEF m
<1>5. \A i \in 0 .. m - 1 : i \in S => i + 1 \in S
  <2> SUFFICES ASSUME NEW i \in 0 .. m - 1, k + (i + 1) <= m, ~ g[k + i].ok
               PROVE  ~ g[k + (i + 1)].ok
    BY <1>1 DEF m
  <2> DEFINE j == k + i
  <2>1. j \in 0 .. m - 1 /\ j \in 0 .. m /\ k + (i + 1) = j + 1
    BY <1>1 DEF m
  <2>2. ~ g[j].ok
    OBVIOUS
  <2> HIDE DEF j
  <2>3. g[j + 1] = After(s, b[j + 1], g[j])
    BY <1>2, <2>1
  <2>4. ~ g[j + 1].ok
    <3> DEFINE c == g[j]
               d == g[j + 1]
               st == b[j + 1]
    <3>1. c = [ok |-> c.ok, env |-> c.env] /\ c.ok \in BOOLEAN /\ d = After(s, st, c) /\ ~ c.ok
      BY <1>3, <2>1, <2>2, <2>3
    <3> HIDE DEF c, d, st
    <3>2. ~ d.ok
      BY <3>1, AfterIs
    <3> QED
      BY <3>2 DEF d
  <2> QED
    BY <2>1, <2>4
<1> DEFINE i == n - k
<1>6. i \in 0 .. m /\ k + i = n /\ k + i <= m
  BY <1>1 DEF m
<1> HIDE DEF i
<1>7. i \in S
  <2> HIDE DEF S
  <2>1. 0 .. m \subseteq S
    BY <1>1, <1>4, <1>5, Upwards
  <2> QED
    BY <1>6, <2>1
<1> QED
  BY <1>6, <1>7

\* What the statements of a tree add: the variables of its nodes, that of the root
\* with the term of the tree.  One number without a literal is enough to fail.
Adds(s, t, c, d) ==
  IF \E v \in Leaves(t) : s[v] = "i" THEN ~ d.ok
  ELSE /\ d.ok /\ DOMAIN d.env = DOMAIN c.env \cup Ids(t)
       /\ \A w \in DOMAIN c.env : d.env[w] = c.env[w]
       /\ t # Null => d.env[t.id] = Stripped[t]

\* What the statement of a node does after those of its subtrees.
LEMMA NodeAdds ==
    ASSUME NEW s, NEW t \in Dag \ {Null}, Whole(t),
           NEW a, a.ok, t.id \notin DOMAIN a.env,
           NEW b, Adds(s, t.left, a, b), NEW c, Adds(s, t.right, b, c),
           c = [ok |-> c.ok, env |-> c.env], c.ok \in BOOLEAN,
           \A v \in Leaves(t.left) : s[v] # "i", \A v \in Leaves(t.right) : s[v] # "i",
           NEW d, d = After(s, Statement(t), c)
    PROVE  Adds(s, t, a, d)
<1> DEFINE l == t.left
           r == t.right
           st == Statement(t)
<1>1. /\ l \in Dag /\ r \in Dag /\ t.op \in NodeOps /\ t.id \in Nat
      /\ Ids(t) = {t.id} \cup Ids(l) \cup Ids(r)
      /\ Whole(l) /\ Whole(r) /\ Sorted(t)
  BY TreeParts
<1>2. /\ t.op = "val" => l = Null /\ r = Null
      /\ t.op = "neg" => l = Null /\ r # Null
      /\ t.op \notin {"val", "neg"} => l # Null /\ r # Null
      /\ \A n \in Nodes[l] : n.id < t.id
      /\ \A n \in Nodes[r] : t.id < n.id
  BY <1>1 DEF Sorted
<1>3. t.id \notin Ids(l) /\ t.id \notin Ids(r)
  <2>1. \A n \in Nodes[l] : n.id \in Nat /\ n.id # t.id
    BY <1>1, <1>2, NodesIn
  <2>2. \A n \in Nodes[r] : n.id \in Nat /\ n.id # t.id
    BY <1>1, <1>2, NodesIn
  <2> QED
    BY <2>1, <2>2 DEF Ids
<1>4. Leaves(t) = (IF t.op = "val" THEN {t.val} ELSE {}) \cup Leaves(l) \cup Leaves(r)
  BY <1>1, NodeIsWhole
<1>5. /\ b.ok /\ DOMAIN b.env = DOMAIN a.env \cup Ids(l)
      /\ \A w \in DOMAIN a.env : b.env[w] = a.env[w]
      /\ l # Null => b.env[l.id] = Stripped[l]
  BY DEF Adds
<1>6. /\ c.ok /\ DOMAIN c.env = DOMAIN b.env \cup Ids(r)
      /\ \A w \in DOMAIN b.env : c.env[w] = b.env[w]
      /\ r # Null => c.env[r.id] = Stripped[r]
  BY DEF Adds
<1>7. /\ l # Null => l.id \in Ids(l)
      /\ r # Null => r.id \in Ids(r)
  BY <1>1, TreeParts
<1>8. /\ l # Null => l.id \in DOMAIN c.env /\ c.env[l.id] = Stripped[l]
      /\ r # Null => r.id \in DOMAIN c.env /\ c.env[r.id] = Stripped[r]
  BY <1>5, <1>6, <1>7
<1>9. t.id \notin DOMAIN c.env
  BY <1>3, <1>5, <1>6
<1>10. /\ st[1] = t.id /\ st[2] = t.op
       /\ t.op = "val" => st[3] = t.val
       /\ t.op = "neg" => st[3] = r.id
       /\ t.op \notin {"val", "neg"} => st[3] = l.id /\ st[4] = r.id
  BY <1>1, StatementParts
<1>11. Stripped[t] = IF t.op = "val" THEN <<"val", t.val>>
                     ELSE IF t.op = "neg" THEN <<"neg", Stripped[r]>>
                     ELSE <<t.op, Stripped[l], Stripped[r]>>
  BY StrippedIs
<1> HIDE DEF st, l, r
<1>12. d = After(s, st, c)
  BY DEF st
<1>13. CASE t.op = "val" /\ s[t.val] = "i"
  <2>1. ~ Accepts(s, st, c.env)
    BY <1>10, <1>13 DEF Accepts
  <2>2. ~ d.ok
    BY <1>12, <2>1, AfterIs
  <2>3. \E v \in Leaves(t) : s[v] = "i"
    BY <1>4, <1>13
  <2> QED
    BY <2>2, <2>3 DEF Adds
<1>14. CASE ~ (t.op = "val" /\ s[t.val] = "i")
  <2>1. Accepts(s, st, c.env)
    BY <1>2, <1>8, <1>9, <1>10, <1>14 DEF Accepts
  <2>2. Term(st, c.env) = Stripped[t]
    BY <1>2, <1>8, <1>10, <1>11 DEF Term
  <2>3. /\ d.ok /\ DOMAIN d.env = DOMAIN c.env \cup {st[1]}
        /\ d.env[st[1]] = Term(st, c.env)
        /\ \A w \in DOMAIN c.env : d.env[w] = c.env[w]
    <3>1. /\ c = [ok |-> c.ok, env |-> c.env] /\ c.ok \in BOOLEAN /\ d = After(s, st, c)
          /\ c.ok /\ Accepts(s, st, c.env)
      BY <1>6, <1>12, <2>1
    <3> HIDE DEF st
    <3> QED
      BY <3>1, AfterIs
  <2>4. ~ \E v \in Leaves(t) : s[v] = "i"
    BY <1>4, <1>14 DEF l, r
  <2>5. DOMAIN d.env = DOMAIN a.env \cup Ids(t)
    BY <1>1, <1>5, <1>6, <1>10, <2>3 DEF l, r
  <2>6. \A w \in DOMAIN a.env : d.env[w] = a.env[w]
    BY <1>5, <1>6, <2>3
  <2>7. d.env[t.id] = Stripped[t]
    BY <1>10, <2>2, <2>3
  <2> QED
    BY <2>3, <2>4, <2>5, <2>6, <2>7 DEF Adds
<1> QED
  BY <1>13, <1>14

\* The statements of a tree, wherever they stand.
LEMMA TreeAdds ==
    ASSUME NEW s, NEW b \in Seq(Statements), NEW g, Compiling(s, b, g)
    PROVE  \A t \in Dag : \A k \in Nat :
             /\ Stands(b, k, t) /\ Whole(t) /\ g[k].ok /\ Ids(t) \cap DOMAIN g[k].env = {}
             => Adds(s, t, g[k], g[k + Len(Reflect[t])])
<1> DEFINE Added(t) == \A k \in Nat :
             /\ Stands(b, k, t) /\ Whole(t) /\ g[k].ok /\ Ids(t) \cap DOMAIN g[k].env = {}
             => Adds(s, t, g[k], g[k + Len(Reflect[t])])
           S == {t \in Dag : Added(t)}
<1>1. Len(b) \in Nat /\ Null \in Dag
  BY NullIsDag, TextAssumption
<1>2. Null \in S
  <2> SUFFICES ASSUME NEW k \in Nat, g[k].ok PROVE Adds(s, Null, g[k], g[k + Len(Reflect[Null])])
    BY <1>1
  <2>1. Reflect[Null] = <<>>
    BY <1>1, ReflectIs
  <2>2. Len(<<>>) = 0 /\ k + 0 = k
    OBVIOUS
  <2>3. k + Len(Reflect[Null]) = k
    BY <2>1, <2>2
  <2>4. Leaves(Null) = {} /\ Ids(Null) = {}
    BY NullIsWhole DEF Ids
  <2>5. Adds(s, Null, g[k], g[k])
    BY <2>4 DEF Adds
  <2> QED
    BY <2>5, <2>3
<1>3. ASSUME NEW t \in Dag \ {Null}, Added(t.left), Added(t.right), NEW k \in Nat,
             Stands(b, k, t), Whole(t), g[k].ok, Ids(t) \cap DOMAIN g[k].env = {}
      PROVE  Adds(s, t, g[k], g[k + Len(Reflect[t])])
  <2> DEFINE l == t.left
             r == t.right
             n == k + Len(Reflect[l])
             m == n + Len(Reflect[r])
  <2>1. /\ l \in Dag /\ r \in Dag /\ t.id \in Nat
        /\ Ids(t) = {t.id} \cup Ids(l) \cup Ids(r)
        /\ Whole(l) /\ Whole(r) /\ Sorted(t)
    BY <1>3, TreeParts
  <2>2. /\ n \in Nat /\ m \in Nat /\ k <= n /\ n <= m /\ m + 1 \in 1 .. Len(b)
        /\ k + Len(Reflect[t]) = m + 1
        /\ Stands(b, k, l) /\ Stands(b, n, r) /\ b[m + 1] = Statement(t)
    <3>1. n = k + Len(Reflect[t.left]) /\ m = n + Len(Reflect[t.right])
      OBVIOUS
    <3> HIDE DEF n, m, Added
    <3>2. /\ n \in Nat /\ m \in Nat /\ k <= n /\ n <= m /\ m + 1 \in 1 .. Len(b)
          /\ k + Len(Reflect[t]) = m + 1
          /\ Stands(b, k, t.left) /\ Stands(b, n, t.right) /\ b[m + 1] = Statement(t)
      BY <1>3, <3>1, StandsParts, SMTT(30)
    <3> QED
      BY <3>2
  <2>3. Adds(s, l, g[k], g[n])
    <3>1. Ids(l) \cap DOMAIN g[k].env = {}
      BY <1>3, <2>1
    <3> QED
      BY <1>3, <2>1, <2>2, <3>1
  <2>4. Leaves(t) = (IF t.op = "val" THEN {t.val} ELSE {}) \cup Leaves(l) \cup Leaves(r)
    BY <1>3, <2>1, NodeIsWhole
  <2>5. \A i \in 0 .. Len(b) : g[i] = [ok |-> g[i].ok, env |-> g[i].env] /\ g[i].ok \in BOOLEAN
    BY CompiledAre
  <2>6. g[m + 1] = After(s, Statement(t), g[m])
    <3> HIDE DEF m
    <3>1. m \in 0 .. Len(b) - 1
      BY <1>1, <2>2
    <3>2. \A i \in 0 .. Len(b) - 1 : g[i + 1] = After(s, b[i + 1], g[i])
      BY CompiledAre
    <3>3. g[m + 1] = After(s, b[m + 1], g[m])
      BY <3>1, <3>2
    <3> QED
      BY <2>2, <3>3
  <2>7. n \in 0 .. Len(b) /\ m \in 0 .. Len(b) /\ m + 1 \in 0 .. Len(b) /\ n <= m + 1
    <3> HIDE DEF n, m
    <3> QED
      BY <1>1, <2>2
  <2> HIDE DEF n, m
  <2>8. CASE \E v \in Leaves(l) : s[v] = "i"
    <3>1. ~ g[n].ok
      BY <2>3, <2>8 DEF Adds
    <3>2. ~ g[m + 1].ok
      BY <2>7, <3>1, StaysWrong
    <3>3. \E v \in Leaves(t) : s[v] = "i"
      BY <2>4, <2>8
    <3> QED
      BY <2>2, <3>2, <3>3 DEF Adds
  <2>9. CASE ~ \E v \in Leaves(l) : s[v] = "i"
    <3>1. /\ g[n].ok /\ DOMAIN g[n].env = DOMAIN g[k].env \cup Ids(l)
      BY <2>3, <2>9 DEF Adds
    <3>2. Ids(r) \cap Ids(l) = {}
      <4>1. \A x \in Nodes[l] : x.id \in Nat /\ x.id < t.id
        BY <2>1, NodesIn DEF Sorted
      <4>2. \A x \in Nodes[r] : x.id \in Nat /\ t.id < x.id
        BY <2>1, NodesIn DEF Sorted
      <4>3. \A x \in Nodes[l], y \in Nodes[r] : x.id # y.id
        BY <2>1, <4>1, <4>2
      <4> QED
        BY <4>3 DEF Ids
    <3>3. Ids(r) \cap DOMAIN g[n].env = {}
      BY <1>3, <2>1, <3>1, <3>2
    <3>4. n + Len(Reflect[r]) = m
      BY DEF m
    <3>5. Adds(s, r, g[n], g[m])
      BY <1>3, <2>1, <2>2, <3>1, <3>3, <3>4
    <3>6. CASE \E v \in Leaves(r) : s[v] = "i"
      <4>1. ~ g[m].ok
        BY <3>5, <3>6 DEF Adds
      <4>2. m <= m + 1
        BY <2>2
      <4>3. ~ g[m + 1].ok
        BY <2>7, <4>1, <4>2, StaysWrong
      <4>4. \E v \in Leaves(t) : s[v] = "i"
        BY <2>4, <3>6
      <4> QED
        BY <2>2, <4>3, <4>4 DEF Adds
    <3>7. CASE ~ \E v \in Leaves(r) : s[v] = "i"
      <4> DEFINE x == g[k]
                 y == g[n]
                 z == g[m]
                 d == g[m + 1]
      <4>1. x.ok /\ t.id \notin DOMAIN x.env
        BY <1>3, <2>1
      <4>2. /\ Adds(s, t.left, x, y) /\ Adds(s, t.right, y, z)
            /\ z = [ok |-> z.ok, env |-> z.env] /\ z.ok \in BOOLEAN
            /\ \A v \in Leaves(t.left) : s[v] # "i"
            /\ \A v \in Leaves(t.right) : s[v] # "i"
            /\ d = After(s, Statement(t), z)
        BY <2>3, <2>5, <2>6, <2>7, <2>9, <3>5, <3>7
      <4>3. t \in Dag \ {Null} /\ Whole(t)
        BY <1>3
      <4> HIDE DEF x, y, z, d, l, r
      <4>4. Adds(s, t, x, d)
        BY <4>1, <4>2, <4>3, NodeAdds
      <4> QED
        BY <2>2, <4>4 DEF x, d
    <3> QED
      BY <3>6, <3>7
  <2> QED
    BY <2>8, <2>9
<1>4. \A t \in Dag \ {Null} : t.left \in S /\ t.right \in S => t \in S
  BY <1>3
<1> HIDE DEF S
<1>5. Dag \subseteq S
  BY <1>2, <1>4, OverDags
<1> QED
  BY <1>5 DEF S

\* The C function that the code generator writes for a whole tree computes the term
\* of the tree, and a compiler rejects it for a number without a literal only.
THEOREM CodeIsRight ==
    ASSUME NEW s, NEW t \in Dag \ {Null}, Whole(t)
    PROVE  Meaning(s, Generate(t))
           = IF \E v \in Leaves(t) : s[v] = "i" THEN NoProgram ELSE Stripped[t]
<1> DEFINE b == Reflect[t]
<1>1. b \in Seq(Statements) /\ Len(b) \in Nat
  BY ReflectParts
<1>2. Generate(t) = [body |-> b, returns |-> t.id]
  BY DEF Generate
<1>3. t.id \in Ids(t)
  BY TreeParts
<1>4. Stands(b, 0, t) /\ 0 + Len(b) = Len(b)
  BY <1>1 DEF Stands
<1> DEFINE m == Len(b)
<1>5. b = Reflect[t] /\ Len(Reflect[t]) = m
  OBVIOUS
<1> HIDE DEF b
<1>6. PICK g : /\ Compiling(s, b, g)
               /\ Meaning(s, [body |-> b, returns |-> t.id])
                  = IF g[m].ok /\ t.id \in DOMAIN g[m].env THEN g[m].env[t.id] ELSE NoProgram
  BY <1>1, MeaningIs
<1>7. g[0] = [ok |-> TRUE, env |-> <<>>]
  BY <1>1, <1>6, CompiledAre
<1>8. g[0].ok /\ DOMAIN g[0].env = {}
  BY <1>7
<1>9. Adds(s, t, g[0], g[m])
  <2>1. Ids(t) \cap DOMAIN g[0].env = {} /\ 0 \in Nat /\ 0 + Len(Reflect[t]) = m
    BY <1>4, <1>5, <1>8
  <2>2. Adds(s, t, g[0], g[0 + Len(Reflect[t])])
    BY <1>1, <1>4, <1>6, <1>8, <2>1, TreeAdds
  <2> QED
    BY <2>1, <2>2
<1> QED
  BY <1>2, <1>3, <1>6, <1>8, <1>9 DEF Adds

\* No term is the absence of one.
LEMMA StrippedIsTerm ==
    ASSUME NEW t \in Dag \ {Null}
    PROVE  Stripped[t] # NoProgram
<1>1. NoProgram = <<"none">>
  BY DEF NoProgram
<1>2. Stripped[t] = IF t.op = "val" THEN <<"val", t.val>>
                    ELSE IF t.op = "neg" THEN <<"neg", Stripped[t.right]>>
                    ELSE <<t.op, Stripped[t.left], Stripped[t.right]>>
  BY StrippedIs
<1>3. \A x, y, z, v : <<x, y>> # <<v>> /\ <<x, y, z>> # <<v>>
  OBVIOUS
<1> QED
  BY <1>1, <1>2, <1>3

-----------------------------------------------------------------------------
(* The processes: where they are, and what they have.                      *)

\* Of a process, and of the last run.
LEMMA ProcessParts ==
    ASSUME run \in 0 .. Len(Inputs)
    PROVE  /\ Runs = 1 .. Len(Inputs) /\ Len(Inputs) \in Nat
           /\ \A p \in Processes : /\ p = <<p[1], p[2]>> /\ p[2] \in Runs
                                   /\ p[1] = "child" <=> p[1] # "main"
           /\ \A r \in Runs : <<"child", r>> \in Processes /\ <<"main", r>> \in Processes
           /\ run > 0 => /\ run \in Runs /\ Main \in Processes /\ Child \in Processes
                         /\ Main # Child /\ Main[1] = "main" /\ Child[1] = "child"
                         /\ Main[2] = run /\ Child[2] = run
<1>1. Runs = 1 .. Len(Inputs) /\ Len(Inputs) \in Nat
  BY CalculatorAssumption DEF Runs
<1>2. \A p \in Processes : /\ p = <<p[1], p[2]>> /\ p[2] \in Runs
                           /\ p[1] = "child" <=> p[1] # "main"
  BY DEF Processes
<1>3. \A r \in Runs : <<"child", r>> \in Processes /\ <<"main", r>> \in Processes
  BY DEF Processes
<1>4. run > 0 => run \in Runs
  BY <1>1
<1> QED
  BY <1>1, <1>2, <1>3, <1>4 DEF Main, Child

\* The points of the program between which the others can run.
Points ==
  {"none", "write", "fork", "wait", "exec", "compile", "link", "load", "print", "delete"}

\* What each variable is made of.
Types ==
  /\ run \in 0 .. Len(Inputs) /\ clean \in BOOLEAN
  /\ pc \in [Processes -> Points]
  /\ handle = [p \in Processes |-> handle[p]] /\ object = [r \in Runs |-> object[r]]
  /\ status \in {"none", "running", "aborted", "rejected", "crashed", "failed", "killed", "done"}
  /\ source = [text |-> source.text, term |-> source.term]
  /\ faults = [all |-> faults.all, here |-> faults.here]
  /\ faults.all \in 0 .. MaxFaults /\ faults.here \in BOOLEAN
  /\ run > 0 => text \in Texts
  /\ run = 0 => library = Nothing /\ printed = <<>>

\* Where a process can be, and what it has there.  Of the earlier runs only children
\* are left.
Placed(p) ==
  /\ pc[p] \in {"write", "fork", "wait"} => p = Main
  /\ pc[p] \in {"exec", "compile", "link"} => p[1] = "child"
  /\ Alive(p) => p = Main \/ (p[1] = "child" /\ p[2] <= run)
  /\ handle[p] # Nothing <=> pc[p] \in {"print", "delete"}
  /\ p[1] = "child" => (object[p[2]] # Nothing <=> pc[p] = "link")

MainPlaced ==
  run > 0 =>
    /\ status = "running" <=> Alive(Main)
    /\ unit # Nothing <=> pc[Main] = "write"
    /\ pc[Main] \in {"write", "fork"} => pc[Child] = "none"

PlacesInv == Types /\ (\A p \in Processes : Placed(p)) /\ MainPlaced

\* What the parser and the code generator have made of the text.
UnitRight ==
  run > 0 /\ pc[Main] = "write" =>
    /\ TermsOf[text] = {unit.tree} /\ unit.tree # NoProgram
    /\ unit.term = IF "i" \in ToSet(text) THEN NoProgram ELSE unit.tree

Right(x) == x.text = text /\ TermsOf[text] = {x.term}

\* In a clean run there are its main process and its child only, and whatever is
\* written, compiled, loaded or printed is right.
CleanState ==
  clean /\ run > 0 =>
    /\ \A p \in Processes \ {Main, Child} : pc[p] = "none"
    /\ pc[Child] \in {"none", "exec", "compile", "link", "load"}
    /\ pc[Main] \in {"load", "print", "delete"} => pc[Child] = "none"
    /\ pc[Main] \in {"write", "fork"} \/ pc[Child] # "none" => library = Nothing
    /\ pc[Main] = "none" /\ status \notin {"killed", "failed"} =>
         pc[Child] = "none" /\ library = Nothing
    /\ pc[Main] = "fork" \/ pc[Child] \in {"exec", "compile"} =>
         source.term = NoProgram \/ Right(source)
    /\ object[run] # Nothing => Right(object[run])
    /\ library # Nothing => Right(library)
    /\ handle[Main] # Nothing => Right(handle[Main])
    /\ pc[Main] \notin {"delete", "none"} => printed = <<>>
    /\ Len(printed) <= 1 /\ \A k \in DOMAIN printed : Right(printed[k])

\* With nothing failing and no number without a literal, it comes to have its library.
Progress ==
  clean /\ run > 0 /\ ~ faults.here /\ "i" \notin ToSet(text) =>
    /\ pc[Main] = "fork" => source.term # NoProgram
    /\ pc[Main] = "wait" =>
         \/ pc[Child] \in {"exec", "compile"} /\ source.term # NoProgram
         \/ pc[Child] = "link"
         \/ pc[Child] = "none" /\ library # Nothing
    /\ pc[Main] = "load" => library # Nothing

MeaningInv == UnitRight /\ ParserFollowsGrammar /\ CodeMeansText /\ CleanState /\ Progress

\* At the beginning no run was started.
LEMMA InitRight == Init => PlacesInv /\ MeaningInv
<1> SUFFICES ASSUME Init PROVE PlacesInv /\ MeaningInv
  OBVIOUS
<1>1. run = 0 /\ MaxFaults \in Nat /\ Len(Inputs) \in Nat
  BY CalculatorAssumption DEF Init, Runs
<1>2. ~ (run > 0)
  BY <1>1
<1>3. Types
  BY <1>1, <1>2 DEF Init, Types, Points, NoSource
<1>4. ASSUME NEW p \in Processes PROVE Placed(p)
  <2>1. p[1] = "child" => p[2] \in Runs
    BY <1>1, ProcessParts
  <2> QED
    BY <1>1, <2>1 DEF Init, Placed, Alive, Nothing
<1> QED
  BY <1>2, <1>3, <1>4
     DEF PlacesInv, MainPlaced, MeaningInv, UnitRight, ParserFollowsGrammar, CodeMeansText, CleanState,
         Progress

\* A type invariant is part of it.
LEMMA InvIsTyped == PlacesInv => TypeOK
<1> SUFFICES ASSUME PlacesInv PROVE TypeOK
  OBVIOUS
<1>1. \A r \in Runs : <<"child", r>> \in Processes /\ Placed(<<"child", r>>)
  BY ProcessParts DEF PlacesInv, Types
<1>2. \A r \in Runs : object[r] # Nothing <=> pc[<<"child", r>>] = "link"
  <2> SUFFICES ASSUME NEW r \in Runs PROVE object[r] # Nothing <=> pc[<<"child", r>>] = "link"
    OBVIOUS
  <2> DEFINE c == <<"child", r>>
  <2>1. c[1] = "child" /\ c[2] = r /\ Placed(c)
    BY <1>1
  <2> QED
    BY <2>1 DEF Placed
<1>3. \A p \in Processes : handle[p] # Nothing <=> pc[p] \in {"print", "delete"}
  BY DEF PlacesInv, Placed
<1>4. faults.all \in 0 .. MaxFaults /\ {faults.here, clean} \subseteq BOOLEAN
  BY DEF PlacesInv, Types
<1>5. run > 0 => (status = "running" <=> Alive(Main)) /\ (unit # Nothing <=> pc[Main] = "write")
  BY DEF PlacesInv, MainPlaced
<1>6. /\ run \in 0 .. Len(Inputs)
      /\ status \in {"none", "running", "aborted", "rejected", "crashed", "failed", "killed", "done"}
      /\ pc \in [Processes -> {"none", "write", "fork", "wait", "exec", "compile", "link",
                           "load", "print", "delete"}]
  BY DEF PlacesInv, Types, Points
<1> QED
  BY <1>2, <1>3, <1>4, <1>5, <1>6 DEF TypeOK

\* Moved: a process other than p is where it was, with what it had.
Same(p) ==
  /\ pc'[p] = pc[p] /\ handle'[p] = handle[p]
  /\ p[1] = "child" => object'[p[2]] = object[p[2]]

\* Where no run begins, a process that does not move is placed as before.
LEMMA OthersStay ==
    ASSUME PlacesInv, run' = run, Types', MainPlaced', \A p \in Processes : Placed(p)' \/ Same(p)
    PROVE  PlacesInv'
<1>1. ASSUME NEW p \in Processes PROVE Placed(p)'
  <2>1. Main' = Main /\ Placed(p) /\ (Placed(p)' \/ Same(p))
    BY DEF Main, PlacesInv
  <2> QED
    BY <2>1 DEF Placed, Same, Alive
<1>2. Processes' = Processes
  BY DEF Processes, Runs
<1> QED
  BY <1>1, <1>2 DEF PlacesInv

\* A failure is counted.
LEMMA FaultParts ==
    ASSUME Types, Fault \/ NoFault
    PROVE  /\ faults' = [all |-> faults'.all, here |-> faults'.here]
           /\ faults'.all \in 0 .. MaxFaults /\ faults'.here \in BOOLEAN
<1>1. MaxFaults \in Nat
  BY CalculatorAssumption
<1>2. CASE NoFault
  BY <1>2 DEF Types, NoFault
<1>3. CASE Fault
  <2>1. \A n, m \in Nat : n \in 0 .. m /\ n < m => n + 1 \in 0 .. m
    OBVIOUS
  <2>2. faults.all \in Nat /\ faults.all \in 0 .. MaxFaults /\ faults.all < MaxFaults
    BY <1>1, <1>3 DEF Types, Fault
  <2>3. faults.all + 1 \in 0 .. MaxFaults
    BY <1>1, <2>1, <2>2
  <2>4. faults' = [all |-> faults.all + 1, here |-> TRUE]
    BY <1>3 DEF Fault
  <2> QED
    BY <2>3, <2>4
<1> QED
  BY <1>2, <1>3

\* What holds of a process that moves.
LEMMA MoverParts ==
    ASSUME PlacesInv, NEW p \in Processes, Alive(p)
    PROVE  /\ run > 0 /\ run \in Runs /\ Main \in Processes /\ Child \in Processes
           /\ Main # Child /\ Main[1] = "main" /\ Child[1] = "child"
           /\ Main[2] = run /\ Child[2] = run
           /\ p[2] \in Runs /\ p = <<p[1], p[2]>>
           /\ Types /\ Placed(p) /\ Placed(Main) /\ Placed(Child) /\ MainPlaced
           /\ \A q \in Processes : q[1] = "child" => q[2] \in Runs /\ (q # p => q[2] # p[2] \/ p[1] # "child")
<1>1. run \in 0 .. Len(Inputs) /\ Placed(p) /\ Types /\ MainPlaced
  BY DEF PlacesInv, Types
<1>2. p[2] \in 1 .. Len(Inputs) /\ Len(Inputs) \in Nat
  BY <1>1, ProcessParts
<1>3. run > 0
  <2>1. CASE p = Main
    BY <1>1, <1>2, <2>1 DEF Main
  <2>2. CASE p[2] <= run
    BY <1>1, <1>2, <2>2
  <2> QED
    BY <1>1, <2>1, <2>2 DEF Placed
<1>4. /\ run \in Runs /\ Main \in Processes /\ Child \in Processes
      /\ Main # Child /\ Main[1] = "main" /\ Child[1] = "child"
      /\ Main[2] = run /\ Child[2] = run
      /\ p[2] \in Runs /\ p = <<p[1], p[2]>>
  BY <1>1, <1>3, ProcessParts
<1>5. ASSUME NEW q \in Processes, q[1] = "child"
      PROVE  q[2] \in Runs /\ (q # p => q[2] # p[2] \/ p[1] # "child")
  <2>1. q = <<q[1], q[2]>> /\ q[2] \in Runs
    BY <1>1, ProcessParts
  <2> QED
    BY <1>4, <1>5, <2>1
<1> QED
  BY <1>1, <1>3, <1>4, <1>5 DEF PlacesInv

\* out.c is written, by the main process.
LEMMA WritesPlaces == ASSUME PlacesInv, NEW p \in Processes, Writes(p) PROVE PlacesInv'
<1>1. Alive(p) /\ run' = run /\ Main' = Main /\ Child' = Child
  BY DEF Writes, Alive, Main, Child
<1>2. Types'
  <2>1. Types /\ (Fault \/ NoFault)
    BY <1>1, MoverParts DEF Writes
  <2> QED
    BY <1>1, <2>1, FaultParts, MoverParts DEF Writes, Types, Points, Goes, Ends, NoSource
<1>3. Placed(p)'
  BY <1>1, MoverParts DEF Writes, Placed, Types, Points, Goes, Ends, Alive, Nothing
<1>4. MainPlaced'
  BY <1>1, MoverParts DEF Writes, MainPlaced, Placed, Types, Points, Goes, Ends, Alive, Nothing
<1>5. \A q \in Processes : q # p => Same(q)
  BY <1>1, MoverParts DEF Writes, Same, Types, Points, Goes, Ends
<1>6. \A q \in Processes : Placed(q)' \/ Same(q)
  BY <1>3, <1>5
<1> QED
  BY <1>1, <1>2, <1>4, <1>6, OthersStay

\* The main process ends without out.c.
LEMMA FailsToOpenPlaces == ASSUME PlacesInv, NEW p \in Processes, FailsToOpen(p) PROVE PlacesInv'
<1>1. Alive(p) /\ run' = run /\ Main' = Main /\ Child' = Child
  BY DEF FailsToOpen, Alive, Main, Child
<1>2. Types'
  <2>1. Types /\ (Fault \/ NoFault)
    BY <1>1, MoverParts DEF FailsToOpen
  <2> QED
    BY <1>1, <2>1, FaultParts, MoverParts DEF FailsToOpen, Types, Points, Goes, Ends, NoSource
<1>3. Placed(p)'
  BY <1>1, MoverParts DEF FailsToOpen, Placed, Types, Points, Goes, Ends, Alive, Nothing
<1>4. MainPlaced'
  BY <1>1, MoverParts DEF FailsToOpen, MainPlaced, Placed, Types, Points, Goes, Ends, Alive, Nothing
<1>5. \A q \in Processes : q # p => Same(q)
  BY <1>1, MoverParts DEF FailsToOpen, Same, Types, Points, Goes, Ends
<1>6. \A q \in Processes : Placed(q)' \/ Same(q)
  BY <1>3, <1>5
<1> QED
  BY <1>1, <1>2, <1>4, <1>6, OthersStay

\* The main process goes on to load.
LEMMA FailsToForkPlaces == ASSUME PlacesInv, NEW p \in Processes, FailsToFork(p) PROVE PlacesInv'
<1>1. Alive(p) /\ run' = run /\ Main' = Main /\ Child' = Child
  BY DEF FailsToFork, Alive, Main, Child
<1>2. Types'
  <2>1. Types /\ (Fault \/ NoFault)
    BY <1>1, MoverParts DEF FailsToFork
  <2> QED
    BY <1>1, <2>1, FaultParts, MoverParts DEF FailsToFork, Types, Points, Goes, Ends, NoSource
<1>3. Placed(p)'
  BY <1>1, MoverParts DEF FailsToFork, Placed, Types, Points, Goes, Ends, Alive, Nothing
<1>4. MainPlaced'
  BY <1>1, MoverParts DEF FailsToFork, MainPlaced, Placed, Types, Points, Goes, Ends, Alive, Nothing
<1>5. \A q \in Processes : q # p => Same(q)
  BY <1>1, MoverParts DEF FailsToFork, Same, Types, Points, Goes, Ends
<1>6. \A q \in Processes : Placed(q)' \/ Same(q)
  BY <1>3, <1>5
<1> QED
  BY <1>1, <1>2, <1>4, <1>6, OthersStay

\* The child is the compiler, or a second main.
LEMMA ExecutesPlaces == ASSUME PlacesInv, NEW p \in Processes, Executes(p) PROVE PlacesInv'
<1>1. Alive(p) /\ run' = run /\ Main' = Main /\ Child' = Child
  BY DEF Executes, Alive, Main, Child
<1>2. Types'
  <2>1. Types /\ (Fault \/ NoFault)
    BY <1>1, MoverParts DEF Executes
  <2> QED
    BY <1>1, <2>1, FaultParts, MoverParts DEF Executes, Types, Points, Goes, Ends, NoSource
<1>3. Placed(p)'
  BY <1>1, MoverParts DEF Executes, Placed, Types, Points, Goes, Ends, Alive, Nothing
<1>4. MainPlaced'
  BY <1>1, MoverParts DEF Executes, MainPlaced, Placed, Types, Points, Goes, Ends, Alive, Nothing
<1>5. \A q \in Processes : q # p => Same(q)
  BY <1>1, MoverParts DEF Executes, Same, Types, Points, Goes, Ends
<1>6. \A q \in Processes : Placed(q)' \/ Same(q)
  BY <1>3, <1>5
<1> QED
  BY <1>1, <1>2, <1>4, <1>6, OthersStay

\* The compiler has an object, or has ended.
LEMMA CompilesPlaces == ASSUME PlacesInv, NEW p \in Processes, Compiles(p) PROVE PlacesInv'
<1>1. Alive(p) /\ run' = run /\ Main' = Main /\ Child' = Child
  BY DEF Compiles, Alive, Main, Child
<1>2. Types'
  <2>1. Types /\ (Fault \/ NoFault)
    BY <1>1, MoverParts DEF Compiles
  <2> QED
    BY <1>1, <2>1, FaultParts, MoverParts DEF Compiles, Types, Points, Goes, Ends, NoSource
<1>3. Placed(p)'
  BY <1>1, MoverParts DEF Compiles, Placed, Types, Points, Goes, Ends, Alive, Nothing
<1>4. MainPlaced'
  BY <1>1, MoverParts DEF Compiles, MainPlaced, Placed, Types, Points, Goes, Ends, Alive, Nothing
<1>5. \A q \in Processes : q # p => Same(q)
  <2> SUFFICES ASSUME NEW q \in Processes, q # p PROVE Same(q)
    OBVIOUS
  <2>1. q[1] = "child" => q[2] # p[2] /\ q[2] \in Runs
    BY <1>1, MoverParts DEF Compiles, Placed
  <2>2. pc'[q] = pc[q] /\ handle'[q] = handle[q]
    BY <1>1, MoverParts DEF Compiles, Types, Points, Goes
  <2>3. \A r \in Runs : r # p[2] => object'[r] = object[r]
    BY <1>1, MoverParts DEF Compiles, Types
  <2> QED
    BY <2>1, <2>2, <2>3 DEF Same
<1>6. \A q \in Processes : Placed(q)' \/ Same(q)
  BY <1>3, <1>5
<1> QED
  BY <1>1, <1>2, <1>4, <1>6, OthersStay

\* The compiler has ended, with nothing.
LEMMA FailsToCompilePlaces == ASSUME PlacesInv, NEW p \in Processes, FailsToCompile(p) PROVE PlacesInv'
<1>1. Alive(p) /\ run' = run /\ Main' = Main /\ Child' = Child
  BY DEF FailsToCompile, Alive, Main, Child
<1>2. Types'
  <2>1. Types /\ (Fault \/ NoFault)
    BY <1>1, MoverParts DEF FailsToCompile
  <2> QED
    BY <1>1, <2>1, FaultParts, MoverParts DEF FailsToCompile, Types, Points, Goes, Ends, NoSource
<1>3. Placed(p)'
  BY <1>1, MoverParts DEF FailsToCompile, Placed, Types, Points, Goes, Ends, Alive, Nothing
<1>4. MainPlaced'
  BY <1>1, MoverParts DEF FailsToCompile, MainPlaced, Placed, Types, Points, Goes, Ends, Alive, Nothing
<1>5. \A q \in Processes : q # p => Same(q)
  <2> SUFFICES ASSUME NEW q \in Processes, q # p PROVE Same(q)
    OBVIOUS
  <2>1. q[1] = "child" => q[2] # p[2] /\ q[2] \in Runs
    BY <1>1, MoverParts DEF FailsToCompile, Placed
  <2>2. pc'[q] = pc[q] /\ handle'[q] = handle[q]
    BY <1>1, MoverParts DEF FailsToCompile, Types, Points, Goes
  <2>3. \A r \in Runs : r # p[2] => object'[r] = object[r]
    BY <1>1, MoverParts DEF FailsToCompile, Types
  <2> QED
    BY <2>1, <2>2, <2>3 DEF Same
<1>6. \A q \in Processes : Placed(q)' \/ Same(q)
  BY <1>3, <1>5
<1> QED
  BY <1>1, <1>2, <1>4, <1>6, OthersStay

\* The compiler has ended, without its object.
LEMMA LinksPlaces == ASSUME PlacesInv, NEW p \in Processes, Links(p) PROVE PlacesInv'
<1>1. Alive(p) /\ run' = run /\ Main' = Main /\ Child' = Child
  BY DEF Links, Alive, Main, Child
<1>2. Types'
  <2>1. Types /\ (Fault \/ NoFault)
    BY <1>1, MoverParts DEF Links
  <2> QED
    BY <1>1, <2>1, FaultParts, MoverParts DEF Links, Types, Points, Goes, Ends, NoSource
<1>3. Placed(p)'
  BY <1>1, MoverParts DEF Links, Placed, Types, Points, Goes, Ends, Alive, Nothing
<1>4. MainPlaced'
  BY <1>1, MoverParts DEF Links, MainPlaced, Placed, Types, Points, Goes, Ends, Alive, Nothing
<1>5. \A q \in Processes : q # p => Same(q)
  <2> SUFFICES ASSUME NEW q \in Processes, q # p PROVE Same(q)
    OBVIOUS
  <2>1. q[1] = "child" => q[2] # p[2] /\ q[2] \in Runs
    BY <1>1, MoverParts DEF Links, Placed
  <2>2. pc'[q] = pc[q] /\ handle'[q] = handle[q]
    BY <1>1, MoverParts DEF Links, Types, Points, Goes
  <2>3. \A r \in Runs : r # p[2] => object'[r] = object[r]
    BY <1>1, MoverParts DEF Links, Types
  <2> QED
    BY <2>1, <2>2, <2>3 DEF Same
<1>6. \A q \in Processes : Placed(q)' \/ Same(q)
  BY <1>3, <1>5
<1> QED
  BY <1>1, <1>2, <1>4, <1>6, OthersStay

\* The main process goes on when its child has ended.
LEMMA WaitsPlaces == ASSUME PlacesInv, NEW p \in Processes, Waits(p) PROVE PlacesInv'
<1>1. Alive(p) /\ run' = run /\ Main' = Main /\ Child' = Child
  BY DEF Waits, Alive, Main, Child
<1>2. Types'
  <2>1. Types /\ (Fault \/ NoFault)
    BY <1>1, MoverParts DEF Waits
  <2> QED
    BY <1>1, <2>1, FaultParts, MoverParts DEF Waits, Types, Points, Goes, Ends, NoSource
<1>3. Placed(p)'
  BY <1>1, MoverParts DEF Waits, Placed, Types, Points, Goes, Ends, Alive, Nothing
<1>4. MainPlaced'
  BY <1>1, MoverParts DEF Waits, MainPlaced, Placed, Types, Points, Goes, Ends, Alive, Nothing
<1>5. \A q \in Processes : q # p => Same(q)
  BY <1>1, MoverParts DEF Waits, Same, Types, Points, Goes, Ends
<1>6. \A q \in Processes : Placed(q)' \/ Same(q)
  BY <1>3, <1>5
<1> QED
  BY <1>1, <1>2, <1>4, <1>6, OthersStay

\* The main process has ended.
LEMMA FailsToWaitPlaces == ASSUME PlacesInv, NEW p \in Processes, FailsToWait(p) PROVE PlacesInv'
<1>1. Alive(p) /\ run' = run /\ Main' = Main /\ Child' = Child
  BY DEF FailsToWait, Alive, Main, Child
<1>2. Types'
  <2>1. Types /\ (Fault \/ NoFault)
    BY <1>1, MoverParts DEF FailsToWait
  <2> QED
    BY <1>1, <2>1, FaultParts, MoverParts DEF FailsToWait, Types, Points, Goes, Ends, NoSource
<1>3. Placed(p)'
  BY <1>1, MoverParts DEF FailsToWait, Placed, Types, Points, Goes, Ends, Alive, Nothing
<1>4. MainPlaced'
  BY <1>1, MoverParts DEF FailsToWait, MainPlaced, Placed, Types, Points, Goes, Ends, Alive, Nothing
<1>5. \A q \in Processes : q # p => Same(q)
  BY <1>1, MoverParts DEF FailsToWait, Same, Types, Points, Goes, Ends
<1>6. \A q \in Processes : Placed(q)' \/ Same(q)
  BY <1>3, <1>5
<1> QED
  BY <1>1, <1>2, <1>4, <1>6, OthersStay

\* A process has the library, or has ended.
LEMMA LoadsPlaces == ASSUME PlacesInv, NEW p \in Processes, Loads(p) PROVE PlacesInv'
<1>1. Alive(p) /\ run' = run /\ Main' = Main /\ Child' = Child
  BY DEF Loads, Alive, Main, Child
<1>2. Types'
  <2>1. Types /\ (Fault \/ NoFault)
    BY <1>1, MoverParts DEF Loads
  <2> QED
    BY <1>1, <2>1, FaultParts, MoverParts DEF Loads, Types, Points, Goes, Ends, NoSource
<1>3. Placed(p)'
  BY <1>1, MoverParts DEF Loads, Placed, Types, Points, Goes, Ends, Alive, Nothing
<1>4. MainPlaced'
  BY <1>1, MoverParts DEF Loads, MainPlaced, Placed, Types, Points, Goes, Ends, Alive, Nothing
<1>5. \A q \in Processes : q # p => Same(q)
  BY <1>1, MoverParts DEF Loads, Same, Types, Points, Goes, Ends
<1>6. \A q \in Processes : Placed(q)' \/ Same(q)
  BY <1>3, <1>5
<1> QED
  BY <1>1, <1>2, <1>4, <1>6, OthersStay

\* The process has ended without a library.
LEMMA FailsToLoadPlaces == ASSUME PlacesInv, NEW p \in Processes, FailsToLoad(p) PROVE PlacesInv'
<1>1. Alive(p) /\ run' = run /\ Main' = Main /\ Child' = Child
  BY DEF FailsToLoad, Alive, Main, Child
<1>2. Types'
  <2>1. Types /\ (Fault \/ NoFault)
    BY <1>1, MoverParts DEF FailsToLoad
  <2> QED
    BY <1>1, <2>1, FaultParts, MoverParts, ZenonT(30) DEF FailsToLoad, Types, Points, Goes, Ends, NoSource
<1>3. Placed(p)'
  BY <1>1, MoverParts DEF FailsToLoad, Placed, Types, Points, Goes, Ends, Alive, Nothing
<1>4. MainPlaced'
  BY <1>1, MoverParts DEF FailsToLoad, MainPlaced, Placed, Types, Points, Goes, Ends, Alive, Nothing
<1>5. \A q \in Processes : q # p => Same(q)
  BY <1>1, MoverParts DEF FailsToLoad, Same, Types, Points, Goes, Ends
<1>6. \A q \in Processes : Placed(q)' \/ Same(q)
  BY <1>3, <1>5
<1> QED
  BY <1>1, <1>2, <1>4, <1>6, OthersStay

\* A process prints and keeps its library.
LEMMA PrintsPlaces == ASSUME PlacesInv, NEW p \in Processes, Prints(p) PROVE PlacesInv'
<1>1. Alive(p) /\ run' = run /\ Main' = Main /\ Child' = Child
  BY DEF Prints, Alive, Main, Child
<1>2. Types'
  <2>1. Types /\ (Fault \/ NoFault)
    BY <1>1, MoverParts DEF Prints
  <2> QED
    BY <1>1, <2>1, FaultParts, MoverParts DEF Prints, Types, Points, Goes, Ends, NoSource
<1>3. Placed(p)'
  BY <1>1, MoverParts DEF Prints, Placed, Types, Points, Goes, Ends, Alive, Nothing
<1>4. MainPlaced'
  BY <1>1, MoverParts DEF Prints, MainPlaced, Placed, Types, Points, Goes, Ends, Alive, Nothing
<1>5. \A q \in Processes : q # p => Same(q)
  BY <1>1, MoverParts DEF Prints, Same, Types, Points, Goes, Ends
<1>6. \A q \in Processes : Placed(q)' \/ Same(q)
  BY <1>3, <1>5
<1> QED
  BY <1>1, <1>2, <1>4, <1>6, OthersStay

\* The process has ended without a library.
LEMMA DeletesPlaces == ASSUME PlacesInv, NEW p \in Processes, Deletes(p) PROVE PlacesInv'
<1>1. Alive(p) /\ run' = run /\ Main' = Main /\ Child' = Child
  BY DEF Deletes, Alive, Main, Child
<1>2. Types'
  <2>1. Types /\ (Fault \/ NoFault)
    BY <1>1, MoverParts DEF Deletes
  <2> QED
    BY <1>1, <2>1, FaultParts, MoverParts DEF Deletes, Types, Points, Goes, Ends, NoSource
<1>3. Placed(p)'
  BY <1>1, MoverParts DEF Deletes, Placed, Types, Points, Goes, Ends, Alive, Nothing
<1>4. MainPlaced'
  BY <1>1, MoverParts DEF Deletes, MainPlaced, Placed, Types, Points, Goes, Ends, Alive, Nothing
<1>5. \A q \in Processes : q # p => Same(q)
  BY <1>1, MoverParts DEF Deletes, Same, Types, Points, Goes, Ends
<1>6. \A q \in Processes : Placed(q)' \/ Same(q)
  BY <1>3, <1>5
<1> QED
  BY <1>1, <1>2, <1>4, <1>6, OthersStay

\* The main process waits, and its child is there.
LEMMA ForksPlaces == ASSUME PlacesInv, NEW p \in Processes, Forks(p) PROVE PlacesInv'
<1>1. Alive(p) /\ run' = run /\ Main' = Main /\ Child' = Child
  BY DEF Forks, Alive, Main, Child
<1>2. p = Main
  BY <1>1, MoverParts DEF Forks, Placed
<1>3. Types'
  <2>1. Types /\ (Fault \/ NoFault)
    BY <1>1, MoverParts DEF Forks
  <2> QED
    BY <1>1, <2>1, FaultParts, MoverParts DEF Forks, Types, Points
<1>4. Placed(Main)'
  BY <1>1, <1>2, MoverParts DEF Forks, Placed, Types, Points, Alive, Nothing
<1>5. Placed(Child)'
  <2>1. pc[Child] = "none" /\ pc'[Child] = "exec"
    BY <1>1, <1>2, MoverParts DEF Forks, MainPlaced, Types
  <2>2. 0 .. Len(Inputs) \subseteq Int /\ run <= run
    BY <1>1, MoverParts DEF Types
  <2> QED
    BY <1>1, <1>2, <2>1, <2>2, MoverParts DEF Forks, Placed, Types, Alive, Nothing
<1>6. MainPlaced'
  BY <1>1, <1>2, MoverParts DEF Forks, MainPlaced, Types, Alive
<1>7. \A q \in Processes : q \notin {Main, Child} => Same(q)
  BY <1>1, <1>2, MoverParts DEF Forks, Same, Types
<1>8. \A q \in Processes : Placed(q)' \/ Same(q)
  BY <1>1, <1>4, <1>5, <1>7
<1> QED
  BY <1>1, <1>3, <1>6, <1>8, OthersStay

\* A killed process has nothing.
LEMMA KilledPlaces == ASSUME PlacesInv, Killed PROVE PlacesInv'
<1>1. run > 0 /\ run' = run /\ Main' = Main /\ Child' = Child /\ Types /\ MainPlaced
  BY DEF Killed, Main, Child, PlacesInv
<1>2. /\ Main \in Processes /\ Child \in Processes /\ Main # Child
      /\ Child[1] = "child" /\ Child[2] = run /\ Main[1] = "main" /\ run \in Runs
      /\ \A q \in Processes : q[1] = "child" /\ q # Child => q[2] # run /\ q[2] \in Runs
      /\ \A q \in Processes : Placed(q)
  <2>1. run \in 0 .. Len(Inputs)
    BY <1>1 DEF Types
  <2> QED
    BY <1>1, <2>1, ProcessParts DEF PlacesInv, Child
<1>3. PICK dead \in SUBSET {Main, Child} \ {{}} :
        /\ \A p \in dead : Alive(p)
        /\ pc' = [p \in Processes |-> IF p \in dead THEN "none" ELSE pc[p]]
        /\ handle' = [p \in Processes |-> IF p \in dead THEN Nothing ELSE handle[p]]
        /\ object' = IF Child \in dead THEN [object EXCEPT ![run] = Nothing] ELSE object
        /\ status' = IF Main \in dead THEN "killed" ELSE status
  BY DEF Killed
<1>4. Types'
  <2>1. pc' \in [Processes -> Points]
    BY <1>1, <1>3 DEF Types, Points
  <2>2. handle' = [p \in Processes |-> handle'[p]] /\ object' = [r \in Runs |-> object'[r]]
    BY <1>1, <1>3 DEF Types
  <2>3. Fault
    BY DEF Killed
  <2> QED
    BY <1>1, <1>3, <2>1, <2>2, <2>3, FaultParts DEF Types, Killed
<1>5. ASSUME NEW q \in Processes PROVE Placed(q)'
  <2>1. pc'[q] = IF q \in dead THEN "none" ELSE pc[q]
    BY <1>3
  <2>2. handle'[q] = IF q \in dead THEN Nothing ELSE handle[q]
    BY <1>3
  <2>3. q[1] = "child" => object'[q[2]] = IF q \in dead THEN Nothing ELSE object[q[2]]
    BY <1>1, <1>2, <1>3 DEF Types
  <2>4. Placed(q)
    BY <1>2
  <2> QED
    BY <1>1, <2>1, <2>2, <2>3, <2>4 DEF Placed, Alive, Nothing
<1>6. MainPlaced'
  <2>1. pc'[Main] = IF Main \in dead THEN "none" ELSE pc[Main]
    BY <1>2, <1>3
  <2>2. pc[Child] = "none" => pc'[Child] = "none"
    BY <1>2, <1>3
  <2>3. unit' = IF pc'[Main] = "none" THEN Nothing ELSE unit
    BY DEF Killed
  <2>4. status' = IF Main \in dead THEN "killed" ELSE status
    BY <1>3
  <2>5. Main \in dead => Alive(Main)
    BY <1>3
  <2> QED
    BY <1>1, <2>1, <2>2, <2>3, <2>4, <2>5 DEF MainPlaced, Alive, Nothing
<1> QED
  BY <1>1, <1>4, <1>5, <1>6, OthersStay

\* What is right stays so while the text is the same.
LEMMA StaysRight ==
    ASSUME text' = text PROVE TermsOf' = TermsOf /\ \A x : Right(x)' <=> Right(x)
  BY DEF Right, TermsOf, Texts, Runs

\* In a clean run nobody else moves.
LEMMA CleanMover ==
    ASSUME PlacesInv, CleanState, clean, NEW p \in Processes, Alive(p)
    PROVE  /\ p = Main \/ p = Child
           /\ pc[p] \in {"write", "fork", "wait", "print", "delete"} => p = Main
           /\ pc[p] \in {"exec", "compile", "link"} => p = Child
<1>1. run > 0
  BY MoverParts
<1>2. \A q \in Processes : q \notin {Main, Child} => pc[q] = "none"
  BY <1>1 DEF CleanState
<1>3. pc[Child] \in {"none", "exec", "compile", "link", "load"}
  BY <1>1 DEF CleanState
<1> QED
  BY <1>2, <1>3, MoverParts DEF Alive, Placed

\* What is written is what was generated, or no program.
LEMMA WritesRight == ASSUME PlacesInv, MeaningInv, NEW p \in Processes, Writes(p) PROVE MeaningInv'
<1>1. /\ Alive(p) /\ run' = run /\ Main' = Main /\ Child' = Child
      /\ text' = text /\ clean' = clean /\ (Fault \/ NoFault)
  BY DEF Writes, Alive, Main, Child
<1>2. /\ UnitRight /\ ParserFollowsGrammar /\ CodeMeansText /\ CleanState /\ Progress
      /\ TermsOf' = TermsOf /\ \A x : Right(x)' <=> Right(x)
  BY <1>1, StaysRight DEF MeaningInv
<1>3. UnitRight'
  BY <1>1, <1>2, MoverParts DEF Writes, UnitRight, Placed, Types, Goes, Ends
<1>4. ParserFollowsGrammar'
  BY <1>1, <1>2, MoverParts DEF Writes, ParserFollowsGrammar, Placed, Types, Goes, Ends, Fault, NoFault
<1>5. CodeMeansText'
  <2>1. /\ p = Main /\ run > 0 /\ pc[Main] = "write" /\ UnitRight
        /\ \/ source' = [text |-> text, term |-> unit.term] /\ NoFault
           \/ source' = [text |-> text, term |-> NoProgram] /\ Fault
    BY <1>1, <1>2, MoverParts DEF Writes, Placed
  <2> QED
    BY <1>1, <1>2, <2>1, MoverParts
       DEF Writes, UnitRight, MainPlaced, CodeMeansText, Fault
<1>6. CleanState'
  <2>1. /\ p = Main /\ run > 0 /\ pc[Main] = "write" /\ UnitRight
        /\ \/ source' = [text |-> text, term |-> unit.term] /\ NoFault
           \/ source' = [text |-> text, term |-> NoProgram] /\ Fault
    BY <1>1, <1>2, MoverParts DEF Writes, Placed
  <2> QED
    BY <1>1, <1>2, <2>1, MoverParts
       DEF Writes, UnitRight, MainPlaced, CleanState, Right, Types, Goes, Alive, Nothing, Placed
<1>7. Progress'
  <2>1. /\ p = Main /\ run > 0 /\ pc[Main] = "write" /\ UnitRight
        /\ \/ source' = [text |-> text, term |-> unit.term] /\ NoFault
           \/ source' = [text |-> text, term |-> NoProgram] /\ Fault
    BY <1>1, <1>2, MoverParts DEF Writes, Placed
  <2> QED
    BY <1>1, <1>2, <2>1, MoverParts
       DEF Writes, UnitRight, MainPlaced, Progress, Fault, NoFault, Types, Goes
<1> QED
  BY <1>3, <1>4, <1>5, <1>6, <1>7 DEF MeaningInv

\* Nothing was written.
LEMMA FailsToOpenRight == ASSUME PlacesInv, MeaningInv, NEW p \in Processes, FailsToOpen(p) PROVE MeaningInv'
<1>1. /\ Alive(p) /\ run' = run /\ Main' = Main /\ Child' = Child
      /\ text' = text /\ clean' = clean /\ (Fault \/ NoFault)
  BY DEF FailsToOpen, Alive, Main, Child
<1>2. /\ UnitRight /\ ParserFollowsGrammar /\ CodeMeansText /\ CleanState /\ Progress
      /\ TermsOf' = TermsOf /\ \A x : Right(x)' <=> Right(x)
  BY <1>1, StaysRight DEF MeaningInv
<1>3. UnitRight'
  BY <1>1, <1>2, MoverParts DEF FailsToOpen, UnitRight, Placed, Types, Goes, Ends
<1>4. ParserFollowsGrammar'
  BY <1>1, <1>2, MoverParts DEF FailsToOpen, ParserFollowsGrammar, Placed, Types, Goes, Ends, Fault, NoFault
<1>5. CodeMeansText'
  BY <1>1, <1>2, MoverParts DEF FailsToOpen, CodeMeansText, Placed, Types, Goes, Ends, Fault, NoFault
<1>6. CleanState'
  BY <1>1, <1>2, CleanMover, MoverParts DEF FailsToOpen, CleanState, Placed, Types, Goes, Ends, Alive, Nothing
<1>7. Progress'
  BY <1>1, <1>2, CleanMover, MoverParts DEF FailsToOpen, Progress, Placed, Types, Goes, Ends, Fault, NoFault
<1> QED
  BY <1>3, <1>4, <1>5, <1>6, <1>7 DEF MeaningInv

\* Without a compiler there is no library.
LEMMA FailsToForkRight == ASSUME PlacesInv, MeaningInv, NEW p \in Processes, FailsToFork(p) PROVE MeaningInv'
<1>1. /\ Alive(p) /\ run' = run /\ Main' = Main /\ Child' = Child
      /\ text' = text /\ clean' = clean /\ (Fault \/ NoFault)
  BY DEF FailsToFork, Alive, Main, Child
<1>2. /\ UnitRight /\ ParserFollowsGrammar /\ CodeMeansText /\ CleanState /\ Progress
      /\ TermsOf' = TermsOf /\ \A x : Right(x)' <=> Right(x)
  BY <1>1, StaysRight DEF MeaningInv
<1>3. UnitRight'
  BY <1>1, <1>2, MoverParts DEF FailsToFork, UnitRight, Placed, Types, Goes, Ends
<1>4. ParserFollowsGrammar'
  BY <1>1, <1>2, MoverParts DEF FailsToFork, ParserFollowsGrammar, Placed, Types, Goes, Ends, Fault, NoFault
<1>5. CodeMeansText'
  BY <1>1, <1>2, MoverParts DEF FailsToFork, CodeMeansText, Placed, Types, Goes, Ends, Fault, NoFault
<1>6. CleanState'
  BY <1>1, <1>2, CleanMover, MoverParts
     DEF FailsToFork, CleanState, Placed, MainPlaced, Types, Goes, Alive, Nothing
<1>7. Progress'
  BY <1>1, <1>2, CleanMover, MoverParts DEF FailsToFork, Progress, Placed, Types, Goes, Ends, Fault, NoFault
<1> QED
  BY <1>3, <1>4, <1>5, <1>6, <1>7 DEF MeaningInv

\* A second main in a clean run finds no library.
LEMMA ExecutesRight == ASSUME PlacesInv, MeaningInv, NEW p \in Processes, Executes(p) PROVE MeaningInv'
<1>1. /\ Alive(p) /\ run' = run /\ Main' = Main /\ Child' = Child
      /\ text' = text /\ clean' = clean /\ (Fault \/ NoFault)
  BY DEF Executes, Alive, Main, Child
<1>2. /\ UnitRight /\ ParserFollowsGrammar /\ CodeMeansText /\ CleanState /\ Progress
      /\ TermsOf' = TermsOf /\ \A x : Right(x)' <=> Right(x)
  BY <1>1, StaysRight DEF MeaningInv
<1>3. UnitRight'
  BY <1>1, <1>2, MoverParts DEF Executes, UnitRight, Placed, Types, Goes, Ends
<1>4. ParserFollowsGrammar'
  BY <1>1, <1>2, MoverParts DEF Executes, ParserFollowsGrammar, Placed, Types, Goes, Ends, Fault, NoFault
<1>5. CodeMeansText'
  BY <1>1, <1>2, MoverParts DEF Executes, CodeMeansText, Placed, Types, Goes, Ends, Fault, NoFault
<1>6. CleanState'
  BY <1>1, <1>2, CleanMover, MoverParts DEF Executes, CleanState, Placed, Types, Goes, Ends, Alive, Nothing
<1>7. Progress'
  BY <1>1, <1>2, CleanMover, MoverParts DEF Executes, Progress, Placed, Types, Goes, Ends, Fault, NoFault
<1> QED
  BY <1>3, <1>4, <1>5, <1>6, <1>7 DEF MeaningInv

\* What is compiled is what is in out.c: in a clean run the text's.
LEMMA CompilesRight == ASSUME PlacesInv, MeaningInv, NEW p \in Processes, Compiles(p) PROVE MeaningInv'
<1>1. /\ Alive(p) /\ run' = run /\ Main' = Main /\ Child' = Child
      /\ text' = text /\ clean' = clean /\ (Fault \/ NoFault)
  BY DEF Compiles, Alive, Main, Child
<1>2. /\ UnitRight /\ ParserFollowsGrammar /\ CodeMeansText /\ CleanState /\ Progress
      /\ TermsOf' = TermsOf /\ \A x : Right(x)' <=> Right(x)
  BY <1>1, StaysRight DEF MeaningInv
<1>3. UnitRight'
  BY <1>1, <1>2, MoverParts DEF Compiles, UnitRight, Placed, Types, Goes, Ends
<1>4. ParserFollowsGrammar'
  BY <1>1, <1>2, MoverParts DEF Compiles, ParserFollowsGrammar, Placed, Types, Goes, Ends, Fault, NoFault
<1>5. CodeMeansText'
  BY <1>1, <1>2, MoverParts DEF Compiles, CodeMeansText, Placed, Types, Goes, Ends, Fault, NoFault
<1>6. CleanState'
  BY <1>1, <1>2, CleanMover, MoverParts DEF Compiles, CleanState, Placed, Types, Goes, Ends, Alive, Nothing
<1>7. Progress'
  BY <1>1, <1>2, CleanMover, MoverParts DEF Compiles, Progress, Placed, Types, Goes, Ends, Fault, NoFault
<1> QED
  BY <1>3, <1>4, <1>5, <1>6, <1>7 DEF MeaningInv

\* There is no library then.
LEMMA FailsToCompileRight == ASSUME PlacesInv, MeaningInv, NEW p \in Processes, FailsToCompile(p) PROVE MeaningInv'
<1>1. /\ Alive(p) /\ run' = run /\ Main' = Main /\ Child' = Child
      /\ text' = text /\ clean' = clean /\ (Fault \/ NoFault)
  BY DEF FailsToCompile, Alive, Main, Child
<1>2. /\ UnitRight /\ ParserFollowsGrammar /\ CodeMeansText /\ CleanState /\ Progress
      /\ TermsOf' = TermsOf /\ \A x : Right(x)' <=> Right(x)
  BY <1>1, StaysRight DEF MeaningInv
<1>3. UnitRight'
  BY <1>1, <1>2, MoverParts DEF FailsToCompile, UnitRight, Placed, Types, Goes, Ends
<1>4. ParserFollowsGrammar'
  BY <1>1, <1>2, MoverParts DEF FailsToCompile, ParserFollowsGrammar, Placed, Types, Goes, Ends, Fault, NoFault
<1>5. CodeMeansText'
  BY <1>1, <1>2, MoverParts DEF FailsToCompile, CodeMeansText, Placed, Types, Goes, Ends, Fault, NoFault
<1>6. CleanState'
  BY <1>1, <1>2, CleanMover, MoverParts DEF FailsToCompile, CleanState, Placed, Types, Goes, Ends, Alive, Nothing
<1>7. Progress'
  BY <1>1, <1>2, CleanMover, MoverParts DEF FailsToCompile, Progress, Placed, Types, Goes, Ends, Fault, NoFault
<1> QED
  BY <1>3, <1>4, <1>5, <1>6, <1>7 DEF MeaningInv

\* The library is of what was compiled.
LEMMA LinksRight == ASSUME PlacesInv, MeaningInv, NEW p \in Processes, Links(p) PROVE MeaningInv'
<1>1. /\ Alive(p) /\ run' = run /\ Main' = Main /\ Child' = Child
      /\ text' = text /\ clean' = clean /\ (Fault \/ NoFault)
  BY DEF Links, Alive, Main, Child
<1>2. /\ UnitRight /\ ParserFollowsGrammar /\ CodeMeansText /\ CleanState /\ Progress
      /\ TermsOf' = TermsOf /\ \A x : Right(x)' <=> Right(x)
  BY <1>1, StaysRight DEF MeaningInv
<1>3. UnitRight'
  BY <1>1, <1>2, MoverParts DEF Links, UnitRight, Placed, Types, Goes, Ends
<1>4. ParserFollowsGrammar'
  BY <1>1, <1>2, MoverParts DEF Links, ParserFollowsGrammar, Placed, Types, Goes, Ends, Fault, NoFault
<1>5. CodeMeansText'
  BY <1>1, <1>2, MoverParts DEF Links, CodeMeansText, Placed, Types, Goes, Ends, Fault, NoFault
<1>6. CleanState'
  BY <1>1, <1>2, CleanMover, MoverParts
     DEF Links, CleanState, Placed, MainPlaced, Types, Goes, Alive, Nothing
<1>7. Progress'
  BY <1>1, <1>2, CleanMover, MoverParts DEF Links, Progress, Placed, Types, Goes, Ends, Fault, NoFault
<1> QED
  BY <1>3, <1>4, <1>5, <1>6, <1>7 DEF MeaningInv

\* With nothing failing the library is there.
LEMMA WaitsRight == ASSUME PlacesInv, MeaningInv, NEW p \in Processes, Waits(p) PROVE MeaningInv'
<1>1. /\ Alive(p) /\ run' = run /\ Main' = Main /\ Child' = Child
      /\ text' = text /\ clean' = clean /\ (Fault \/ NoFault)
  BY DEF Waits, Alive, Main, Child
<1>2. /\ UnitRight /\ ParserFollowsGrammar /\ CodeMeansText /\ CleanState /\ Progress
      /\ TermsOf' = TermsOf /\ \A x : Right(x)' <=> Right(x)
  BY <1>1, StaysRight DEF MeaningInv
<1>3. UnitRight'
  BY <1>1, <1>2, MoverParts DEF Waits, UnitRight, Placed, Types, Goes, Ends
<1>4. ParserFollowsGrammar'
  BY <1>1, <1>2, MoverParts DEF Waits, ParserFollowsGrammar, Placed, Types, Goes, Ends, Fault, NoFault
<1>5. CodeMeansText'
  BY <1>1, <1>2, MoverParts DEF Waits, CodeMeansText, Placed, Types, Goes, Ends, Fault, NoFault
<1>6. CleanState'
  BY <1>1, <1>2, CleanMover, MoverParts DEF Waits, CleanState, Placed, Types, Goes, Ends, Alive, Nothing
<1>7. Progress'
  BY <1>1, <1>2, CleanMover, MoverParts DEF Waits, Progress, Placed, Types, Goes, Alive, NoFault
<1> QED
  BY <1>3, <1>4, <1>5, <1>6, <1>7 DEF MeaningInv

\* Nothing was loaded.
LEMMA FailsToWaitRight == ASSUME PlacesInv, MeaningInv, NEW p \in Processes, FailsToWait(p) PROVE MeaningInv'
<1>1. /\ Alive(p) /\ run' = run /\ Main' = Main /\ Child' = Child
      /\ text' = text /\ clean' = clean /\ (Fault \/ NoFault)
  BY DEF FailsToWait, Alive, Main, Child
<1>2. /\ UnitRight /\ ParserFollowsGrammar /\ CodeMeansText /\ CleanState /\ Progress
      /\ TermsOf' = TermsOf /\ \A x : Right(x)' <=> Right(x)
  BY <1>1, StaysRight DEF MeaningInv
<1>3. UnitRight'
  BY <1>1, <1>2, MoverParts DEF FailsToWait, UnitRight, Placed, Types, Goes, Ends
<1>4. ParserFollowsGrammar'
  BY <1>1, <1>2, MoverParts DEF FailsToWait, ParserFollowsGrammar, Placed, Types, Goes, Ends, Fault, NoFault
<1>5. CodeMeansText'
  BY <1>1, <1>2, MoverParts DEF FailsToWait, CodeMeansText, Placed, Types, Goes, Ends, Fault, NoFault
<1>6. CleanState'
  BY <1>1, <1>2, CleanMover, MoverParts
     DEF FailsToWait, CleanState, Placed, Types, Goes, Ends, Alive, Nothing, NoSource
<1>7. Progress'
  BY <1>1, <1>2, CleanMover, MoverParts DEF FailsToWait, Progress, Placed, Types, Goes, Ends, Fault, NoFault
<1> QED
  BY <1>3, <1>4, <1>5, <1>6, <1>7 DEF MeaningInv

\* What is loaded is right, and without a failure it is there.
LEMMA LoadsRight == ASSUME PlacesInv, MeaningInv, NEW p \in Processes, Loads(p) PROVE MeaningInv'
<1>1. /\ Alive(p) /\ run' = run /\ Main' = Main /\ Child' = Child
      /\ text' = text /\ clean' = clean /\ (Fault \/ NoFault)
  BY DEF Loads, Alive, Main, Child
<1>2. /\ UnitRight /\ ParserFollowsGrammar /\ CodeMeansText /\ CleanState /\ Progress
      /\ TermsOf' = TermsOf /\ \A x : Right(x)' <=> Right(x)
  BY <1>1, StaysRight DEF MeaningInv
<1>3. UnitRight'
  BY <1>1, <1>2, MoverParts DEF Loads, UnitRight, Placed, Types, Goes, Ends
<1>4. ParserFollowsGrammar'
  BY <1>1, <1>2, CleanMover, MoverParts
     DEF Loads, ParserFollowsGrammar, Progress, Placed, Types, Goes, Ends, NoFault
<1>5. CodeMeansText'
  BY <1>1, <1>2, MoverParts DEF Loads, CodeMeansText, Placed, Types, Goes, Ends, Fault, NoFault
<1>6. CleanState'
  BY <1>1, <1>2, CleanMover, MoverParts DEF Loads, CleanState, Placed, Types, Goes, Ends, Alive, Nothing
<1>7. Progress'
  BY <1>1, <1>2, CleanMover, MoverParts DEF Loads, Progress, Placed, Types, Goes, Ends, Fault, NoFault
<1> QED
  BY <1>3, <1>4, <1>5, <1>6, <1>7 DEF MeaningInv

\* Nothing was loaded.
LEMMA FailsToLoadRight == ASSUME PlacesInv, MeaningInv, NEW p \in Processes, FailsToLoad(p) PROVE MeaningInv'
<1>1. /\ Alive(p) /\ run' = run /\ Main' = Main /\ Child' = Child
      /\ text' = text /\ clean' = clean /\ (Fault \/ NoFault)
  BY DEF FailsToLoad, Alive, Main, Child
<1>2. /\ UnitRight /\ ParserFollowsGrammar /\ CodeMeansText /\ CleanState /\ Progress
      /\ TermsOf' = TermsOf /\ \A x : Right(x)' <=> Right(x)
  BY <1>1, StaysRight DEF MeaningInv
<1>3. UnitRight'
  BY <1>1, <1>2, MoverParts DEF FailsToLoad, UnitRight, Placed, Types, Goes, Ends
<1>4. ParserFollowsGrammar'
  BY <1>1, <1>2, MoverParts DEF FailsToLoad, ParserFollowsGrammar, Placed, Types, Goes, Ends, Fault, NoFault
<1>5. CodeMeansText'
  BY <1>1, <1>2, MoverParts DEF FailsToLoad, CodeMeansText, Placed, Types, Goes, Ends, Fault, NoFault
<1>6. CleanState'
  BY <1>1, <1>2, CleanMover, MoverParts DEF FailsToLoad, CleanState, Placed, Types, Goes, Ends, Alive, Nothing
<1>7. Progress'
  BY <1>1, <1>2, CleanMover, MoverParts DEF FailsToLoad, Progress, Placed, Types, Goes, Ends, Fault, NoFault
<1> QED
  BY <1>3, <1>4, <1>5, <1>6, <1>7 DEF MeaningInv

\* It prints what it has loaded, once.
LEMMA PrintsRight == ASSUME PlacesInv, MeaningInv, NEW p \in Processes, Prints(p) PROVE MeaningInv'
<1>1. /\ Alive(p) /\ run' = run /\ Main' = Main /\ Child' = Child
      /\ text' = text /\ clean' = clean /\ (Fault \/ NoFault)
  BY DEF Prints, Alive, Main, Child
<1>2. /\ UnitRight /\ ParserFollowsGrammar /\ CodeMeansText /\ CleanState /\ Progress
      /\ TermsOf' = TermsOf /\ \A x : Right(x)' <=> Right(x)
  BY <1>1, StaysRight DEF MeaningInv
<1>3. UnitRight'
  BY <1>1, <1>2, MoverParts DEF Prints, UnitRight, Placed, Types, Goes, Ends
<1>4. ParserFollowsGrammar'
  BY <1>1, <1>2, MoverParts DEF Prints, ParserFollowsGrammar, Placed, Types, Goes, Ends, Fault, NoFault
<1>5. CodeMeansText'
  BY <1>1, <1>2, MoverParts DEF Prints, CodeMeansText, Placed, Types, Goes, Ends, Fault, NoFault
<1>6. CleanState'
  BY <1>1, <1>2, CleanMover, MoverParts DEF Prints, CleanState, Placed, Types, Goes, Ends, Alive, Nothing
<1>7. Progress'
  BY <1>1, <1>2, CleanMover, MoverParts DEF Prints, Progress, Placed, Types, Goes, Ends, Fault, NoFault
<1> QED
  BY <1>3, <1>4, <1>5, <1>6, <1>7 DEF MeaningInv

\* out.so is gone.
LEMMA DeletesRight == ASSUME PlacesInv, MeaningInv, NEW p \in Processes, Deletes(p) PROVE MeaningInv'
<1>1. /\ Alive(p) /\ run' = run /\ Main' = Main /\ Child' = Child
      /\ text' = text /\ clean' = clean /\ (Fault \/ NoFault)
  BY DEF Deletes, Alive, Main, Child
<1>2. /\ UnitRight /\ ParserFollowsGrammar /\ CodeMeansText /\ CleanState /\ Progress
      /\ TermsOf' = TermsOf /\ \A x : Right(x)' <=> Right(x)
  BY <1>1, StaysRight DEF MeaningInv
<1>3. UnitRight'
  BY <1>1, <1>2, MoverParts DEF Deletes, UnitRight, Placed, Types, Goes, Ends
<1>4. ParserFollowsGrammar'
  BY <1>1, <1>2, MoverParts DEF Deletes, ParserFollowsGrammar, Placed, Types, Goes, Ends, Fault, NoFault
<1>5. CodeMeansText'
  BY <1>1, <1>2, MoverParts DEF Deletes, CodeMeansText, Placed, Types, Goes, Ends, Fault, NoFault
<1>6. CleanState'
  BY <1>1, <1>2, CleanMover, MoverParts DEF Deletes, CleanState, Placed, Types, Goes, Ends, Alive, Nothing
<1>7. Progress'
  BY <1>1, <1>2, CleanMover, MoverParts DEF Deletes, Progress, Placed, Types, Goes, Ends, Fault, NoFault
<1> QED
  BY <1>3, <1>4, <1>5, <1>6, <1>7 DEF MeaningInv

\* The child starts with out.c as its parent has written it.
LEMMA ForksRight == ASSUME PlacesInv, MeaningInv, NEW p \in Processes, Forks(p) PROVE MeaningInv'
<1>1. /\ Alive(p) /\ run' = run /\ Main' = Main /\ Child' = Child
      /\ text' = text /\ clean' = clean /\ NoFault
  BY DEF Forks, Alive, Main, Child
<1>2. /\ UnitRight /\ ParserFollowsGrammar /\ CodeMeansText /\ CleanState /\ Progress
      /\ TermsOf' = TermsOf /\ \A x : Right(x)' <=> Right(x)
  BY <1>1, StaysRight DEF MeaningInv
<1>3. /\ p = Main /\ run > 0 /\ pc[Main] = "fork" /\ pc[Child] = "none"
      /\ pc' = [pc EXCEPT ![Main] = "wait", ![Child] = "exec"]
      /\ pc'[Main] = "wait" /\ pc'[Child] = "exec"
      /\ \A q \in Processes : q \notin {Main, Child} => pc'[q] = pc[q]
  BY <1>1, MoverParts DEF Forks, Placed, MainPlaced, Types
<1>4. UnitRight'
  BY <1>1, <1>3 DEF UnitRight
<1>5. ParserFollowsGrammar'
  BY <1>1, <1>2, <1>3 DEF Forks, ParserFollowsGrammar, NoFault
<1>6. CodeMeansText'
  BY <1>1, <1>3 DEF CodeMeansText
<1>7. CleanState'
  <2>1. UNCHANGED <<unit, source, object, library, handle, printed, status>>
    BY DEF Forks
  <2>2. pc'[Main] = "wait" /\ pc'[Child] = "exec" /\ pc[Main] = "fork"
        /\ \A q \in Processes : q \notin {Main, Child} => pc'[q] = pc[q]
    BY <1>3
  <2> QED
    BY <1>1, <1>2, <2>1, <2>2 DEF CleanState, Processes, Runs
<1>8. Progress'
  BY <1>1, <1>2, <1>3 DEF Forks, Progress, NoFault
<1> QED
  BY <1>4, <1>5, <1>6, <1>7, <1>8 DEF MeaningInv

\* A killed main process counts as one, and its child may still finish.
LEMMA KilledRight == ASSUME PlacesInv, MeaningInv, Killed PROVE MeaningInv'
<1>1. /\ run > 0 /\ run' = run /\ Main' = Main /\ Child' = Child
      /\ text' = text /\ clean' = clean /\ faults'.here
  BY DEF Killed, Main, Child, Fault
<1>2. /\ UnitRight /\ ParserFollowsGrammar /\ CodeMeansText /\ CleanState /\ Progress
      /\ TermsOf' = TermsOf /\ \A x : Right(x)' <=> Right(x)
  BY <1>1, StaysRight DEF MeaningInv
<1>3. /\ Main \in Processes /\ Child \in Processes /\ Main # Child /\ run \in Runs
  <2>1. run \in 0 .. Len(Inputs)
    BY DEF PlacesInv, Types
  <2> QED
    BY <1>1, <2>1, ProcessParts
<1>4. PICK dead \in SUBSET {Main, Child} \ {{}} :
        /\ \A p \in dead : Alive(p)
        /\ pc' = [p \in Processes |-> IF p \in dead THEN "none" ELSE pc[p]]
        /\ handle' = [p \in Processes |-> IF p \in dead THEN Nothing ELSE handle[p]]
        /\ object' = IF Child \in dead THEN [object EXCEPT ![run] = Nothing] ELSE object
        /\ status' = IF Main \in dead THEN "killed" ELSE status
  BY DEF Killed
<1>5. /\ \A q \in Processes : pc'[q] = IF q \in dead THEN "none" ELSE pc[q]
      /\ handle'[Main] = IF Main \in dead THEN Nothing ELSE handle[Main]
      /\ object'[run] = IF Child \in dead THEN Nothing ELSE object[run]
      /\ unit' = IF pc'[Main] = "none" THEN Nothing ELSE unit
      /\ UNCHANGED <<source, library, printed>>
      /\ \A p \in dead : pc[p] # "none"
  BY <1>3, <1>4 DEF Killed, PlacesInv, Types, Alive
<1>6. UnitRight'
  BY <1>1, <1>2, <1>3, <1>5 DEF UnitRight
<1>7. ParserFollowsGrammar'
  BY <1>1, <1>2, <1>3, <1>5 DEF ParserFollowsGrammar
<1>8. CodeMeansText'
  BY <1>1 DEF CodeMeansText
<1>9. CleanState'
  BY <1>1, <1>2, <1>3, <1>4, <1>5 DEF CleanState, Nothing
<1>10. Progress'
  BY <1>1 DEF Progress
<1> QED
  BY <1>6, <1>7, <1>8, <1>9, <1>10 DEF MeaningInv

-----------------------------------------------------------------------------
(* A run begins.                                                           *)

\* Where a run begins only children of earlier runs are left.
LEMMA Before ==
    ASSUME PlacesInv, NEW room, Begins(room)
    PROVE  /\ run' = run + 1 /\ run' \in Runs /\ run' \in 0 .. Len(Inputs) /\ run' > 0 /\ run \in Nat
           /\ Main' \in Processes /\ Child' \in Processes /\ Main' # Child'
           /\ Main'[1] = "main" /\ Child'[1] = "child" /\ Child'[2] = run'
           /\ \A p \in Processes : pc[p] # "none" => p[1] = "child" /\ p[2] <= run
           /\ pc[Main'] = "none" /\ pc[Child'] = "none"
           /\ text' \in Texts /\ text' \in Seq(STRING) /\ Len(text') <= MaxText
           /\ \A p \in Processes : Placed(p) /\ (p[1] = "child" => p[2] \in Runs)
<1>1. /\ run \in 0 .. Len(Inputs) /\ run < Len(Inputs) /\ run' = run + 1 /\ Types
      /\ Len(Inputs) \in Nat /\ Runs = 1 .. Len(Inputs)
      /\ \A p \in Processes : Placed(p)
  BY ProcessParts DEF PlacesInv, Types, Begins
<1>2. \A n, m \in Nat : n < m => n + 1 \in 1 .. m /\ n + 1 \in 0 .. m /\ n + 1 > 0 /\ ~ (n + 1 <= n)
  OBVIOUS
<1>3. run \in Nat /\ run' \in Runs /\ run' \in 0 .. Len(Inputs) /\ run' > 0 /\ ~ (run' <= run)
  BY <1>1, <1>2
<1>4. /\ Main' \in Processes /\ Child' \in Processes /\ Main' # Child'
      /\ Main'[1] = "main" /\ Child'[1] = "child" /\ Child'[2] = run'
  <2>1. /\ \A r \in Runs : <<"child", r>> \in Processes /\ <<"main", r>> \in Processes
        /\ Main' = <<"main", run'>> /\ Child' = <<"child", run'>>
    BY <1>1, ProcessParts DEF Main, Child
  <2> QED
    BY <1>3, <2>1
<1>5. ASSUME NEW p \in Processes, pc[p] # "none" PROVE p[1] = "child" /\ p[2] <= run
  <2>1. p = Main \/ (p[1] = "child" /\ p[2] <= run)
    BY <1>1, <1>5 DEF Placed, Alive
  <2>2. p # Main
    <3>1. CASE run > 0
      BY <1>5, <3>1 DEF Begins, Alive
    <3>2. CASE run = 0
      <4>1. p[2] \in Runs
        BY <1>1, ProcessParts
      <4> QED
        BY <1>1, <3>2, <4>1 DEF Main
    <3> QED
      BY <1>3, <3>1, <3>2
  <2> QED
    BY <2>1, <2>2
<1>6. pc[Main'] = "none" /\ pc[Child'] = "none"
  BY <1>3, <1>4, <1>5
<1>7. text' \in Texts /\ text' \in Seq(STRING) /\ Len(text') <= MaxText
  <2>1. text' \in Inputs[run'] /\ Inputs[run'] \in SUBSET Seq(STRING)
    BY <1>1, <1>3, CalculatorAssumption DEF Begins, Runs
  <2>2. text' \in Texts
    BY <1>3, <2>1 DEF Texts
  <2> QED
    BY <2>1, <2>2, CalculatorAssumption
<1>8. \A p \in Processes : Placed(p) /\ (p[1] = "child" => p[2] \in Runs)
  BY <1>1, ProcessParts
<1> QED
  BY <1>1, <1>3, <1>4, <1>5, <1>6, <1>7, <1>8

\* A run that begins has its main process in place.
LEMMA BeginsPlaces ==
    ASSUME PlacesInv, NEW room, Begins(room),
           faults' = [all |-> faults'.all, here |-> faults'.here],
           faults'.all \in 0 .. MaxFaults, faults'.here \in BOOLEAN
    PROVE  PlacesInv'
<1>1. \/ status' = "running" /\ unit' # Nothing /\ pc' = [pc EXCEPT ![Main'] = "write"]
      \/ status' \in {"aborted", "rejected", "crashed"} /\ unit' = Nothing /\ pc' = pc
  <2>1. \A x, y : [tree |-> x, term |-> y] # <<>>
    <3> SUFFICES ASSUME NEW x, NEW y, [tree |-> x, term |-> y] = <<>> PROVE FALSE
      OBVIOUS
    <3>1. DOMAIN [tree |-> x, term |-> y] = {"tree", "term"}
      OBVIOUS
    <3>2. DOMAIN <<>> = {}
      OBVIOUS
    <3> QED
      BY <3>1, <3>2
  <2>2. Main' = <<"main", run + 1>>
    BY DEF Begins, Main
  <2>3. \/ text' = <<>> /\ status' = "aborted" /\ unit' = Nothing /\ pc' = pc
        \/ /\ Parse(text', room).dag # Null /\ status' = "running"
           /\ unit' = [tree |-> Stripped[Parse(text', room).dag],
                       term |-> Meaning(text', Generate(Parse(text', room).dag))]
           /\ pc' = [pc EXCEPT ![<<"main", run + 1>>] = "write"]
        \/ Parse(text', room).dag = Null /\ status' = "rejected" /\ unit' = Nothing /\ pc' = pc
        \/ Parse(text', room).bad /\ status' = "crashed" /\ unit' = Nothing /\ pc' = pc
    BY DEF Begins
  <2> QED
    BY <2>1, <2>2, <2>3 DEF Nothing
<1>2. Types'
  <2>1. Types /\ pc' \in [Processes -> Points] /\ clean' \in BOOLEAN
    BY <1>1, Before DEF PlacesInv, Types, Points, Begins
  <2> QED
    BY <1>1, <2>1, Before, SMTT(30) DEF Types, Begins
<1>3. ASSUME NEW p \in Processes PROVE Placed(p)'
  <2>1. pc'[p] = pc[p] \/ (p = Main' /\ pc'[p] = "write")
    BY <1>1, Before DEF PlacesInv, Types
  <2>2. handle' = handle /\ object' = object
    BY DEF Begins
  <2>3. p[1] = "child" => p # Main'
    BY Before
  <2>4. p[1] = "child" /\ p[2] <= run => p[2] <= run'
    <3>1. \A n, m \in Int : n <= m => n <= m + 1
      OBVIOUS
    <3>2. p[1] = "child" => p[2] \in Int
      BY Before, CalculatorAssumption DEF Runs
    <3> QED
      BY <3>1, <3>2, Before
  <2>5. pc[p] # "none" => p[1] = "child" /\ p[2] <= run
    BY Before
  <2>6. Placed(p) /\ pc[Main'] = "none"
    BY Before
  <2>7. pc[p] \in {"none", "exec", "compile", "link", "load", "print", "delete"}
    <3>1. p = Main => pc[p] = "none"
      BY <2>5, Before DEF Main
    <3> QED
      BY <2>6, <3>1 DEF Placed, PlacesInv, Types, Points
  <2> QED
    BY <2>1, <2>2, <2>3, <2>4, <2>5, <2>6, <2>7 DEF Placed, Alive
<1>4. MainPlaced'
  BY <1>1, Before DEF MainPlaced, Alive, PlacesInv, Types
<1>5. Processes' = Processes
  BY DEF Processes, Runs
<1> QED
  BY <1>2, <1>3, <1>4, <1>5 DEF PlacesInv

\* A run begins with the tree of its text and the C for it, or with none.
LEMMA BeginsRight ==
    ASSUME PlacesInv, PlacesInv', NEW room \in Nat, Begins(room), MaxText <= room \/ faults'.here
    PROVE  MeaningInv'
<1> DEFINE q == Parse(text', room)
<1>1. /\ q.dag \in Dag
      /\ q.dag # Null =>
           /\ ~ q.bad /\ Whole(q.dag)
           /\ "i" \in ToSet(text') <=> \E v \in Leaves(q.dag) : text'[v] = "i"
           /\ Terms(text') = {Stripped[q.dag]}
      /\ q.dag = Null /\ MaxText <= room => Terms(text') = {}
  BY Before, ParseIsRight
<1>2. TermsOf' = TermsOf /\ TermsOf[text'] = Terms(text')
  BY Before DEF TermsOf, Texts, Runs
<1>3. q.dag # Null =>
        /\ Meaning(text', Generate(q.dag))
           = IF "i" \in ToSet(text') THEN NoProgram ELSE Stripped[q.dag]
        /\ Stripped[q.dag] # NoProgram
  BY <1>1, CodeIsRight, StrippedIsTerm
<1>4. \/ /\ status' = "running" /\ q.dag # Null /\ pc' = [pc EXCEPT ![Main'] = "write"]
         /\ unit' = [tree |-> Stripped[q.dag], term |-> Meaning(text', Generate(q.dag))]
      \/ status' = "aborted" /\ pc' = pc
      \/ status' \in {"rejected", "crashed"} /\ pc' = pc /\ (q.dag = Null \/ q.bad)
  <2>1. Main' = <<"main", run + 1>>
    BY DEF Begins, Main
  <2>2. \/ text' = <<>> /\ status' = "aborted" /\ unit' = Nothing /\ pc' = pc
        \/ /\ Parse(text', room).dag # Null /\ status' = "running"
           /\ unit' = [tree |-> Stripped[Parse(text', room).dag],
                       term |-> Meaning(text', Generate(Parse(text', room).dag))]
           /\ pc' = [pc EXCEPT ![<<"main", run + 1>>] = "write"]
        \/ Parse(text', room).dag = Null /\ status' = "rejected" /\ unit' = Nothing /\ pc' = pc
        \/ Parse(text', room).bad /\ status' = "crashed" /\ unit' = Nothing /\ pc' = pc
    BY DEF Begins
  <2> QED
    BY <2>1, <2>2
<1> HIDE DEF q
<1>5. status' \in {"rejected", "crashed"} => faults'.here \/ TermsOf'[text'] = {}
  BY <1>1, <1>2, <1>4
<1>6. /\ pc'[Child'] = "none" /\ pc'[Main'] \in {"write", "none"}
      /\ \A p \in Processes : p # Main' => pc'[p] = pc[p]
  BY <1>4, Before DEF PlacesInv, Types
<1>7. pc'[Main'] = "write" => q.dag # Null /\ unit' = [tree |-> Stripped[q.dag], term |-> Meaning(text', Generate(q.dag))]
  BY <1>4, Before
<1>8. UnitRight'
  BY <1>1, <1>2, <1>3, <1>7 DEF UnitRight
<1>9. ParserFollowsGrammar'
  BY <1>1, <1>2, <1>5, <1>7 DEF ParserFollowsGrammar
<1>10. CodeMeansText'
  BY <1>6 DEF CodeMeansText
<1>11. CleanState'
  <2>1. /\ printed' = <<>> /\ object' = object /\ handle' = handle /\ library' = library
        /\ clean' => library = Nothing /\ \A p \in Processes : pc[p] = "none"
    BY DEF Begins, Alive
  <2>2. handle'[Main'] = Nothing /\ object'[run'] = Nothing
    BY <1>6, Before DEF PlacesInv, Placed
  <2> QED
    BY <1>6, <2>1, <2>2 DEF CleanState, Nothing
<1>12. Progress'
  BY <1>6 DEF Progress
<1> QED
  BY <1>8, <1>9, <1>10, <1>11, <1>12 DEF MeaningInv

\* Every step keeps the invariant.
LEMMA NextRight == PlacesInv /\ MeaningInv /\ [Next]_vars => PlacesInv' /\ MeaningInv'
<1> SUFFICES ASSUME PlacesInv, MeaningInv, [Next]_vars PROVE PlacesInv' /\ MeaningInv'
  OBVIOUS
<1>1. Types /\ MaxText \in Nat /\ MaxRoom \in Nat /\ MaxText <= MaxText
  BY TextAssumption, CalculatorAssumption DEF PlacesInv
<1>2. CASE Begin
  <2>1. Begins(MaxText) /\ faults' = [faults EXCEPT !.here = FALSE]
    BY <1>2 DEF Begin
  <2>2. /\ faults' = [all |-> faults'.all, here |-> faults'.here]
        /\ faults'.all \in 0 .. MaxFaults /\ faults'.here \in BOOLEAN
    BY <1>1, <2>1 DEF Types
  <2>3. PlacesInv'
    BY <2>1, <2>2, BeginsPlaces
  <2> QED
    BY <1>1, <2>1, <2>3, BeginsRight
<1>3. CASE BeginWithoutMemory
  <2>1. PICK room \in 0 .. MaxRoom : Begins(room)
    BY <1>3 DEF BeginWithoutMemory
  <2>2. room \in Nat /\ Fault /\ faults'.here
    BY <1>1, <1>3 DEF BeginWithoutMemory, Fault
  <2>3. PlacesInv'
    BY <1>1, <2>1, <2>2, FaultParts, BeginsPlaces
  <2> QED
    BY <2>1, <2>2, <2>3, BeginsRight
<1>4. ASSUME NEW p \in Processes, Step(p) PROVE PlacesInv' /\ MeaningInv'
  <2>1. CASE Writes(p)
    BY <2>1, WritesPlaces, WritesRight
  <2>2. CASE Forks(p)
    BY <2>2, ForksPlaces, ForksRight
  <2>3. CASE Executes(p)
    BY <2>3, ExecutesPlaces, ExecutesRight
  <2>4. CASE Compiles(p)
    BY <2>4, CompilesPlaces, CompilesRight
  <2>5. CASE Links(p)
    BY <2>5, LinksPlaces, LinksRight
  <2>6. CASE Waits(p)
    BY <2>6, WaitsPlaces, WaitsRight
  <2>7. CASE Loads(p)
    BY <2>7, LoadsPlaces, LoadsRight
  <2>8. CASE Prints(p)
    BY <2>8, PrintsPlaces, PrintsRight
  <2>9. CASE Deletes(p)
    BY <2>9, DeletesPlaces, DeletesRight
  <2> QED
    BY <1>4, <2>1, <2>2, <2>3, <2>4, <2>5, <2>6, <2>7, <2>8, <2>9 DEF Step
<1>5. ASSUME NEW p \in Processes, Fails(p) PROVE PlacesInv' /\ MeaningInv'
  <2>1. CASE FailsToOpen(p)
    BY <2>1, FailsToOpenPlaces, FailsToOpenRight
  <2>2. CASE FailsToFork(p)
    BY <2>2, FailsToForkPlaces, FailsToForkRight
  <2>3. CASE FailsToCompile(p)
    BY <2>3, FailsToCompilePlaces, FailsToCompileRight
  <2>4. CASE FailsToWait(p)
    BY <2>4, FailsToWaitPlaces, FailsToWaitRight
  <2>5. CASE FailsToLoad(p)
    BY <2>5, FailsToLoadPlaces, FailsToLoadRight
  <2> QED
    BY <1>5, <2>1, <2>2, <2>3, <2>4, <2>5 DEF Fails
<1>6. CASE Killed
  BY <1>6, KilledPlaces, KilledRight
<1>7. CASE UNCHANGED vars
  <2>1. UNCHANGED <<run, pc, text, unit, source, object, library, handle, printed, status, clean, faults>>
    BY <1>7 DEF vars
  <2>2. PlacesInv'
    BY <2>1 DEF PlacesInv, Types, Points, Placed, MainPlaced, Alive, Main, Child, Nothing, Processes, Runs, Texts
  <2>3. MeaningInv'
    <3>1. Main' = Main /\ Child' = Child /\ TermsOf' = TermsOf /\ \A x : Right(x)' <=> Right(x)
      BY <2>1, StaysRight DEF Main, Child
    <3> QED
      BY <2>1, <3>1 DEF MeaningInv, UnitRight, ParserFollowsGrammar, CodeMeansText, CleanState, Progress,
                        Processes, Runs
  <2> QED
    BY <2>2, <2>3
<1> QED
  BY <1>2, <1>3, <1>4, <1>5, <1>6, <1>7 DEF Next

-----------------------------------------------------------------------------
(* The theorems.                                                           *)

\* The invariant holds in every state of every run.
LEMMA InvHolds == Spec => [](PlacesInv /\ MeaningInv)
<1>1. Init => PlacesInv /\ MeaningInv
  BY InitRight
<1>2. PlacesInv /\ MeaningInv /\ [Next]_vars => (PlacesInv /\ MeaningInv)'
  BY NextRight
<1> QED
  BY <1>1, <1>2, PTL DEF Spec

\* The parser accepts the texts of the grammar in its comments and no other, and its
\* tree is the one that the grammar gives, of which there is one only (parser.c).
THEOREM ParserAlwaysFollowsGrammar == Spec => []ParserFollowsGrammar
<1>1. PlacesInv /\ MeaningInv => ParserFollowsGrammar
  BY DEF MeaningInv
<1> QED
  BY <1>1, InvHolds, PTL

\* The C that is written for a text computes the term of that text; only a number for
\* which C has no literal makes it no program (main.c, reflect).
THEOREM CodeAlwaysMeansText == Spec => []CodeMeansText
<1>1. PlacesInv /\ MeaningInv => CodeMeansText
  BY DEF MeaningInv
<1> QED
  BY <1>1, InvHolds, PTL

\* Whatever fails and whoever is killed, a run that starts with no out.so and no
\* compiler prints the value of its own text or nothing, once, and leaves no out.so
\* unless it was killed or could not wait (jitc.c, main.c).
THEOREM CleanRunIsAlwaysSafe == Spec => []CleanRunIsSafe
<1>1. PlacesInv /\ MeaningInv => CleanRunIsSafe
  <2> SUFFICES ASSUME PlacesInv, MeaningInv PROVE CleanRunIsSafe
    OBVIOUS
  <2>1. run = 0 \/ run > 0
    BY CalculatorAssumption DEF PlacesInv, Types, Runs
  <2>2. run = 0 => library = Nothing /\ printed = <<>>
    BY DEF PlacesInv, Types
  <2>3. CleanRunNeverLies
    <3>1. CASE run = 0
      BY <2>2, <3>1 DEF CleanRunNeverLies
    <3>2. CASE run > 0
      BY <3>2 DEF CleanRunNeverLies, MeaningInv, CleanState, Right
    <3> QED
      BY <2>1, <3>1, <3>2
  <2>4. CleanRunCleansUp
    <3>1. CASE run = 0
      BY <2>2, <3>1 DEF CleanRunCleansUp
    <3>2. CASE run > 0
      <4>1. Main \in Processes
        BY <3>2, ProcessParts DEF PlacesInv, Types
      <4> QED
        BY <3>2, <4>1 DEF CleanRunCleansUp, MeaningInv, CleanState, Alone, Alive
    <3> QED
      BY <2>1, <3>1, <3>2
  <2> QED
    BY <2>3, <2>4, InvIsTyped DEF CleanRunIsSafe
<1> QED
  BY <1>1, InvHolds, PTL
=============================================================================
