--------------------------- MODULE WordTreeProofs ---------------------------
(***************************************************************************)
(* Proofs about WordTree, for every set of words, every size of the file   *)
(* and of its blocks, and every bound on the insertions: avl.c keeps a     *)
(* search tree, balanced, with counters that agree; its calls are those    *)
(* of a bag of words; and a process killed inside one of them leaves the   *)
(* words in order.                                                         *)
(*                                                                         *)
(* Sound says of a tree what IsSearchTree says of the root.  It is kept by *)
(* update because of what a subtree that became deeper looks like: it      *)
(* leans to the side of the new word, never to none (OneMore), so that one *)
(* rotation, chosen by comparing words and not depths, is enough.  Of      *)
(* remove_node it is enough that a subtree loses at most one level         *)
(* (OneLess).  The rotations are done once, on a node p over any two       *)
(* subtrees that differ by two levels (LeaningLeft, LeaningRight).         *)
(*                                                                         *)
(* A tree on the way is Weak: in order, with one word perhaps twice.  What *)
(* it shows of each word is no more than the tree it came from (AtMost);   *)
(* both go up through the node above (Around, AroundNext), whatever write  *)
(* was the last.                                                           *)
(*                                                                         *)
(* Trees are bounded, and recursion on them is well-founded because the    *)
(* bound goes down (Upwards, OverTrees).  That an insertion stays below it *)
(* is proved from the counter: a tree with that many levels has as many    *)
(* copies (DepthBound).                                                    *)
(***************************************************************************)
EXTENDS WordTree, FiniteSetTheorems, WellFoundedInduction, TLAPS

-----------------------------------------------------------------------------
(* Trees.                                                                  *)

\* A set of natural numbers with 0 and the successor of each is all of them, up to m.
LEMMA Upwards ==
    ASSUME NEW m \in Nat, NEW S, 0 \in S, \A n \in 0 .. m - 1 : n \in S => n + 1 \in S
    PROVE  0 .. m \subseteq S
<1> SUFFICES ASSUME (0 .. m) \ S # {} PROVE FALSE
  OBVIOUS
<1> DEFINE T == (0 .. m) \ S
<1>1. T \in SUBSET Nat
  OBVIOUS
<1>2. PICK x \in T : \A y \in T : ~ (<<y, x>> \in OpToRel(<, Nat))
  BY <1>1, NatLessThanWellFounded, WFMin
<1>3. x \in 0 .. m /\ x # 0 /\ x \notin S
  OBVIOUS
<1>4. x - 1 \in 0 .. m - 1 /\ x - 1 \in Nat /\ x \in Nat /\ x - 1 < x
  BY <1>3
<1>5. x - 1 \in S
  <2>1. x - 1 \notin T
    BY <1>2, <1>4 DEF OpToRel
  <2>2. x - 1 \in 0 .. m
    BY <1>4
  <2> QED
    BY <2>1, <2>2
<1>6. (x - 1) + 1 \in S
  BY <1>4, <1>5
<1> QED
  BY <1>3, <1>4, <1>6

\* The nodes over subtrees in T.
Over(T) == [item : Words, count : Nat \ {0}, depth : Nat, left : T, right : T,
            at : Blocks, str : Blocks]

\* Nil is no record of a node.
LEMMA NilIsNoNode == ASSUME NEW T PROVE Nil \notin Over(T)
<1> SUFFICES ASSUME Nil \in Over(T) PROVE FALSE
  OBVIOUS
<1>1. DOMAIN Nil = {"item", "count", "depth", "left", "right", "at", "str"}
  BY DEF Over
<1>2. DOMAIN Nil = {}
  BY DEF Nil
<1> QED
  BY <1>1, <1>2

\* What the levels of trees are.
LEMMA TreesAre ==
    /\ Trees[0] = {Nil}
    /\ \A n \in 0 .. MaxItems - 1 : Trees[n + 1] = {Nil} \cup Over(Trees[n])
<1> DEFINE Step(g, n) == IF n = 0 THEN {Nil} ELSE {Nil} \cup Over(g[n - 1])
           S == {n \in Nat : \E g : g = [i \in 0 .. n |-> Step(g, i)]}
<1>0. MaxItems \in Nat
  BY TreeAssumption
<1>1. 0 \in S
  <2> DEFINE g == [i \in 0 .. 0 |-> {Nil}]
  <2>1. g = [i \in 0 .. 0 |-> Step(g, i)]
    OBVIOUS
  <2> QED
    BY <2>1
<1>2. \A n \in 0 .. MaxItems - 1 : n \in S => n + 1 \in S
  <2> SUFFICES ASSUME NEW n \in 0 .. MaxItems - 1, n \in S PROVE n + 1 \in S
    OBVIOUS
  <2>1. PICK g : g = [i \in 0 .. n |-> Step(g, i)]
    OBVIOUS
  <2> DEFINE h == [i \in 0 .. n + 1 |-> Step(g, i)]
  <2>2. \A i \in 0 .. n : h[i] = g[i]
    <3> TAKE i \in 0 .. n
    <3>1. i \in 0 .. n + 1
      BY <1>0
    <3> HIDE DEF Step
    <3>2. g[i] = Step(g, i)
      BY <2>1
    <3>3. h[i] = Step(g, i)
      BY <3>1
    <3> QED
      BY <3>2, <3>3
  <2>3. \A i \in 0 .. n + 1 : Step(g, i) = Step(h, i)
    <3> TAKE i \in 0 .. n + 1
    <3>1. CASE i = 0
      BY <3>1
    <3>2. CASE i # 0
      <4>1. i - 1 \in 0 .. n
        BY <1>0, <3>2
      <4>2. h[i - 1] = g[i - 1]
        BY <2>2, <4>1
      <4> HIDE DEF h
      <4> QED
        BY <3>2, <4>2
    <3> QED
      BY <3>1, <3>2
  <2>4. h = [i \in 0 .. n + 1 |-> Step(h, i)]
    BY <2>3
  <2> HIDE DEF h
  <2> QED
    BY <1>0, <2>4
<1>3. MaxItems \in S
  <2> HIDE DEF S
  <2>1. 0 .. MaxItems \subseteq S
    BY <1>0, <1>1, <1>2, Upwards
  <2> QED
    BY <1>0, <2>1
<1>4. \E g : g = [n \in 0 .. MaxItems |-> Step(g, n)]
  BY <1>3
<1>5. Trees = [n \in 0 .. MaxItems |-> Step(Trees, n)]
  <2>1. Trees = CHOOSE g : g = [n \in 0 .. MaxItems |-> Step(g, n)]
    BY DEF Trees, Over
  <2> HIDE DEF Step
  <2> QED
    BY <1>4, <2>1
<1>6. Trees[0] = Step(Trees, 0)
  BY <1>0, <1>5
<1>7. \A n \in 0 .. MaxItems - 1 : Trees[n + 1] = {Nil} \cup Over(Trees[n])
  <2> TAKE n \in 0 .. MaxItems - 1
  <2>1. n + 1 \in 0 .. MaxItems /\ n + 1 # 0 /\ (n + 1) - 1 = n
    BY <1>0
  <2>2. Trees[n + 1] = Step(Trees, n + 1)
    BY <1>5, <2>1
  <2> QED
    BY <2>1, <2>2
<1> QED
  BY <1>6, <1>7

\* A tree of some levels is one of more.
LEMMA TreesGrow ==
    ASSUME NEW n \in 0 .. MaxItems - 1
    PROVE  Trees[n] \subseteq Trees[n + 1]
<1> DEFINE S == {k \in Nat : k <= MaxItems - 1 => Trees[k] \subseteq Trees[k + 1]}
<1>0. MaxItems \in Nat /\ MaxItems - 1 \in Nat
  BY TreeAssumption
<1>1. 0 \in S
  BY <1>0, TreesAre
<1>2. \A k \in 0 .. (MaxItems - 1) - 1 : k \in S => k + 1 \in S
  <2> SUFFICES ASSUME NEW k \in 0 .. (MaxItems - 1) - 1, Trees[k] \subseteq Trees[k + 1]
               PROVE  Trees[k + 1] \subseteq Trees[(k + 1) + 1]
    BY <1>0
  <2>1. k \in 0 .. MaxItems - 1 /\ k + 1 \in 0 .. MaxItems - 1
    BY <1>0
  <2>2. /\ Trees[k + 1] = {Nil} \cup Over(Trees[k])
        /\ Trees[(k + 1) + 1] = {Nil} \cup Over(Trees[k + 1])
    BY <2>1, TreesAre
  <2>3. Over(Trees[k]) \subseteq Over(Trees[k + 1])
    BY DEF Over
  <2> QED
    BY <2>2, <2>3
<1> HIDE DEF S
<1>3. 0 .. MaxItems - 1 \subseteq S
  BY <1>0, <1>1, <1>2, Upwards
<1> QED
  BY <1>0, <1>3 DEF S

\* A tree of some levels is one of any greater number.
LEMMA TreesNest ==
    ASSUME NEW n \in 0 .. MaxItems, NEW m \in 0 .. MaxItems, n <= m
    PROVE  Trees[n] \subseteq Trees[m]
<1> DEFINE S == {k \in Nat : n + k <= MaxItems => Trees[n] \subseteq Trees[n + k]}
<1>0. MaxItems \in Nat /\ m - n \in Nat /\ m - n \in 0 .. MaxItems /\ n + (m - n) = m
  BY TreeAssumption
<1>1. 0 \in S
  BY <1>0
<1>2. \A k \in 0 .. MaxItems - 1 : k \in S => k + 1 \in S
  <2> SUFFICES ASSUME NEW k \in 0 .. MaxItems - 1, k \in S, n + (k + 1) <= MaxItems
               PROVE  Trees[n] \subseteq Trees[n + (k + 1)]
    BY <1>0
  <2>1. n + k \in 0 .. MaxItems - 1 /\ n + (k + 1) = (n + k) + 1
    BY <1>0
  <2>2. Trees[n + k] \subseteq Trees[(n + k) + 1]
    BY <2>1, TreesGrow
  <2>3. Trees[n] \subseteq Trees[n + k]
    BY <1>0, <2>1
  <2> QED
    BY <2>1, <2>2, <2>3
<1> HIDE DEF S
<1>3. m - n \in S
  BY <1>0, <1>1, <1>2, Upwards
<1> QED
  BY <1>0, <1>3 DEF S

\* All are trees.
LEMMA TreesInTree ==
    ASSUME NEW n \in 0 .. MaxItems
    PROVE  Trees[n] \subseteq Tree
BY TreesNest, TreeAssumption DEF Tree

\* What the node of a tree is made of.
LEMMA TreeParts ==
    ASSUME NEW n \in 0 .. MaxItems, NEW t \in Trees[n], t # Nil
    PROVE  /\ n - 1 \in 0 .. MaxItems - 1
           /\ t \in Over(Trees[n - 1])
           /\ t.left \in Trees[n - 1] /\ t.right \in Trees[n - 1]
           /\ t.left \in Tree /\ t.right \in Tree
           /\ t.item \in Words /\ t.count \in Nat \ {0} /\ t.depth \in Nat
           /\ t.at \in Blocks /\ t.str \in Blocks
<1>0. MaxItems \in Nat
  BY TreeAssumption
<1>1. n # 0
  BY TreesAre
<1>2. n - 1 \in 0 .. MaxItems - 1 /\ n - 1 \in 0 .. MaxItems /\ (n - 1) + 1 = n
  BY <1>0, <1>1
<1>3. t \in Over(Trees[n - 1])
  BY <1>2, TreesAre
<1>4. Trees[n - 1] \subseteq Tree
  BY <1>2, TreesInTree
<1> QED
  BY <1>2, <1>3, <1>4 DEF Over

\* The empty tree has no level.
LEMMA NilIsTree ==
    ASSUME NEW n \in 0 .. MaxItems
    PROVE  Nil \in Trees[n] /\ Nil \in Tree
<1>0. MaxItems \in Nat /\ 0 \in 0 .. MaxItems
  BY TreeAssumption
<1>1. Nil \in Trees[0]
  BY TreesAre
<1> QED
  BY <1>0, <1>1, TreesNest, TreesInTree

\* The bound is one of the numbers of levels.
LEMMA TreeTop == MaxItems \in 0 .. MaxItems /\ Tree = Trees[MaxItems]
BY TreeAssumption DEF Tree

\* Nodes is what its definition says of it.
LEMMA NodesAre ==
    \A t \in Tree : Nodes[t] = IF t = Nil THEN {}
                              ELSE {t} \cup Nodes[t.left] \cup Nodes[t.right]
<1> DEFINE Step(g, t) ==
             IF t = Nil THEN {} ELSE {t} \cup g[t.left] \cup g[t.right]
           S == {n \in Nat : \E g : g = [t \in Trees[n] |-> Step(g, t)]}
<1>0. MaxItems \in Nat /\ Tree = Trees[MaxItems]
  BY TreeAssumption DEF Tree
<1>1. 0 \in S
  <2> DEFINE g == [t \in Trees[0] |-> Step([s \in {} |-> s], Nil)]
  <2>1. \A t \in Trees[0] : t = Nil
    BY TreesAre
  <2>2. \A t \in Trees[0] : Step([s \in {} |-> s], Nil) = Step(g, t)
    BY <2>1
  <2>3. g = [t \in Trees[0] |-> Step(g, t)]
    BY <2>2
  <2> HIDE DEF g
  <2> QED
    BY <2>3
<1>2. \A n \in 0 .. MaxItems - 1 : n \in S => n + 1 \in S
  <2> SUFFICES ASSUME NEW n \in 0 .. MaxItems - 1, n \in S PROVE n + 1 \in S
    OBVIOUS
  <2>1. PICK g : g = [t \in Trees[n] |-> Step(g, t)]
    OBVIOUS
  <2> DEFINE h == [t \in Trees[n + 1] |-> Step(g, t)]
  <2>2. \A t \in Trees[n] : h[t] = g[t]
    <3> TAKE t \in Trees[n]
    <3>1. t \in Trees[n + 1]
      BY TreesGrow
    <3> HIDE DEF Step
    <3>2. g[t] = Step(g, t)
      BY <2>1
    <3>3. h[t] = Step(g, t)
      BY <3>1
    <3> QED
      BY <3>2, <3>3
  <2>3. \A t \in Trees[n + 1] : Step(g, t) = Step(h, t)
    <3> TAKE t \in Trees[n + 1]
    <3>1. CASE t = Nil
      BY <3>1
    <3>2. CASE t # Nil
      <4>1. n + 1 \in 0 .. MaxItems /\ (n + 1) - 1 = n
        BY <1>0
      <4>2. t.left \in Trees[n] /\ t.right \in Trees[n]
        BY <3>2, <4>1, TreeParts
      <4>3. h[t.left] = g[t.left] /\ h[t.right] = g[t.right]
        BY <2>2, <4>2
      <4> HIDE DEF h
      <4> QED
        BY <3>2, <4>3
    <3> QED
      BY <3>1, <3>2
  <2> HIDE DEF Step
  <2>4. h = [t \in Trees[n + 1] |-> Step(h, t)]
    BY <2>3
  <2> HIDE DEF h
  <2> QED
    BY <1>0, <2>4
<1>3. MaxItems \in S
  <2> HIDE DEF S
  <2>1. 0 .. MaxItems \subseteq S
    BY <1>0, <1>1, <1>2, Upwards
  <2> QED
    BY <1>0, <2>1
<1>4. \E g : g = [t \in Tree |-> Step(g, t)]
  BY <1>0, <1>3
<1>5. Nodes = [t \in Tree |-> Step(Nodes, t)]
  <2>1. Nodes = CHOOSE g : g = [t \in Tree |-> Step(g, t)]
    BY DEF Nodes
  <2> HIDE DEF Step
  <2> QED
    BY <1>4, <2>1
<1> HIDE DEF Step
<1>6. \A t \in Tree : Nodes[t] = Step(Nodes, t)
  BY <1>5
<1> QED
  BY <1>6 DEF Step

\* The same of Copies.
LEMMA CopiesAre ==
    \A t \in Tree : Copies[t] = IF t = Nil THEN 0
                               ELSE t.count + Copies[t.left] + Copies[t.right]
<1> DEFINE Step(g, t) ==
             IF t = Nil THEN 0 ELSE t.count + g[t.left] + g[t.right]
           S == {n \in Nat : \E g : g = [t \in Trees[n] |-> Step(g, t)]}
<1>0. MaxItems \in Nat /\ Tree = Trees[MaxItems]
  BY TreeAssumption DEF Tree
<1>1. 0 \in S
  <2> DEFINE g == [t \in Trees[0] |-> Step([s \in {} |-> s], Nil)]
  <2>1. \A t \in Trees[0] : t = Nil
    BY TreesAre
  <2>2. \A t \in Trees[0] : Step([s \in {} |-> s], Nil) = Step(g, t)
    BY <2>1
  <2>3. g = [t \in Trees[0] |-> Step(g, t)]
    BY <2>2
  <2> HIDE DEF g
  <2> QED
    BY <2>3
<1>2. \A n \in 0 .. MaxItems - 1 : n \in S => n + 1 \in S
  <2> SUFFICES ASSUME NEW n \in 0 .. MaxItems - 1, n \in S PROVE n + 1 \in S
    OBVIOUS
  <2>1. PICK g : g = [t \in Trees[n] |-> Step(g, t)]
    OBVIOUS
  <2> DEFINE h == [t \in Trees[n + 1] |-> Step(g, t)]
  <2>2. \A t \in Trees[n] : h[t] = g[t]
    <3> TAKE t \in Trees[n]
    <3>1. t \in Trees[n + 1]
      BY TreesGrow
    <3> HIDE DEF Step
    <3>2. g[t] = Step(g, t)
      BY <2>1
    <3>3. h[t] = Step(g, t)
      BY <3>1
    <3> QED
      BY <3>2, <3>3
  <2>3. \A t \in Trees[n + 1] : Step(g, t) = Step(h, t)
    <3> TAKE t \in Trees[n + 1]
    <3>1. CASE t = Nil
      BY <3>1
    <3>2. CASE t # Nil
      <4>1. n + 1 \in 0 .. MaxItems /\ (n + 1) - 1 = n
        BY <1>0
      <4>2. t.left \in Trees[n] /\ t.right \in Trees[n]
        BY <3>2, <4>1, TreeParts
      <4>3. h[t.left] = g[t.left] /\ h[t.right] = g[t.right]
        BY <2>2, <4>2
      <4> HIDE DEF h
      <4> QED
        BY <3>2, <4>3
    <3> QED
      BY <3>1, <3>2
  <2> HIDE DEF Step
  <2>4. h = [t \in Trees[n + 1] |-> Step(h, t)]
    BY <2>3
  <2> HIDE DEF h
  <2> QED
    BY <1>0, <2>4
<1>3. MaxItems \in S
  <2> HIDE DEF S
  <2>1. 0 .. MaxItems \subseteq S
    BY <1>0, <1>1, <1>2, Upwards
  <2> QED
    BY <1>0, <2>1
<1>4. \E g : g = [t \in Tree |-> Step(g, t)]
  BY <1>0, <1>3
<1>5. Copies = [t \in Tree |-> Step(Copies, t)]
  <2>1. Copies = CHOOSE g : g = [t \in Tree |-> Step(g, t)]
    BY DEF Copies
  <2> HIDE DEF Step
  <2> QED
    BY <1>4, <2>1
<1> HIDE DEF Step
<1>6. \A t \in Tree : Copies[t] = Step(Copies, t)
  BY <1>5
<1> QED
  BY <1>6 DEF Step

\* The same of find_min.
LEMMA FindMinIs ==
    \A t \in Tree \ {Nil} : FindMin[t] = IF t.left = Nil THEN t ELSE FindMin[t.left]
<1> DEFINE Step(g, t) ==
             IF t.left = Nil THEN t ELSE g[t.left]
           S == {n \in Nat : \E g : g = [t \in Trees[n] \ {Nil} |-> Step(g, t)]}
<1>0. MaxItems \in Nat /\ Tree = Trees[MaxItems]
  BY TreeAssumption DEF Tree
<1>1. 0 \in S
  <2> DEFINE g == [t \in Trees[0] \ {Nil} |-> Nil]
  <2>1. g = [t \in Trees[0] \ {Nil} |-> Step(g, t)]
    BY TreesAre
  <2> QED
    BY <2>1
<1>2. \A n \in 0 .. MaxItems - 1 : n \in S => n + 1 \in S
  <2> SUFFICES ASSUME NEW n \in 0 .. MaxItems - 1, n \in S PROVE n + 1 \in S
    OBVIOUS
  <2>1. PICK g : g = [t \in Trees[n] \ {Nil} |-> Step(g, t)]
    OBVIOUS
  <2> DEFINE h == [t \in Trees[n + 1] \ {Nil} |-> Step(g, t)]
  <2>2. \A t \in Trees[n] \ {Nil} : h[t] = g[t]
    <3> TAKE t \in Trees[n] \ {Nil}
    <3>1. t \in Trees[n + 1] \ {Nil}
      BY TreesGrow
    <3> HIDE DEF Step
    <3>2. g[t] = Step(g, t)
      BY <2>1
    <3>3. h[t] = Step(g, t)
      BY <3>1
    <3> QED
      BY <3>2, <3>3
  <2>3. \A t \in Trees[n + 1] \ {Nil} : Step(g, t) = Step(h, t)
    <3> TAKE t \in Trees[n + 1] \ {Nil}
    <3>1. n + 1 \in 0 .. MaxItems /\ (n + 1) - 1 = n
      BY <1>0
    <3>2. t.left \in Trees[n]
      BY <3>1, TreeParts
    <3>3. t.left # Nil => h[t.left] = g[t.left]
      BY <2>2, <3>2
    <3> HIDE DEF h
    <3> QED
      BY <3>3
  <2> HIDE DEF Step
  <2>4. h = [t \in Trees[n + 1] \ {Nil} |-> Step(h, t)]
    BY <2>3
  <2> HIDE DEF h
  <2> QED
    BY <1>0, <2>4
<1>3. MaxItems \in S
  <2> HIDE DEF S
  <2>1. 0 .. MaxItems \subseteq S
    BY <1>0, <1>1, <1>2, Upwards
  <2> QED
    BY <1>0, <2>1
<1>4. \E g : g = [t \in Tree \ {Nil} |-> Step(g, t)]
  BY <1>0, <1>3
<1>5. FindMin = [t \in Tree \ {Nil} |-> Step(FindMin, t)]
  <2>1. FindMin = CHOOSE g : g = [t \in Tree \ {Nil} |-> Step(g, t)]
    BY DEF FindMin
  <2> HIDE DEF Step
  <2> QED
    BY <1>4, <2>1
<1> HIDE DEF Step
<1>6. \A t \in Tree \ {Nil} : FindMin[t] = Step(FindMin, t)
  BY <1>5
<1> QED
  BY <1>6 DEF Step

\* The same of WithOneCopy.
LEMMA WithOneCopyIs ==
    \A t \in Tree \ {Nil} :
       WithOneCopy[t] = IF t.left = Nil THEN [t EXCEPT !.count = 1]
                        ELSE [t EXCEPT !.left = WithOneCopy[t.left]]
<1> DEFINE Step(g, t) ==
             IF t.left = Nil THEN [t EXCEPT !.count = 1] ELSE [t EXCEPT !.left = g[t.left]]
           S == {n \in Nat : \E g : g = [t \in Trees[n] \ {Nil} |-> Step(g, t)]}
<1>0. MaxItems \in Nat /\ Tree = Trees[MaxItems]
  BY TreeAssumption DEF Tree
<1>1. 0 \in S
  <2> DEFINE g == [t \in Trees[0] \ {Nil} |-> Nil]
  <2>1. g = [t \in Trees[0] \ {Nil} |-> Step(g, t)]
    BY TreesAre
  <2> QED
    BY <2>1
<1>2. \A n \in 0 .. MaxItems - 1 : n \in S => n + 1 \in S
  <2> SUFFICES ASSUME NEW n \in 0 .. MaxItems - 1, n \in S PROVE n + 1 \in S
    OBVIOUS
  <2>1. PICK g : g = [t \in Trees[n] \ {Nil} |-> Step(g, t)]
    OBVIOUS
  <2> DEFINE h == [t \in Trees[n + 1] \ {Nil} |-> Step(g, t)]
  <2>2. \A t \in Trees[n] \ {Nil} : h[t] = g[t]
    <3> TAKE t \in Trees[n] \ {Nil}
    <3>1. t \in Trees[n + 1] \ {Nil}
      BY TreesGrow
    <3> HIDE DEF Step
    <3>2. g[t] = Step(g, t)
      BY <2>1
    <3>3. h[t] = Step(g, t)
      BY <3>1
    <3> QED
      BY <3>2, <3>3
  <2>3. \A t \in Trees[n + 1] \ {Nil} : Step(g, t) = Step(h, t)
    <3> TAKE t \in Trees[n + 1] \ {Nil}
    <3>1. n + 1 \in 0 .. MaxItems /\ (n + 1) - 1 = n
      BY <1>0
    <3>2. t.left \in Trees[n]
      BY <3>1, TreeParts
    <3>3. t.left # Nil => h[t.left] = g[t.left]
      BY <2>2, <3>2
    <3> HIDE DEF h
    <3> QED
      BY <3>3
  <2> HIDE DEF Step
  <2>4. h = [t \in Trees[n + 1] \ {Nil} |-> Step(h, t)]
    BY <2>3
  <2> HIDE DEF h
  <2> QED
    BY <1>0, <2>4
<1>3. MaxItems \in S
  <2> HIDE DEF S
  <2>1. 0 .. MaxItems \subseteq S
    BY <1>0, <1>1, <1>2, Upwards
  <2> QED
    BY <1>0, <2>1
<1>4. \E g : g = [t \in Tree \ {Nil} |-> Step(g, t)]
  BY <1>0, <1>3
<1>5. WithOneCopy = [t \in Tree \ {Nil} |-> Step(WithOneCopy, t)]
  <2>1. WithOneCopy = CHOOSE g : g = [t \in Tree \ {Nil} |-> Step(g, t)]
    BY DEF WithOneCopy
  <2> HIDE DEF Step
  <2> QED
    BY <1>4, <2>1
<1> HIDE DEF Step
<1>6. \A t \in Tree \ {Nil} : WithOneCopy[t] = Step(WithOneCopy, t)
  BY <1>5
<1> QED
  BY <1>6 DEF Step

\* The same of the search in avl_exists.
LEMMA FindIs ==
    ASSUME NEW w
    PROVE  /\ Find(Nil, w) = Nil
           /\ \A t \in Tree \ {Nil} :
                Find(t, w) = IF w = t.item THEN t
                             ELSE Find(IF w < t.item THEN t.left ELSE t.right, w)
<1> DEFINE Step(g, t) ==
             IF t = Nil \/ w = t.item THEN t
             ELSE g[IF w < t.item THEN t.left ELSE t.right]
           S == {n \in Nat : \E g : g = [t \in Trees[n] |-> Step(g, t)]}
<1>0. MaxItems \in Nat /\ Tree = Trees[MaxItems]
  BY TreeAssumption DEF Tree
<1>1. 0 \in S
  <2> DEFINE g == [t \in Trees[0] |-> Step([s \in {} |-> s], Nil)]
  <2>1. \A t \in Trees[0] : t = Nil
    BY TreesAre
  <2>2. \A t \in Trees[0] : Step([s \in {} |-> s], Nil) = Step(g, t)
    BY <2>1
  <2>3. g = [t \in Trees[0] |-> Step(g, t)]
    BY <2>2
  <2> HIDE DEF g
  <2> QED
    BY <2>3
<1>2. \A n \in 0 .. MaxItems - 1 : n \in S => n + 1 \in S
  <2> SUFFICES ASSUME NEW n \in 0 .. MaxItems - 1, n \in S PROVE n + 1 \in S
    OBVIOUS
  <2>1. PICK g : g = [t \in Trees[n] |-> Step(g, t)]
    OBVIOUS
  <2> DEFINE h == [t \in Trees[n + 1] |-> Step(g, t)]
  <2>2. \A t \in Trees[n] : h[t] = g[t]
    <3> TAKE t \in Trees[n]
    <3>1. t \in Trees[n + 1]
      BY TreesGrow
    <3> HIDE DEF Step
    <3>2. g[t] = Step(g, t)
      BY <2>1
    <3>3. h[t] = Step(g, t)
      BY <3>1
    <3> QED
      BY <3>2, <3>3
  <2>3. \A t \in Trees[n + 1] : Step(g, t) = Step(h, t)
    <3> TAKE t \in Trees[n + 1]
    <3>1. CASE t = Nil
      BY <3>1
    <3>2. CASE t # Nil
      <4>1. n + 1 \in 0 .. MaxItems /\ (n + 1) - 1 = n
        BY <1>0
      <4>2. t.left \in Trees[n] /\ t.right \in Trees[n]
        BY <3>2, <4>1, TreeParts
      <4>3. h[t.left] = g[t.left] /\ h[t.right] = g[t.right]
        BY <2>2, <4>2
      <4> HIDE DEF h
      <4> QED
        BY <3>2, <4>3
    <3> QED
      BY <3>1, <3>2
  <2> HIDE DEF Step
  <2>4. h = [t \in Trees[n + 1] |-> Step(h, t)]
    BY <2>3
  <2> HIDE DEF h
  <2> QED
    BY <1>0, <2>4
<1>3. MaxItems \in S
  <2> HIDE DEF S
  <2>1. 0 .. MaxItems \subseteq S
    BY <1>0, <1>1, <1>2, Upwards
  <2> QED
    BY <1>0, <2>1
<1>4. \E g : g = [t \in Tree |-> Step(g, t)]
  BY <1>0, <1>3
<1> DEFINE F == CHOOSE g : g = [t \in Tree |-> Step(g, t)]
<1>5. \A t : Find(t, w) = F[t]
  BY DEF Find
<1> HIDE DEF Step
<1>6. F = [t \in Tree |-> Step(F, t)]
  BY <1>4
<1> HIDE DEF F
<1>7. \A t \in Tree : F[t] = Step(F, t)
  BY <1>6
<1>8. Nil \in Tree
  BY NilIsTree, TreeTop
<1> QED
  BY <1>5, <1>7, <1>8 DEF Step

\* Induction over trees.
LEMMA OverTrees ==
    ASSUME NEW S, Nil \in S,
           \A t \in Tree \ {Nil} : t.left \in S /\ t.right \in S => t \in S
    PROVE  Tree \subseteq S
<1> DEFINE N == {n \in Nat : Trees[n] \subseteq S}
<1>0. MaxItems \in Nat /\ Tree = Trees[MaxItems]
  BY TreeAssumption DEF Tree
<1>1. 0 \in N
  BY TreesAre
<1>2. \A n \in 0 .. MaxItems - 1 : n \in N => n + 1 \in N
  <2> SUFFICES ASSUME NEW n \in 0 .. MaxItems - 1, Trees[n] \subseteq S, NEW t \in Trees[n + 1], t # Nil
               PROVE  t \in S
    BY <1>0
  <2>1. n + 1 \in 0 .. MaxItems /\ (n + 1) - 1 = n
    BY <1>0
  <2>2. t.left \in Trees[n] /\ t.right \in Trees[n]
    BY <2>1, TreeParts
  <2>3. t \in Tree
    BY <2>1, TreesInTree
  <2> QED
    BY <2>2, <2>3
<1> HIDE DEF N
<1>3. MaxItems \in N
  BY <1>0, <1>1, <1>2, Upwards
<1> QED
  BY <1>0, <1>3 DEF N

\* What the parts of a node are.
LEMMA NodeParts ==
    ASSUME NEW t \in Tree, t # Nil
    PROVE  /\ t.left \in Tree /\ t.right \in Tree
           /\ t.item \in Words /\ t.count \in Nat \ {0} /\ t.depth \in Nat
           /\ t.at \in Blocks /\ t.str \in Blocks
           /\ Nodes[t] = {t} \cup Nodes[t.left] \cup Nodes[t.right]
           /\ Copies[t] = t.count + Copies[t.left] + Copies[t.right]
BY TreeTop, TreeParts, NodesAre, CopiesAre

\* What the empty tree has.
LEMMA NilParts == Nodes[Nil] = {} /\ Copies[Nil] = 0 /\ Nil \in Tree
BY NilIsTree, TreeTop, NodesAre, CopiesAre

\* The words of a tree.
Items(t) == {s.item : s \in Nodes[t]}

\* The words of a node and of its subtrees.
LEMMA ItemsAre ==
    /\ Items(Nil) = {}
    /\ \A t \in Tree \ {Nil} : Items(t) = {t.item} \cup Items(t.left) \cup Items(t.right)
<1>1. Items(Nil) = {}
  BY NilParts DEF Items
<1>2. ASSUME NEW t \in Tree \ {Nil}
      PROVE  Items(t) = {t.item} \cup Items(t.left) \cup Items(t.right)
  BY NodeParts DEF Items
<1> QED
  BY <1>1, <1>2

\* A tree has a finite number of nodes, each with a word.
LEMMA NodesTyped ==
    ASSUME NEW t \in Tree
    PROVE  /\ Nodes[t] \in SUBSET (Tree \ {Nil}) /\ IsFiniteSet(Nodes[t])
           /\ Items(t) \in SUBSET Words
           /\ Copies[t] \in Nat
<1> DEFINE S == {s \in Tree : /\ Nodes[s] \in SUBSET (Tree \ {Nil}) /\ IsFiniteSet(Nodes[s])
                              /\ Copies[s] \in Nat}
<1>1. Nil \in S
  BY NilParts, FS_EmptySet
<1>2. ASSUME NEW s \in Tree \ {Nil}, s.left \in S, s.right \in S
      PROVE  s \in S
  <2>1. /\ Nodes[s] = {s} \cup Nodes[s.left] \cup Nodes[s.right]
        /\ Copies[s] = s.count + Copies[s.left] + Copies[s.right] /\ s.count \in Nat
    BY NodeParts
  <2>2. IsFiniteSet(Nodes[s.left] \cup Nodes[s.right])
    BY <1>2, FS_Union
  <2>3. IsFiniteSet((Nodes[s.left] \cup Nodes[s.right]) \cup {s})
    BY <2>2, FS_AddElement
  <2>4. Nodes[s] = (Nodes[s.left] \cup Nodes[s.right]) \cup {s}
    BY <2>1
  <2>5. Copies[s] \in Nat
    BY <1>2, <2>1
  <2>6. Nodes[s] \in SUBSET (Tree \ {Nil})
    BY <1>2, <2>1
  <2> QED
    BY <2>3, <2>4, <2>5, <2>6
<1> HIDE DEF S
<1>3. t \in S
  BY <1>1, <1>2, OverTrees
<1>4. Nodes[t] \in SUBSET (Tree \ {Nil})
  BY <1>3 DEF S
<1>5. \A s \in Tree \ {Nil} : s.item \in Words
  BY NodeParts
<1>6. Items(t) \in SUBSET Words
  BY <1>4, <1>5 DEF Items
<1> QED
  BY <1>3, <1>6 DEF S

-----------------------------------------------------------------------------
(* Search trees.                                                           *)

\* What IsSearchTree says of a node.
Local(t) ==
  /\ \A i \in Items(t.left) : i < t.item
  /\ \A i \in Items(t.right) : i > t.item
  /\ t.depth = Depth(t.left, t.right) /\ Balance(t) \in -1 .. 1

\* A search tree that fits into the bound.
Sound(t) == t \in Tree /\ \A s \in Nodes[t] : Local(s)

\* The subtrees of a search tree are search trees.
LEMMA SoundParts ==
    ASSUME NEW t, Sound(t), t # Nil
    PROVE  Sound(t.left) /\ Sound(t.right) /\ Local(t) /\ t \in Tree
<1>1. t \in Tree
  BY DEF Sound
<1>2. /\ Nodes[t] = {t} \cup Nodes[t.left] \cup Nodes[t.right]
      /\ t.left \in Tree /\ t.right \in Tree
  BY <1>1, NodeParts
<1> QED
  BY <1>1, <1>2 DEF Sound

\* The empty tree is a search tree.
LEMMA NilIsSound == Sound(Nil) /\ Delta(Nil) = -1
BY NilParts DEF Sound, Delta

\* The depth of a search tree is that of its levels.
LEMMA SoundDelta ==
    ASSUME NEW t, Sound(t)
    PROVE  /\ Delta(t) \in -1 .. MaxItems - 1
           /\ t \in Trees[Delta(t) + 1]
<1> DEFINE S == {n \in Nat : n <= MaxItems => \A s \in Trees[n] :
                    Sound(s) => /\ Delta(s) \in -1 .. n - 1
                                /\ s \in Trees[Delta(s) + 1]}
<1>0. MaxItems \in Nat /\ Tree = Trees[MaxItems]
  BY TreeAssumption DEF Tree
<1>1. 0 \in S
  <2>1. \A s \in Trees[0] : s = Nil
    BY TreesAre
  <2>2. Nil \in Trees[0]
    BY TreesAre
  <2>3. Delta(Nil) = -1 /\ -1 \in -1 .. 0 - 1 /\ (-1) + 1 = 0
    BY NilIsSound
  <2> QED
    BY <2>1, <2>2, <2>3
<1>2. \A n \in 0 .. MaxItems - 1 : n \in S => n + 1 \in S
  <2> SUFFICES ASSUME NEW n \in 0 .. MaxItems - 1, n \in S, NEW s \in Trees[n + 1], Sound(s)
               PROVE  Delta(s) \in -1 .. n /\ s \in Trees[Delta(s) + 1]
    BY <1>0
  <2>1. n + 1 \in 0 .. MaxItems /\ (n + 1) - 1 = n
    BY <1>0
  <2>0. \A x \in Trees[n] : Sound(x) => Delta(x) \in -1 .. n - 1 /\ x \in Trees[Delta(x) + 1]
    BY <1>0
  <2>2. CASE s = Nil
    <3>1. Delta(s) = -1 /\ (-1) + 1 = 0 /\ 0 \in 0 .. MaxItems
      BY <1>0, <2>2, NilIsSound
    <3> QED
      BY <2>2, <3>1, NilIsTree
  <2>3. CASE s # Nil
    <3> DEFINE l == s.left
               r == s.right
    <3>1. /\ l \in Trees[n] /\ r \in Trees[n] /\ s \in Over(Trees[n])
      BY <2>1, <2>3, TreeParts
    <3>2. Sound(l) /\ Sound(r) /\ s.depth = Depth(l, r)
      BY <2>3, SoundParts DEF Local
    <3>3. Delta(s) = Depth(l, r)
      BY <2>3, <3>2 DEF Delta
    <3>4. /\ Delta(l) \in -1 .. n - 1 /\ l \in Trees[Delta(l) + 1]
          /\ Delta(r) \in -1 .. n - 1 /\ r \in Trees[Delta(r) + 1]
      BY <2>0, <3>1, <3>2
    <3> HIDE DEF l, r
    <3>5. PICK m : /\ m = Depth(l, r) /\ m \in 0 .. n
                   /\ Delta(l) + 1 \in 0 .. m /\ Delta(r) + 1 \in 0 .. m
      BY <3>4 DEF Depth
    <3>9. /\ m \in 0 .. MaxItems /\ m \in 0 .. MaxItems - 1
          /\ Delta(l) + 1 \in 0 .. MaxItems /\ Delta(l) + 1 <= m
          /\ Delta(r) + 1 \in 0 .. MaxItems /\ Delta(r) + 1 <= m
      BY <1>0, <3>5
    <3>6. Trees[Delta(l) + 1] \subseteq Trees[m] /\ Trees[Delta(r) + 1] \subseteq Trees[m]
      BY <3>9, TreesNest
    <3>7. s \in Over(Trees[m])
      BY <3>1, <3>4, <3>6 DEF Over, l, r
    <3>8. Trees[m + 1] = {Nil} \cup Over(Trees[m])
      BY <3>9, TreesAre
    <3> QED
      BY <3>3, <3>5, <3>7, <3>8
  <2> QED
    BY <2>2, <2>3
<1> HIDE DEF S
<1>3. MaxItems \in S
  BY <1>0, <1>1, <1>2, Upwards
<1> QED
  BY <1>0, <1>3 DEF S, Sound

-----------------------------------------------------------------------------
(* What avl_exists finds.                                                  *)

\* Where a search goes on.
LEMMA CountIs ==
    ASSUME NEW v
    PROVE  /\ Count(Nil, v) = 0
           /\ \A t \in Tree \ {Nil} :
                Count(t, v) = IF v = t.item THEN t.count
                              ELSE Count(IF v < t.item THEN t.left ELSE t.right, v)
<1>1. Count(Nil, v) = 0
  BY FindIs DEF Count
<1>2. ASSUME NEW t \in Tree \ {Nil}
      PROVE  Count(t, v) = IF v = t.item THEN t.count
                           ELSE Count(IF v < t.item THEN t.left ELSE t.right, v)
  <2>1. CASE v = t.item
    BY <2>1, FindIs DEF Count
  <2>2. CASE v # t.item
    BY <2>2, FindIs DEF Count
  <2> QED
    BY <2>1, <2>2
<1> QED
  BY <1>1, <1>2

\* A search comes to the node of a word, if there is one.
LEMMA FindSound ==
    ASSUME NEW t, Sound(t), NEW v \in Words
    PROVE  /\ v \notin Items(t) => Find(t, v) = Nil /\ Count(t, v) = 0
           /\ v \in Items(t) => /\ Find(t, v) \in Nodes[t] /\ Find(t, v) # Nil
                                /\ Find(t, v).item = v
                                /\ Count(t, v) = Find(t, v).count
                                /\ Count(t, v) \in Nat \ {0}
           /\ Count(t, v) \in Nat
<1> DEFINE S == {s \in Tree : Sound(s) =>
                    /\ v \notin Items(s) => Find(s, v) = Nil
                    /\ v \in Items(s) => Find(s, v) \in Nodes[s] /\ Find(s, v).item = v}
<1>1. Nil \in S
  BY NilParts, ItemsAre, FindIs
<1>2. ASSUME NEW s \in Tree \ {Nil}, s.left \in S, s.right \in S
      PROVE  s \in S
  <2> SUFFICES ASSUME Sound(s)
               PROVE  /\ v \notin Items(s) => Find(s, v) = Nil
                      /\ v \in Items(s) => Find(s, v) \in Nodes[s] /\ Find(s, v).item = v
    OBVIOUS
  <2>1. /\ Sound(s.left) /\ Sound(s.right)
        /\ \A i \in Items(s.left) : i < s.item
        /\ \A i \in Items(s.right) : i > s.item
    BY SoundParts DEF Local
  <2>2. /\ Items(s) = {s.item} \cup Items(s.left) \cup Items(s.right)
        /\ Nodes[s] = {s} \cup Nodes[s.left] \cup Nodes[s.right]
        /\ v \in Nat /\ s.item \in Nat
    BY ItemsAre, NodeParts, TreeAssumption
  <2>3. CASE v = s.item
    BY <2>2, <2>3, FindIs
  <2>4. CASE v < s.item
    <3>1. v \notin Items(s.right) /\ v # s.item
      BY <2>1, <2>2, <2>4
    <3>2. Find(s, v) = Find(s.left, v)
      BY <2>4, <3>1, FindIs
    <3> QED
      BY <1>2, <2>1, <2>2, <3>1, <3>2
  <2>5. CASE v > s.item
    <3>1. v \notin Items(s.left) /\ v # s.item /\ ~(v < s.item)
      BY <2>1, <2>2, <2>5
    <3>2. Find(s, v) = Find(s.right, v)
      BY <3>1, FindIs
    <3> QED
      BY <1>2, <2>1, <2>2, <3>1, <3>2
  <2> QED
    BY <2>2, <2>3, <2>4, <2>5
<1> HIDE DEF S
<1>3. t \in S
  BY <1>1, <1>2, OverTrees DEF Sound
<1>4. /\ v \notin Items(t) => Find(t, v) = Nil
      /\ v \in Items(t) => Find(t, v) \in Nodes[t] /\ Find(t, v).item = v
  BY <1>3 DEF S
<1>5. ASSUME v \in Items(t)
      PROVE  Find(t, v) # Nil /\ Find(t, v).count \in Nat \ {0}
  <2>1. Find(t, v) \in Tree \ {Nil}
    BY <1>4, <1>5, NodesTyped DEF Sound
  <2> QED
    BY <2>1, NodeParts
<1>6. v \notin Items(t) => Count(t, v) = 0
  BY <1>4 DEF Count
<1>7. v \in Items(t) => Count(t, v) = Find(t, v).count
  BY <1>5 DEF Count
<1> QED
  BY <1>4, <1>5, <1>6, <1>7

-----------------------------------------------------------------------------
(* Nodes put together.                                                     *)

Payload(p) == /\ p.item \in Words /\ p.count \in Nat \ {0}
              /\ p.at \in Blocks /\ p.str \in Blocks

\* The node p over other subtrees.
Join(p, l, r) ==
  [item |-> p.item, count |-> p.count, depth |-> Depth(l, r), left |-> l, right |-> r,
   at |-> p.at, str |-> p.str]

\* What is in y is what is in the node p over l and r.
Holds(y, p, l, r) ==
  /\ Items(y) = Items(l) \cup {p.item} \cup Items(r)
  /\ Copies[y] = p.count + Copies[l] + Copies[r]
  /\ \A v \in Words : Count(y, v) = IF v = p.item THEN p.count
                                    ELSE IF v < p.item THEN Count(l, v) ELSE Count(r, v)

Parts(p, l, r) == /\ \A i \in Items(l) : i < p.item
                  /\ \A i \in Items(r) : i > p.item

\* The parts of a node that was put together.
LEMMA JoinParts ==
    ASSUME NEW p, NEW l, NEW r
    PROVE  /\ Join(p, l, r).item = p.item /\ Join(p, l, r).count = p.count
           /\ Join(p, l, r).left = l /\ Join(p, l, r).right = r
           /\ Join(p, l, r).at = p.at /\ Join(p, l, r).str = p.str
           /\ Join(p, l, r).depth = Depth(l, r)
           /\ Join(p, l, r) # Nil
           /\ Delta(Join(p, l, r)) = Depth(l, r)
           /\ Balance(Join(p, l, r)) = Delta(l) - Delta(r)
           /\ Payload(p) => Payload(Join(p, l, r))
<1> DEFINE j == Join(p, l, r)
<1>1. /\ j.item = p.item /\ j.count = p.count /\ j.left = l /\ j.right = r
      /\ j.at = p.at /\ j.str = p.str /\ j.depth = Depth(l, r)
  BY DEF Join
<1>2. j # Nil
  <2>1. DOMAIN j = {"item", "count", "depth", "left", "right", "at", "str"}
    BY DEF Join
  <2>2. DOMAIN Nil = {}
    BY DEF Nil
  <2> QED
    BY <2>1, <2>2
<1> HIDE DEF j
<1>3. Delta(j) = Depth(l, r) /\ Balance(j) = Delta(l) - Delta(r)
  BY <1>1, <1>2 DEF Delta, Balance
<1>4. Payload(p) => Payload(j)
  BY <1>1 DEF Payload
<1> QED
  BY <1>1, <1>2, <1>3, <1>4 DEF j

\* The depth is a number, one more than that of the deeper subtree.
LEMMA DepthIs ==
    ASSUME NEW l, NEW r, Delta(l) \in Int, Delta(r) \in Int
    PROVE  /\ Depth(l, r) \in Int
           /\ Delta(l) >= Delta(r) => Depth(l, r) = Delta(l) + 1
           /\ Delta(r) >= Delta(l) => Depth(l, r) = Delta(r) + 1
BY DEF Depth

\* A node over two search trees of nearly the same depth is one.
LEMMA JoinSound ==
    ASSUME NEW p, Payload(p), NEW l, Sound(l), NEW r, Sound(r), Parts(p, l, r),
           Delta(l) - Delta(r) \in -2 .. 2,
           Delta(l) <= MaxItems - 2, Delta(r) <= MaxItems - 2
    PROVE  /\ Join(p, l, r) \in Tree
           /\ Holds(Join(p, l, r), p, l, r)
           /\ Delta(l) - Delta(r) \in -1 .. 1 => Sound(Join(p, l, r))
<1> DEFINE j == Join(p, l, r)
<1>0. MaxItems \in Nat
  BY TreeAssumption
<1>1. /\ j.item = p.item /\ j.count = p.count /\ j.left = l /\ j.right = r /\ j # Nil
      /\ j.depth = Depth(l, r) /\ Delta(j) = Depth(l, r) /\ Balance(j) = Delta(l) - Delta(r)
  BY JoinParts
<1>2. /\ Delta(l) \in -1 .. MaxItems - 1 /\ l \in Trees[Delta(l) + 1]
      /\ Delta(r) \in -1 .. MaxItems - 1 /\ r \in Trees[Delta(r) + 1]
  BY SoundDelta
<1>3. j \in Tree
  <2>1. PICK m : m = MaxItems - 1
    OBVIOUS
  <2>2. /\ m \in 0 .. MaxItems /\ m \in 0 .. MaxItems - 1 /\ m + 1 = MaxItems
        /\ Delta(l) + 1 \in 0 .. MaxItems /\ Delta(l) + 1 <= m
        /\ Delta(r) + 1 \in 0 .. MaxItems /\ Delta(r) + 1 <= m
    BY <1>0, <1>2, <2>1
  <2>3. l \in Trees[m] /\ r \in Trees[m]
    BY <1>2, <2>2, TreesNest
  <2>4. Depth(l, r) \in Nat
    BY <1>2 DEF Depth
  <2>5. j \in Over(Trees[m])
    BY <2>3, <2>4 DEF Join, Over, Payload
  <2>6. Trees[MaxItems] = {Nil} \cup Over(Trees[m])
    BY <2>2, TreesAre
  <2> QED
    BY <2>5, <2>6, TreeTop
<1> HIDE DEF j
<1>4. /\ Nodes[j] = {j} \cup Nodes[l] \cup Nodes[r]
      /\ Copies[j] = p.count + Copies[l] + Copies[r]
      /\ Items(j) = {p.item} \cup Items(l) \cup Items(r)
  BY <1>1, <1>3, NodeParts, ItemsAre
<1>5. ASSUME NEW v \in Words
      PROVE  Count(j, v) = IF v = p.item THEN p.count
                           ELSE IF v < p.item THEN Count(l, v) ELSE Count(r, v)
  BY <1>1, <1>3, CountIs
<1>6. Holds(j, p, l, r)
  BY <1>4, <1>5 DEF Holds
<1>7. ASSUME Delta(l) - Delta(r) \in -1 .. 1 PROVE Sound(j)
  <2>1. Local(j)
    BY <1>1, <1>7 DEF Local, Parts
  <2> QED
    BY <1>3, <1>4, <2>1 DEF Sound
<1> QED
  BY <1>3, <1>6, <1>7 DEF j

-----------------------------------------------------------------------------
(* Rotations.                                                              *)

\* t has the fields of a node and no other.
IsNode(t) ==
  t = [item |-> t.item, count |-> t.count, depth |-> t.depth, left |-> t.left,
       right |-> t.right, at |-> t.at, str |-> t.str]

\* Every node of a tree has the seven fields, and no others.
LEMMA NodesAreNodes ==
    /\ \A t \in Tree \ {Nil} : IsNode(t) /\ Payload(t)
    /\ \A p, l, r : IsNode(Join(p, l, r))
<1>1. ASSUME NEW t \in Tree \ {Nil} PROVE IsNode(t) /\ Payload(t)
  <2>1. t \in Over(Trees[MaxItems - 1])
    BY TreeTop, TreeParts
  <2> QED
    BY <2>1 DEF Over, IsNode, Payload
<1>2. ASSUME NEW p, NEW l, NEW r PROVE IsNode(Join(p, l, r))
  BY DEF IsNode, Join
<1> QED
  BY <1>1, <1>2

WithLeft(t, u)  == [t EXCEPT !.left = u]
WithRight(t, u) == [t EXCEPT !.right = u]

\* Changing a node and setting its depth is putting it together again.
LEMMA Relinked ==
    ASSUME NEW t, IsNode(t), NEW u
    PROVE  /\ WithDepth(WithLeft(t, u)) = Join(t, u, t.right)
           /\ WithDepth(WithRight(t, u)) = Join(t, t.left, u)
           /\ IsNode(WithLeft(t, u)) /\ IsNode(WithRight(t, u))
           /\ WithLeft(t, u).left = u /\ WithLeft(t, u).right = t.right
           /\ WithRight(t, u).right = u /\ WithRight(t, u).left = t.left
           /\ WithLeft(t, u).item = t.item /\ WithRight(t, u).item = t.item
           /\ \A a, b : /\ Join(WithLeft(t, u), a, b) = Join(t, a, b)
                        /\ Join(WithRight(t, u), a, b) = Join(t, a, b)
<1> DEFINE d == WithLeft(t, u)
           e == WithRight(t, u)
<1>1. d = [item |-> t.item, count |-> t.count, depth |-> t.depth, left |-> u,
           right |-> t.right, at |-> t.at, str |-> t.str]
  BY DEF IsNode, WithLeft, WithRight
<1>2. e = [item |-> t.item, count |-> t.count, depth |-> t.depth, left |-> t.left,
           right |-> u, at |-> t.at, str |-> t.str]
  BY DEF IsNode, WithLeft, WithRight
<1> HIDE DEF d, e
<1>3. WithDepth(d) = Join(t, u, t.right) /\ IsNode(d)
  BY <1>1 DEF WithDepth, Join, IsNode
<1>4. WithDepth(e) = Join(t, t.left, u) /\ IsNode(e)
  BY <1>2 DEF WithDepth, Join, IsNode
<1>5. /\ d.left = u /\ d.right = t.right /\ d.item = t.item
      /\ \A a, b : Join(d, a, b) = Join(t, a, b)
  BY <1>1 DEF Join
<1>6. /\ e.right = u /\ e.left = t.left /\ e.item = t.item
      /\ \A a, b : Join(e, a, b) = Join(t, a, b)
  BY <1>2 DEF Join
<1> QED
  BY <1>3, <1>4, <1>5, <1>6 DEF d, e

\* A rotation, as nodes put together again.
LEMMA RotationsAre ==
    ASSUME NEW t, IsNode(t)
    PROVE  /\ IsNode(t.left) =>
                RotateRight(t) = Join(t.left, t.left.left, Join(t, t.left.right, t.right))
           /\ IsNode(t.right) =>
                RotateLeft(t) = Join(t.right, Join(t, t.left, t.right.left), t.right.right)
<1>1. ASSUME IsNode(t.left)
      PROVE  RotateRight(t) = Join(t.left, t.left.left, Join(t, t.left.right, t.right))
  <2>1. RotateRight(t) = WithDepth(WithRight(t.left, WithDepth(WithLeft(t, t.left.right))))
    BY DEF RotateRight, WithLeft, WithRight
  <2> QED
    BY <1>1, <2>1, Relinked
<1>2. ASSUME IsNode(t.right)
      PROVE  RotateLeft(t) = Join(t.right, Join(t, t.left, t.right.left), t.right.right)
  <2>1. RotateLeft(t) = WithDepth(WithLeft(t.right, WithDepth(WithRight(t, t.right.left))))
    BY DEF RotateLeft, WithLeft, WithRight
  <2> QED
    BY <1>2, <2>1, Relinked
<1> QED
  BY <1>1, <1>2

\* And a double one.
LEMMA DoubleRotationsAre ==
    ASSUME NEW t, IsNode(t)
    PROVE  /\ IsNode(t.left) /\ IsNode(t.left.right) =>
                RotateLeftRight(t) =
                  Join(t.left.right, Join(t.left, t.left.left, t.left.right.left),
                                     Join(t, t.left.right.right, t.right))
           /\ IsNode(t.right) /\ IsNode(t.right.left) =>
                RotateRightLeft(t) =
                  Join(t.right.left, Join(t, t.left, t.right.left.left),
                                     Join(t.right, t.right.left.right, t.right.right))
<1>1. ASSUME IsNode(t.left), IsNode(t.left.right)
      PROVE  RotateLeftRight(t) =
                  Join(t.left.right, Join(t.left, t.left.left, t.left.right.left),
                                     Join(t, t.left.right.right, t.right))
  <2> DEFINE c == t.left.right
             a == Join(t.left, t.left.left, c.left)
             u == Join(c, a, c.right)
             s == WithLeft(t, u)
  <2>1. RotateLeft(t.left) = u
    BY <1>1, RotationsAre
  <2>2. RotateLeftRight(t) = RotateRight(s)
    BY <2>1 DEF RotateLeftRight, WithLeft
  <2>3. IsNode(s) /\ s.left = u /\ s.right = t.right /\ \A x, y : Join(s, x, y) = Join(t, x, y)
    BY Relinked
  <2>4. /\ IsNode(u) /\ u.left = a /\ u.right = c.right
    BY JoinParts, NodesAreNodes
  <2>5. \A x, y : Join(u, x, y) = Join(c, x, y)
    BY DEF Join
  <2> HIDE DEF s, u, a, c
  <2>6. RotateRight(s) = Join(u, a, Join(t, c.right, t.right))
    BY <2>3, <2>4, RotationsAre
  <2> QED
    BY <2>2, <2>5, <2>6 DEF a, c
<1>2. ASSUME IsNode(t.right), IsNode(t.right.left)
      PROVE  RotateRightLeft(t) =
                  Join(t.right.left, Join(t, t.left, t.right.left.left),
                                     Join(t.right, t.right.left.right, t.right.right))
  <2> DEFINE c == t.right.left
             a == Join(t.right, c.right, t.right.right)
             u == Join(c, c.left, a)
             s == WithRight(t, u)
  <2>1. RotateRight(t.right) = u
    BY <1>2, RotationsAre
  <2>2. RotateRightLeft(t) = RotateLeft(s)
    BY <2>1 DEF RotateRightLeft, WithRight
  <2>3. IsNode(s) /\ s.right = u /\ s.left = t.left /\ \A x, y : Join(s, x, y) = Join(t, x, y)
    BY Relinked
  <2>4. /\ IsNode(u) /\ u.right = a /\ u.left = c.left
    BY JoinParts, NodesAreNodes
  <2>5. \A x, y : Join(u, x, y) = Join(c, x, y)
    BY DEF Join
  <2> HIDE DEF s, u, a, c
  <2>6. RotateLeft(s) = Join(u, Join(t, t.left, c.left), a)
    BY <2>3, <2>4, RotationsAre
  <2> QED
    BY <2>2, <2>5, <2>6 DEF a, c
<1> QED
  BY <1>1, <1>2

\* x is the node p over l and r, whatever depth it says it has.
IsOver(x, p, l, r) ==
  IsNode(x) /\ x.left = l /\ x.right = r /\ \A y, z : Join(x, y, z) = Join(p, y, z)

\* What hangs over the left is turned to the right.
LEMMA LeaningLeft ==
    ASSUME NEW p, Payload(p), NEW l, Sound(l), NEW r, Sound(r), Parts(p, l, r),
           Delta(l) = Delta(r) + 2, Delta(l) <= MaxItems - 2,
           NEW x, IsOver(x, p, l, r)
    PROVE  /\ l # Nil /\ Balance(l) \in -1 .. 1
           /\ Balance(l) >= 0 =>
                /\ Sound(RotateRight(x)) /\ RotateRight(x) # Nil
                /\ Holds(RotateRight(x), p, l, r)
                /\ Delta(RotateRight(x)) = IF Balance(l) = 0 THEN Delta(l) + 1 ELSE Delta(l)
           /\ Balance(l) < 0 =>
                /\ Sound(RotateLeftRight(x)) /\ RotateLeftRight(x) # Nil
                /\ Holds(RotateLeftRight(x), p, l, r)
                /\ Delta(RotateLeftRight(x)) = Delta(l)
<1> DEFINE a == l.left
           b == l.right
<1>0. MaxItems \in Nat /\ Words \subseteq Nat
  BY TreeAssumption
<1>1. /\ Delta(l) \in Int /\ Delta(r) \in -1 .. MaxItems - 1
  BY <1>0, SoundDelta
<1>2. l # Nil /\ l \in Tree \ {Nil}
  BY <1>1, NilIsSound DEF Sound
<1>3. Sound(a) /\ Sound(b) /\ Local(l) /\ Payload(l) /\ IsNode(l)
  BY <1>2, SoundParts, NodesAreNodes
<1>4. /\ Parts(l, a, b) /\ Delta(l) = Depth(a, b) /\ Balance(l) = Delta(a) - Delta(b)
      /\ Balance(l) \in -1 .. 1
  BY <1>2, <1>3 DEF Local, Parts, Delta, Balance
<1>5. /\ Items(l) = {l.item} \cup Items(a) \cup Items(b)
      /\ Copies[l] = l.count + Copies[a] + Copies[b]
      /\ \A v \in Words : Count(l, v) = IF v = l.item THEN l.count
                                        ELSE IF v < l.item THEN Count(a, v) ELSE Count(b, v)
  BY <1>2, ItemsAre, NodeParts, CountIs
<1>6. /\ Copies[a] \in Nat /\ Copies[b] \in Nat /\ Copies[r] \in Nat
      /\ p.count \in Nat /\ l.count \in Nat /\ p.item \in Nat /\ l.item \in Nat /\ l.item < p.item
      /\ Items(a) \subseteq Nat /\ Items(b) \subseteq Nat /\ Items(r) \subseteq Nat
  BY <1>0, <1>3, <1>5, NodesTyped DEF Payload, Sound, Parts
<1>7. x.left = l /\ x.right = r /\ IsNode(x) /\ \A y, z : Join(x, y, z) = Join(p, y, z)
  BY DEF IsOver
<1>8. Delta(a) \in -1 .. MaxItems - 1 /\ Delta(b) \in -1 .. MaxItems - 1
  BY <1>3, SoundDelta
<1> HIDE DEF a, b
<1>9. ASSUME Balance(l) >= 0
      PROVE  /\ Sound(RotateRight(x)) /\ RotateRight(x) # Nil
             /\ Holds(RotateRight(x), p, l, r)
             /\ Delta(RotateRight(x)) = IF Balance(l) = 0 THEN Delta(l) + 1 ELSE Delta(l)
  <2> DEFINE c == Join(p, b, r)
             y == Join(l, a, c)
  <2>1. RotateRight(x) = y
    BY <1>3, <1>7, RotationsAre DEF a, b
  <2>2. /\ Delta(a) = Delta(l) - 1
        /\ Delta(b) = IF Balance(l) = 0 THEN Delta(l) - 1 ELSE Delta(l) - 2
    BY <1>1, <1>4, <1>8, <1>9, DepthIs
  <2>3. Parts(p, b, r)
    BY <1>5 DEF Parts
  <2>4. Delta(b) - Delta(r) \in -1 .. 1 /\ Delta(b) <= MaxItems - 2 /\ Delta(r) <= MaxItems - 2
    BY <1>0, <1>1, <2>2
  <2>5. Sound(c) /\ Holds(c, p, b, r) /\ Delta(c) = Depth(b, r) /\ c # Nil
    <3>1. Delta(b) - Delta(r) \in -2 .. 2
      BY <1>1, <1>8, <2>4
    <3> QED
      BY <1>3, <2>3, <2>4, <3>1, JoinSound, JoinParts
  <2>6. Delta(c) = IF Balance(l) = 0 THEN Delta(l) ELSE Delta(l) - 1
    BY <1>1, <1>8, <2>2, <2>5, DepthIs
  <2>7. Parts(l, a, c)
    BY <1>4, <1>6, <2>5 DEF Parts, Holds
  <2>8. Delta(a) - Delta(c) \in -1 .. 1 /\ Delta(a) <= MaxItems - 2 /\ Delta(c) <= MaxItems - 2
    BY <1>0, <1>1, <2>2, <2>6
  <2>9. Sound(y) /\ Holds(y, l, a, c) /\ Delta(y) = Depth(a, c) /\ y # Nil
    <3>1. Delta(a) - Delta(c) \in -2 .. 2
      BY <1>1, <2>2, <2>6
    <3> HIDE DEF c
    <3> QED
      BY <1>3, <2>5, <2>7, <2>8, <3>1, JoinSound, JoinParts
  <2>10. Delta(y) = IF Balance(l) = 0 THEN Delta(l) + 1 ELSE Delta(l)
    BY <1>1, <1>8, <2>2, <2>6, <2>9, DepthIs
  <2> HIDE DEF c, y
  <2>11. Holds(y, p, l, r)
    <3>1. Items(y) = Items(l) \cup {p.item} \cup Items(r)
      BY <1>5, <2>5, <2>9 DEF Holds
    <3>2. Copies[y] = p.count + Copies[l] + Copies[r]
      BY <1>5, <1>6, <2>5, <2>9 DEF Holds
    <3>3. ASSUME NEW v \in Words
          PROVE  Count(y, v) = IF v = p.item THEN p.count
                               ELSE IF v < p.item THEN Count(l, v) ELSE Count(r, v)
      <4>1. v \in Nat
        BY <1>0
      <4>2. /\ Count(y, v) = IF v = l.item THEN l.count
                             ELSE IF v < l.item THEN Count(a, v) ELSE Count(c, v)
            /\ Count(c, v) = IF v = p.item THEN p.count
                             ELSE IF v < p.item THEN Count(b, v) ELSE Count(r, v)
            /\ Count(l, v) = IF v = l.item THEN l.count
                             ELSE IF v < l.item THEN Count(a, v) ELSE Count(b, v)
        BY <1>5, <2>5, <2>9 DEF Holds
      <4> QED
        BY <1>6, <4>1, <4>2
    <3> QED
      BY <3>1, <3>2, <3>3 DEF Holds
  <2> QED
    BY <2>1, <2>9, <2>10, <2>11
<1>10. ASSUME Balance(l) < 0
       PROVE  /\ Sound(RotateLeftRight(x)) /\ RotateLeftRight(x) # Nil
              /\ Holds(RotateLeftRight(x), p, l, r)
              /\ Delta(RotateLeftRight(x)) = Delta(l)
  <2> DEFINE d == b.left
             e == b.right
             c == Join(l, a, d)
             f == Join(p, e, r)
             y == Join(b, c, f)
  <2>1. Delta(b) = Delta(l) - 1 /\ Delta(a) = Delta(l) - 2
    BY <1>1, <1>4, <1>8, <1>10, DepthIs
  <2>2. b # Nil /\ b \in Tree \ {Nil}
    BY <1>1, <1>3, <2>1, NilIsSound DEF Sound
  <2>3. Sound(d) /\ Sound(e) /\ Local(b) /\ Payload(b) /\ IsNode(b)
    BY <1>3, <2>2, SoundParts, NodesAreNodes
  <2>4. /\ Parts(b, d, e) /\ Delta(b) = Depth(d, e) /\ Delta(d) - Delta(e) \in -1 .. 1
    BY <2>2, <2>3 DEF Local, Parts, Delta, Balance
  <2>5. /\ Items(b) = {b.item} \cup Items(d) \cup Items(e)
        /\ Copies[b] = b.count + Copies[d] + Copies[e]
        /\ \A v \in Words : Count(b, v) = IF v = b.item THEN b.count
                                          ELSE IF v < b.item THEN Count(d, v) ELSE Count(e, v)
    BY <2>2, ItemsAre, NodeParts, CountIs
  <2>6. RotateLeftRight(x) = y
    BY <1>3, <1>7, <2>3, DoubleRotationsAre DEF a, b
  <2>7. Delta(d) \in -1 .. MaxItems - 1 /\ Delta(e) \in -1 .. MaxItems - 1
    BY <2>3, SoundDelta
  <2> HIDE DEF d, e
  <2>8. /\ Copies[d] \in Nat /\ Copies[e] \in Nat /\ b.count \in Nat /\ b.item \in Nat
        /\ l.item < b.item /\ b.item < p.item
        /\ Items(d) \subseteq Nat /\ Items(e) \subseteq Nat
    BY <1>0, <1>4, <1>5, <2>3, <2>5, NodesTyped DEF Payload, Sound, Parts
  <2>9. /\ Delta(d) \in Delta(l) - 3 .. Delta(l) - 2 /\ Delta(e) \in Delta(l) - 3 .. Delta(l) - 2
    BY <1>1, <2>1, <2>4, <2>7, DepthIs
  <2>10. Parts(l, a, d) /\ Parts(p, e, r)
    BY <1>4, <1>5, <2>5 DEF Parts
  <2>11. Sound(c) /\ Holds(c, l, a, d) /\ Delta(c) = Depth(a, d)
    <3>1. /\ Delta(a) - Delta(d) \in -2 .. 2 /\ Delta(a) - Delta(d) \in -1 .. 1
          /\ Delta(a) <= MaxItems - 2 /\ Delta(d) <= MaxItems - 2
      BY <1>0, <1>1, <2>1, <2>9
    <3> QED
      BY <1>3, <2>3, <2>10, <3>1, JoinSound, JoinParts
  <2>12. Sound(f) /\ Holds(f, p, e, r) /\ Delta(f) = Depth(e, r)
    <3>1. /\ Delta(e) - Delta(r) \in -2 .. 2 /\ Delta(e) - Delta(r) \in -1 .. 1
          /\ Delta(e) <= MaxItems - 2 /\ Delta(r) <= MaxItems - 2
      BY <1>0, <1>1, <2>9
    <3> QED
      BY <2>3, <2>10, <3>1, JoinSound, JoinParts
  <2>13. Delta(c) = Delta(l) - 1 /\ Delta(f) = Delta(l) - 1
    BY <1>1, <1>8, <2>1, <2>7, <2>9, <2>11, <2>12, DepthIs
  <2>14. Parts(b, c, f)
    BY <1>4, <1>5, <1>6, <2>4, <2>5, <2>8, <2>11, <2>12 DEF Parts, Holds
  <2>15. Sound(y) /\ Holds(y, b, c, f) /\ Delta(y) = Depth(c, f) /\ y # Nil
    <3>1. /\ Delta(c) - Delta(f) \in -2 .. 2 /\ Delta(c) - Delta(f) \in -1 .. 1
          /\ Delta(c) <= MaxItems - 2 /\ Delta(f) <= MaxItems - 2
      BY <1>0, <1>1, <2>13
    <3> HIDE DEF c, f
    <3> QED
      BY <2>3, <2>11, <2>12, <2>14, <3>1, JoinSound, JoinParts
  <2>16. Delta(y) = Delta(l)
    BY <1>1, <2>13, <2>15, DepthIs
  <2> HIDE DEF c, f, y
  <2>17. Holds(y, p, l, r)
    <3>1. Items(y) = Items(l) \cup {p.item} \cup Items(r)
      BY <1>5, <2>5, <2>11, <2>12, <2>15 DEF Holds
    <3>2. Copies[y] = p.count + Copies[l] + Copies[r]
      BY <1>5, <1>6, <2>5, <2>8, <2>11, <2>12, <2>15 DEF Holds
    <3>3. ASSUME NEW v \in Words
          PROVE  Count(y, v) = IF v = p.item THEN p.count
                               ELSE IF v < p.item THEN Count(l, v) ELSE Count(r, v)
      <4>1. v \in Nat
        BY <1>0
      <4>2. /\ Count(y, v) = IF v = b.item THEN b.count
                             ELSE IF v < b.item THEN Count(c, v) ELSE Count(f, v)
            /\ Count(c, v) = IF v = l.item THEN l.count
                             ELSE IF v < l.item THEN Count(a, v) ELSE Count(d, v)
            /\ Count(f, v) = IF v = p.item THEN p.count
                             ELSE IF v < p.item THEN Count(e, v) ELSE Count(r, v)
            /\ Count(l, v) = IF v = l.item THEN l.count
                             ELSE IF v < l.item THEN Count(a, v) ELSE Count(b, v)
            /\ Count(b, v) = IF v = b.item THEN b.count
                             ELSE IF v < b.item THEN Count(d, v) ELSE Count(e, v)
        BY <1>5, <2>5, <2>11, <2>12, <2>15 DEF Holds
      <4> QED
        BY <1>6, <2>8, <4>1, <4>2
    <3> QED
      BY <3>1, <3>2, <3>3 DEF Holds
  <2> QED
    BY <2>6, <2>15, <2>16, <2>17
<1> QED
  BY <1>2, <1>4, <1>9, <1>10

\* The same on the other side.
LEMMA LeaningRight ==
    ASSUME NEW p, Payload(p), NEW r, Sound(r), NEW l, Sound(l), Parts(p, l, r),
           Delta(r) = Delta(l) + 2, Delta(r) <= MaxItems - 2,
           NEW x, IsOver(x, p, l, r)
    PROVE  /\ r # Nil /\ Balance(r) \in -1 .. 1
           /\ Balance(r) <= 0 =>
                /\ Sound(RotateLeft(x)) /\ RotateLeft(x) # Nil
                /\ Holds(RotateLeft(x), p, l, r)
                /\ Delta(RotateLeft(x)) = IF Balance(r) = 0 THEN Delta(r) + 1 ELSE Delta(r)
           /\ Balance(r) > 0 =>
                /\ Sound(RotateRightLeft(x)) /\ RotateRightLeft(x) # Nil
                /\ Holds(RotateRightLeft(x), p, l, r)
                /\ Delta(RotateRightLeft(x)) = Delta(r)
<1> DEFINE a == r.right
           b == r.left
<1>0. MaxItems \in Nat /\ Words \subseteq Nat
  BY TreeAssumption
<1>1. /\ Delta(r) \in Int /\ Delta(l) \in -1 .. MaxItems - 1
  BY <1>0, SoundDelta
<1>2. r # Nil /\ r \in Tree \ {Nil}
  BY <1>1, NilIsSound DEF Sound
<1>3. Sound(a) /\ Sound(b) /\ Local(r) /\ Payload(r) /\ IsNode(r)
  BY <1>2, SoundParts, NodesAreNodes
<1>4. /\ Parts(r, b, a) /\ Delta(r) = Depth(b, a) /\ Balance(r) = Delta(b) - Delta(a)
      /\ Balance(r) \in -1 .. 1
  BY <1>2, <1>3 DEF Local, Parts, Delta, Balance
<1>5. /\ Items(r) = {r.item} \cup Items(a) \cup Items(b)
      /\ Copies[r] = r.count + Copies[b] + Copies[a]
      /\ \A v \in Words : Count(r, v) = IF v = r.item THEN r.count
                                        ELSE IF v < r.item THEN Count(b, v) ELSE Count(a, v)
  BY <1>2, ItemsAre, NodeParts, CountIs
<1>6. /\ Copies[a] \in Nat /\ Copies[b] \in Nat /\ Copies[l] \in Nat
      /\ p.count \in Nat /\ r.count \in Nat /\ p.item \in Nat /\ r.item \in Nat /\ p.item < r.item
      /\ Items(a) \subseteq Nat /\ Items(b) \subseteq Nat /\ Items(l) \subseteq Nat
  BY <1>0, <1>3, <1>5, NodesTyped DEF Payload, Sound, Parts
<1>7. x.right = r /\ x.left = l /\ IsNode(x) /\ \A y, z : Join(x, z, y) = Join(p, z, y)
  BY DEF IsOver
<1>8. Delta(a) \in -1 .. MaxItems - 1 /\ Delta(b) \in -1 .. MaxItems - 1
  BY <1>3, SoundDelta
<1> HIDE DEF a, b
<1>9. ASSUME Balance(r) <= 0
      PROVE  /\ Sound(RotateLeft(x)) /\ RotateLeft(x) # Nil
             /\ Holds(RotateLeft(x), p, l, r)
             /\ Delta(RotateLeft(x)) = IF Balance(r) = 0 THEN Delta(r) + 1 ELSE Delta(r)
  <2> DEFINE c == Join(p, l, b)
             y == Join(r, c, a)
  <2>1. RotateLeft(x) = y
    BY <1>3, <1>7, RotationsAre DEF a, b
  <2>2. /\ Delta(a) = Delta(r) - 1
        /\ Delta(b) = IF Balance(r) = 0 THEN Delta(r) - 1 ELSE Delta(r) - 2
    BY <1>1, <1>4, <1>8, <1>9, DepthIs
  <2>3. Parts(p, l, b)
    BY <1>5 DEF Parts
  <2>4. Delta(l) - Delta(b) \in -1 .. 1 /\ Delta(b) <= MaxItems - 2 /\ Delta(l) <= MaxItems - 2
    BY <1>0, <1>1, <2>2
  <2>5. Sound(c) /\ Holds(c, p, l, b) /\ Delta(c) = Depth(l, b) /\ c # Nil
    <3>1. Delta(l) - Delta(b) \in -2 .. 2
      BY <1>1, <1>8, <2>4
    <3> QED
      BY <1>3, <2>3, <2>4, <3>1, JoinSound, JoinParts
  <2>6. Delta(c) = IF Balance(r) = 0 THEN Delta(r) ELSE Delta(r) - 1
    BY <1>1, <1>8, <2>2, <2>5, DepthIs
  <2>7. Parts(r, c, a)
    BY <1>4, <1>6, <2>5 DEF Parts, Holds
  <2>8. Delta(c) - Delta(a) \in -1 .. 1 /\ Delta(a) <= MaxItems - 2 /\ Delta(c) <= MaxItems - 2
    BY <1>0, <1>1, <2>2, <2>6
  <2>9. Sound(y) /\ Holds(y, r, c, a) /\ Delta(y) = Depth(c, a) /\ y # Nil
    <3>1. Delta(c) - Delta(a) \in -2 .. 2
      BY <1>1, <2>2, <2>6
    <3> HIDE DEF c
    <3> QED
      BY <1>3, <2>5, <2>7, <2>8, <3>1, JoinSound, JoinParts
  <2>10. Delta(y) = IF Balance(r) = 0 THEN Delta(r) + 1 ELSE Delta(r)
    BY <1>1, <1>8, <2>2, <2>6, <2>9, DepthIs
  <2> HIDE DEF c, y
  <2>11. Holds(y, p, l, r)
    <3>1. Items(y) = Items(l) \cup {p.item} \cup Items(r)
      BY <1>5, <2>5, <2>9 DEF Holds
    <3>2. Copies[y] = p.count + Copies[l] + Copies[r]
      BY <1>5, <1>6, <2>5, <2>9 DEF Holds
    <3>3. ASSUME NEW v \in Words
          PROVE  Count(y, v) = IF v = p.item THEN p.count
                               ELSE IF v < p.item THEN Count(l, v) ELSE Count(r, v)
      <4>1. v \in Nat
        BY <1>0
      <4>2. /\ Count(y, v) = IF v = r.item THEN r.count
                             ELSE IF v < r.item THEN Count(c, v) ELSE Count(a, v)
            /\ Count(c, v) = IF v = p.item THEN p.count
                             ELSE IF v < p.item THEN Count(l, v) ELSE Count(b, v)
            /\ Count(r, v) = IF v = r.item THEN r.count
                             ELSE IF v < r.item THEN Count(b, v) ELSE Count(a, v)
        BY <1>5, <2>5, <2>9 DEF Holds
      <4> QED
        BY <1>6, <4>1, <4>2
    <3> QED
      BY <3>1, <3>2, <3>3 DEF Holds
  <2> QED
    BY <2>1, <2>9, <2>10, <2>11
<1>10. ASSUME Balance(r) > 0
       PROVE  /\ Sound(RotateRightLeft(x)) /\ RotateRightLeft(x) # Nil
              /\ Holds(RotateRightLeft(x), p, l, r)
              /\ Delta(RotateRightLeft(x)) = Delta(r)
  <2> DEFINE d == b.right
             e == b.left
             c == Join(r, d, a)
             f == Join(p, l, e)
             y == Join(b, f, c)
  <2>1. Delta(b) = Delta(r) - 1 /\ Delta(a) = Delta(r) - 2
    BY <1>1, <1>4, <1>8, <1>10, DepthIs
  <2>2. b # Nil /\ b \in Tree \ {Nil}
    BY <1>1, <1>3, <2>1, NilIsSound DEF Sound
  <2>3. Sound(d) /\ Sound(e) /\ Local(b) /\ Payload(b) /\ IsNode(b)
    BY <1>3, <2>2, SoundParts, NodesAreNodes
  <2>4. /\ Parts(b, e, d) /\ Delta(b) = Depth(e, d) /\ Delta(e) - Delta(d) \in -1 .. 1
    BY <2>2, <2>3 DEF Local, Parts, Delta, Balance
  <2>5. /\ Items(b) = {b.item} \cup Items(d) \cup Items(e)
        /\ Copies[b] = b.count + Copies[e] + Copies[d]
        /\ \A v \in Words : Count(b, v) = IF v = b.item THEN b.count
                                          ELSE IF v < b.item THEN Count(e, v) ELSE Count(d, v)
    BY <2>2, ItemsAre, NodeParts, CountIs
  <2>6. RotateRightLeft(x) = y
    BY <1>3, <1>7, <2>3, DoubleRotationsAre DEF a, b
  <2>7. Delta(d) \in -1 .. MaxItems - 1 /\ Delta(e) \in -1 .. MaxItems - 1
    BY <2>3, SoundDelta
  <2> HIDE DEF d, e
  <2>8. /\ Copies[d] \in Nat /\ Copies[e] \in Nat /\ b.count \in Nat /\ b.item \in Nat
        /\ p.item < b.item /\ b.item < r.item
        /\ Items(d) \subseteq Nat /\ Items(e) \subseteq Nat
    BY <1>0, <1>4, <1>5, <2>3, <2>5, NodesTyped DEF Payload, Sound, Parts
  <2>9. /\ Delta(d) \in Delta(r) - 3 .. Delta(r) - 2 /\ Delta(e) \in Delta(r) - 3 .. Delta(r) - 2
    BY <1>1, <2>1, <2>4, <2>7, DepthIs
  <2>10. Parts(r, d, a) /\ Parts(p, l, e)
    BY <1>4, <1>5, <2>5 DEF Parts
  <2>11. Sound(c) /\ Holds(c, r, d, a) /\ Delta(c) = Depth(d, a)
    <3>1. /\ Delta(d) - Delta(a) \in -2 .. 2 /\ Delta(d) - Delta(a) \in -1 .. 1
          /\ Delta(a) <= MaxItems - 2 /\ Delta(d) <= MaxItems - 2
      BY <1>0, <1>1, <2>1, <2>9
    <3> QED
      BY <1>3, <2>3, <2>10, <3>1, JoinSound, JoinParts
  <2>12. Sound(f) /\ Holds(f, p, l, e) /\ Delta(f) = Depth(l, e)
    <3>1. /\ Delta(l) - Delta(e) \in -2 .. 2 /\ Delta(l) - Delta(e) \in -1 .. 1
          /\ Delta(e) <= MaxItems - 2 /\ Delta(l) <= MaxItems - 2
      BY <1>0, <1>1, <2>9
    <3> QED
      BY <2>3, <2>10, <3>1, JoinSound, JoinParts
  <2>13. Delta(c) = Delta(r) - 1 /\ Delta(f) = Delta(r) - 1
    BY <1>1, <1>8, <2>1, <2>7, <2>9, <2>11, <2>12, DepthIs
  <2>14. Parts(b, f, c)
    BY <1>4, <1>5, <1>6, <2>4, <2>5, <2>8, <2>11, <2>12 DEF Parts, Holds
  <2>15. Sound(y) /\ Holds(y, b, f, c) /\ Delta(y) = Depth(f, c) /\ y # Nil
    <3>1. /\ Delta(f) - Delta(c) \in -2 .. 2 /\ Delta(f) - Delta(c) \in -1 .. 1
          /\ Delta(c) <= MaxItems - 2 /\ Delta(f) <= MaxItems - 2
      BY <1>0, <1>1, <2>13
    <3> HIDE DEF c, f
    <3> QED
      BY <2>3, <2>11, <2>12, <2>14, <3>1, JoinSound, JoinParts
  <2>16. Delta(y) = Delta(r)
    BY <1>1, <2>13, <2>15, DepthIs
  <2> HIDE DEF c, f, y
  <2>17. Holds(y, p, l, r)
    <3>1. Items(y) = Items(l) \cup {p.item} \cup Items(r)
      BY <1>5, <2>5, <2>11, <2>12, <2>15 DEF Holds
    <3>2. Copies[y] = p.count + Copies[l] + Copies[r]
      BY <1>5, <1>6, <2>5, <2>8, <2>11, <2>12, <2>15 DEF Holds
    <3>3. ASSUME NEW v \in Words
          PROVE  Count(y, v) = IF v = p.item THEN p.count
                               ELSE IF v < p.item THEN Count(l, v) ELSE Count(r, v)
      <4>1. v \in Nat
        BY <1>0
      <4>2. /\ Count(y, v) = IF v = b.item THEN b.count
                             ELSE IF v < b.item THEN Count(f, v) ELSE Count(c, v)
            /\ Count(c, v) = IF v = r.item THEN r.count
                             ELSE IF v < r.item THEN Count(d, v) ELSE Count(a, v)
            /\ Count(f, v) = IF v = p.item THEN p.count
                             ELSE IF v < p.item THEN Count(l, v) ELSE Count(e, v)
            /\ Count(r, v) = IF v = r.item THEN r.count
                             ELSE IF v < r.item THEN Count(b, v) ELSE Count(a, v)
            /\ Count(b, v) = IF v = b.item THEN b.count
                             ELSE IF v < b.item THEN Count(e, v) ELSE Count(d, v)
        BY <1>5, <2>5, <2>11, <2>12, <2>15 DEF Holds
      <4> QED
        BY <1>6, <2>8, <4>1, <4>2
    <3> QED
      BY <3>1, <3>2, <3>3 DEF Holds
  <2> QED
    BY <2>6, <2>15, <2>16, <2>17
<1> QED
  BY <1>2, <1>4, <1>9, <1>10

\* Setting the depth of a node over two subtrees puts it together.
LEMMA OverIs ==
    /\ \A p, l, r : IsOver(Join(p, l, r), p, l, r)
    /\ \A t, u : IsNode(t) => /\ IsOver(WithLeft(t, u), t, u, t.right)
                              /\ IsOver(WithRight(t, u), t, t.left, u)
    /\ \A x, p, l, r : IsOver(x, p, l, r) => WithDepth(x) = Join(p, l, r)
<1>1. ASSUME NEW p, NEW l, NEW r PROVE IsOver(Join(p, l, r), p, l, r)
  <2>1. \A y, z : Join(Join(p, l, r), y, z) = Join(p, y, z)
    BY DEF Join
  <2> QED
    BY <2>1, JoinParts, NodesAreNodes DEF IsOver
<1>2. ASSUME NEW t, NEW u, IsNode(t)
      PROVE  IsOver(WithLeft(t, u), t, u, t.right) /\ IsOver(WithRight(t, u), t, t.left, u)
  BY <1>2, Relinked DEF IsOver
<1>3. ASSUME NEW x, NEW p, NEW l, NEW r, IsOver(x, p, l, r)
      PROVE  WithDepth(x) = Join(p, l, r)
  <2>1. WithDepth(x) = Join(x, x.left, x.right)
    <3>1. IsNode(x)
      BY <1>3 DEF IsOver
    <3> QED
      BY <3>1 DEF IsNode, WithDepth, Join
  <2> QED
    BY <1>3, <2>1 DEF IsOver
<1> QED
  BY <1>1, <1>2, <1>3

\* The depth of a search tree need not be set again.
LEMMA DepthIsSet ==
    ASSUME NEW t, Sound(t), t # Nil
    PROVE  WithDepth(t) = t
<1>1. IsNode(t) /\ t.depth = Depth(t.left, t.right)
  BY SoundParts, NodesAreNodes DEF Local, Sound
<1> QED
  BY <1>1 DEF WithDepth, IsNode

\* The end of remove_node makes a search tree of one whose subtrees are, and of
\* which one is two levels deeper at most.
LEMMA RebalancedSound ==
    ASSUME NEW p, Payload(p), NEW l, Sound(l), NEW r, Sound(r), Parts(p, l, r),
           Delta(l) - Delta(r) \in -2 .. 2,
           Delta(l) <= MaxItems - 2, Delta(r) <= MaxItems - 2,
           NEW y, y = Rebalanced(Join(p, l, r))
    PROVE  /\ Sound(y) /\ y # Nil /\ Holds(y, p, l, r)
           /\ Delta(y) \in Depth(l, r) - 1 .. Depth(l, r)
           /\ Delta(l) - Delta(r) \in -1 .. 1 => y = Join(p, l, r) /\ Delta(y) = Depth(l, r)
<1> DEFINE x == Join(p, l, r)
<1>0. /\ x.left = l /\ x.right = r /\ Delta(x) = Depth(l, r) /\ x # Nil
      /\ Balance(x) = Delta(l) - Delta(r) /\ IsOver(x, p, l, r)
  BY JoinParts, OverIs
<1>1. /\ Delta(l) \in -1 .. MaxItems - 1 /\ Delta(r) \in -1 .. MaxItems - 1 /\ MaxItems \in Nat
  BY SoundDelta, TreeAssumption
<1>2. y = IF Balance(x) > 1 THEN IF Balance(l) >= 0 THEN RotateRight(x) ELSE RotateLeftRight(x)
          ELSE IF Balance(x) < -1
            THEN IF Balance(r) <= 0 THEN RotateLeft(x) ELSE RotateRightLeft(x)
          ELSE x
  BY <1>0 DEF Rebalanced
<1> HIDE DEF x
<1>3. CASE Delta(l) - Delta(r) = 2
  <2>1. Delta(l) = Delta(r) + 2 /\ Balance(x) > 1 /\ Depth(l, r) = Delta(l) + 1
    BY <1>0, <1>1, <1>3, DepthIs
  <2>2. y = IF Balance(l) >= 0 THEN RotateRight(x) ELSE RotateLeftRight(x)
    BY <1>2, <2>1
  <2>3. /\ Balance(l) \in -1 .. 1
        /\ Balance(l) >= 0 =>
                /\ Sound(RotateRight(x)) /\ RotateRight(x) # Nil
                /\ Holds(RotateRight(x), p, l, r)
                /\ Delta(RotateRight(x)) = IF Balance(l) = 0 THEN Delta(l) + 1 ELSE Delta(l)
        /\ Balance(l) < 0 =>
                /\ Sound(RotateLeftRight(x)) /\ RotateLeftRight(x) # Nil
                /\ Holds(RotateLeftRight(x), p, l, r)
                /\ Delta(RotateLeftRight(x)) = Delta(l)
    BY <1>0, <2>1, LeaningLeft
  <2>4. Sound(y) /\ y # Nil /\ Holds(y, p, l, r) /\ Delta(y) \in {Delta(l), Delta(l) + 1}
    BY <2>2, <2>3
  <2> QED
    BY <1>1, <1>3, <2>1, <2>4
<1>4. CASE Delta(l) - Delta(r) = -2
  <2>1. Delta(r) = Delta(l) + 2 /\ Balance(x) < -1 /\ ~(Balance(x) > 1) /\ Depth(l, r) = Delta(r) + 1
    BY <1>0, <1>1, <1>4, DepthIs
  <2>2. y = IF Balance(r) <= 0 THEN RotateLeft(x) ELSE RotateRightLeft(x)
    BY <1>2, <2>1
  <2>3. /\ Balance(r) \in -1 .. 1
        /\ Balance(r) <= 0 =>
                /\ Sound(RotateLeft(x)) /\ RotateLeft(x) # Nil
                /\ Holds(RotateLeft(x), p, l, r)
                /\ Delta(RotateLeft(x)) = IF Balance(r) = 0 THEN Delta(r) + 1 ELSE Delta(r)
        /\ Balance(r) > 0 =>
                /\ Sound(RotateRightLeft(x)) /\ RotateRightLeft(x) # Nil
                /\ Holds(RotateRightLeft(x), p, l, r)
                /\ Delta(RotateRightLeft(x)) = Delta(r)
    BY <1>0, <2>1, LeaningRight
  <2>4. Sound(y) /\ y # Nil /\ Holds(y, p, l, r) /\ Delta(y) \in {Delta(r), Delta(r) + 1}
    BY <2>2, <2>3
  <2> QED
    BY <1>1, <1>4, <2>1, <2>4
<1>5. CASE Delta(l) - Delta(r) \in -1 .. 1
  <2>1. y = x
    BY <1>0, <1>2, <1>5
  <2>2. Sound(x) /\ Holds(x, p, l, r)
    BY <1>5, JoinSound DEF x
  <2>3. Depth(l, r) \in Int
    BY <1>1, DepthIs
  <2> QED
    BY <1>0, <2>1, <2>2, <2>3 DEF x
<1> QED
  BY <1>1, <1>3, <1>4, <1>5

-----------------------------------------------------------------------------
(* update.                                                                 *)

FixLeft(s, w) ==
  WithDepth(IF Balance(s) \in -1 .. 1 THEN s
            ELSE IF w < s.left.item THEN RotateRight(s) ELSE RotateLeftRight(s))

FixRight(s, w) ==
  WithDepth(IF Balance(s) \in -1 .. 1 THEN s
            ELSE IF w > s.right.item THEN RotateLeft(s) ELSE RotateRightLeft(s))

CountedOn(t, n) == [t EXCEPT !.count = @ + n]

\* What update returns.
LEMMA UpdatedIs ==
    ASSUME NEW w, NEW new
    PROVE  /\ Updated(Nil, w, new) = new
           /\ \A t \in Tree \ {Nil} :
                Updated(t, w, new) =
                  IF w = t.item THEN WithDepth(CountedOn(t, 1))
                  ELSE IF w < t.item THEN FixLeft(WithLeft(t, Updated(t.left, w, new)), w)
                  ELSE FixRight(WithRight(t, Updated(t.right, w, new)), w)
<1> DEFINE Step(g, t) ==
             IF t = Nil THEN new
             ELSE IF w = t.item THEN WithDepth(CountedOn(t, 1))
             ELSE IF w < t.item THEN FixLeft(WithLeft(t, g[t.left]), w)
             ELSE FixRight(WithRight(t, g[t.right]), w)
           S == {n \in Nat : \E g : g = [t \in Trees[n] |-> Step(g, t)]}
<1>0. MaxItems \in Nat /\ Tree = Trees[MaxItems]
  BY TreeAssumption DEF Tree
<1>1. 0 \in S
  <2> DEFINE g == [t \in Trees[0] |-> Step([s \in {} |-> s], Nil)]
  <2>1. \A t \in Trees[0] : t = Nil
    BY TreesAre
  <2>2. \A t \in Trees[0] : Step([s \in {} |-> s], Nil) = Step(g, t)
    BY <2>1
  <2>3. g = [t \in Trees[0] |-> Step(g, t)]
    BY <2>2
  <2> HIDE DEF g
  <2> QED
    BY <2>3
<1>2. \A n \in 0 .. MaxItems - 1 : n \in S => n + 1 \in S
  <2> SUFFICES ASSUME NEW n \in 0 .. MaxItems - 1, n \in S PROVE n + 1 \in S
    OBVIOUS
  <2>1. PICK g : g = [t \in Trees[n] |-> Step(g, t)]
    OBVIOUS
  <2> DEFINE h == [t \in Trees[n + 1] |-> Step(g, t)]
  <2>2. \A t \in Trees[n] : h[t] = g[t]
    <3> TAKE t \in Trees[n]
    <3>1. t \in Trees[n + 1]
      BY TreesGrow
    <3> HIDE DEF Step
    <3>2. g[t] = Step(g, t)
      BY <2>1
    <3>3. h[t] = Step(g, t)
      BY <3>1
    <3> QED
      BY <3>2, <3>3
  <2>3. \A t \in Trees[n + 1] : Step(g, t) = Step(h, t)
    <3> TAKE t \in Trees[n + 1]
    <3>1. CASE t = Nil
      BY <3>1
    <3>2. CASE t # Nil
      <4>1. n + 1 \in 0 .. MaxItems /\ (n + 1) - 1 = n
        BY <1>0
      <4>2. t.left \in Trees[n] /\ t.right \in Trees[n]
        BY <3>2, <4>1, TreeParts
      <4>3. h[t.left] = g[t.left] /\ h[t.right] = g[t.right]
        BY <2>2, <4>2
      <4> HIDE DEF h
      <4> QED
        BY <3>2, <4>3
    <3> QED
      BY <3>1, <3>2
  <2> HIDE DEF Step
  <2>4. h = [t \in Trees[n + 1] |-> Step(h, t)]
    BY <2>3
  <2> HIDE DEF h
  <2> QED
    BY <1>0, <2>4
<1>3. MaxItems \in S
  <2> HIDE DEF S
  <2>1. 0 .. MaxItems \subseteq S
    BY <1>0, <1>1, <1>2, Upwards
  <2> QED
    BY <1>0, <2>1
<1>4. \E g : g = [t \in Tree |-> Step(g, t)]
  BY <1>0, <1>3
<1> DEFINE F == CHOOSE g : g = [t \in Tree |-> Step(g, t)]
<1>5. \A t : Updated(t, w, new) = F[t]
  BY DEF Updated, FixLeft, FixRight, WithLeft, WithRight, CountedOn
<1> HIDE DEF Step
<1>6. F = [t \in Tree |-> Step(F, t)]
  BY <1>4
<1> HIDE DEF F
<1>7. \A t \in Tree : F[t] = Step(F, t)
  BY <1>6
<1>8. Nil \in Tree
  BY NilIsTree, TreeTop
<1> QED
  BY <1>5, <1>7, <1>8 DEF Step

\* The word w once more, and nothing else.
Gains(u, t, w) ==
  /\ Items(u) = Items(t) \cup {w}
  /\ Copies[u] = Copies[t] + 1
  /\ \A v \in Words : Count(u, v) = IF v = w THEN Count(t, v) + 1 ELSE Count(t, v)

\* What update keeps, so that one rotation is enough: a tree that has become deeper
\* leans to the side of the word.
OneMore(u, t, w) ==
  /\ Sound(u) /\ u # Nil /\ Gains(u, t, w)
  /\ Delta(u) \in Delta(t) .. Delta(t) + 1
  /\ t # Nil /\ Delta(u) = Delta(t) + 1 =>
       \/ w < u.item /\ Balance(u) = 1
       \/ w > u.item /\ Balance(u) = -1

Fresh(new, w) == \E at, str \in Blocks : new = Node(w, at, str)

\* The node of a new word, in the place of an empty tree.
LEMMA LeafSound ==
    ASSUME NEW w \in Words, NEW new, Fresh(new, w), MaxItems > 0
    PROVE  OneMore(new, Nil, w)
<1>1. PICK at \in Blocks, str \in Blocks : new = Node(w, at, str)
  BY DEF Fresh
<1> DEFINE p == [item |-> w, count |-> 1, at |-> at, str |-> str]
<1>2. new = [item |-> w, count |-> 1, depth |-> 0, left |-> Nil, right |-> Nil,
             at |-> at, str |-> str]
  BY <1>1 DEF Node
<1>3. Depth(Nil, Nil) = 0
  BY NilIsSound DEF Depth
<1>4. new = Join(p, Nil, Nil)
  BY <1>2, <1>3 DEF Join
<1>5. Payload(p) /\ p.item = w /\ p.count = 1
  BY DEF Payload
<1> HIDE DEF p
<1>6. new # Nil /\ Delta(new) = 0
  BY <1>3, <1>4, JoinParts
<1>7. new \in Tree
  <2>0. MaxItems \in Nat /\ MaxItems - 1 \in 0 .. MaxItems - 1 /\ MaxItems - 1 \in 0 .. MaxItems
        /\ (MaxItems - 1) + 1 = MaxItems
    BY TreeAssumption
  <2>1. Nil \in Trees[MaxItems - 1]
    BY <2>0, NilIsTree
  <2>2. new \in Over(Trees[MaxItems - 1])
    BY <1>2, <2>1 DEF Over
  <2>3. Trees[MaxItems] = {Nil} \cup Over(Trees[MaxItems - 1])
    BY <2>0, TreesAre
  <2> QED
    BY <2>2, <2>3, TreeTop
<1>8. new.left = Nil /\ new.right = Nil /\ new.item = w /\ new.count = 1 /\ new.depth = 0
  BY <1>2
<1>9. Nodes[new] = {new} /\ Copies[new] = 1 /\ Items(new) = {w}
  BY <1>6, <1>7, <1>8, NodeParts, NilParts, ItemsAre
<1>10. Local(new)
  <2>1. Balance(new) = 0
    BY <1>8, NilIsSound DEF Balance
  <2> QED
    BY <1>3, <1>8, <2>1, ItemsAre DEF Local
<1>11. ASSUME NEW v \in Words PROVE Count(new, v) = (IF v = w THEN 1 ELSE 0) /\ Count(Nil, v) = 0
  BY <1>6, <1>7, <1>8, CountIs
<1>12. Gains(new, Nil, w)
  BY <1>9, <1>11, NilParts, ItemsAre, CountIs DEF Gains
<1>13. Sound(new)
  BY <1>7, <1>9, <1>10 DEF Sound
<1> QED
  BY <1>6, <1>12, <1>13, NilIsSound DEF OneMore

\* What a subtree gains, the tree gains.
LEMMA GainsAbove ==
    ASSUME NEW t \in Tree \ {Nil}, NEW w \in Words, NEW u, NEW s
    PROVE  /\ w < t.item /\ Gains(s, t.left, w) /\ Holds(u, t, s, t.right) => Gains(u, t, w)
           /\ w > t.item /\ Gains(s, t.right, w) /\ Holds(u, t, t.left, s) => Gains(u, t, w)
<1>0. w \in Nat /\ t.item \in Nat /\ t.count \in Nat /\ Copies[t.left] \in Nat /\ Copies[t.right] \in Nat
      /\ t.left \in Tree /\ t.right \in Tree
  BY NodeParts, NodesTyped, TreeAssumption
<1>1. /\ Items(t) = {t.item} \cup Items(t.left) \cup Items(t.right)
      /\ Copies[t] = t.count + Copies[t.left] + Copies[t.right]
      /\ \A v \in Words : Count(t, v) = IF v = t.item THEN t.count
                                        ELSE IF v < t.item THEN Count(t.left, v) ELSE Count(t.right, v)
  BY ItemsAre, NodeParts, CountIs
<1>2. ASSUME w < t.item, Gains(s, t.left, w), Holds(u, t, s, t.right) PROVE Gains(u, t, w)
  <2>1. Items(u) = Items(t) \cup {w}
    BY <1>1, <1>2 DEF Gains, Holds
  <2>2. Copies[u] = Copies[t] + 1
    BY <1>0, <1>1, <1>2 DEF Gains, Holds
  <2>3. ASSUME NEW v \in Words
        PROVE  Count(u, v) = IF v = w THEN Count(t, v) + 1 ELSE Count(t, v)
    <3>1. /\ Count(u, v) = IF v = t.item THEN t.count
                           ELSE IF v < t.item THEN Count(s, v) ELSE Count(t.right, v)
          /\ Count(s, v) = IF v = w THEN Count(t.left, v) + 1 ELSE Count(t.left, v)
      BY <1>2 DEF Gains, Holds
    <3> QED
      BY <1>0, <1>1, <1>2, <3>1, TreeAssumption
  <2> QED
    BY <2>1, <2>2, <2>3 DEF Gains
<1>3. ASSUME w > t.item, Gains(s, t.right, w), Holds(u, t, t.left, s) PROVE Gains(u, t, w)
  <2>1. Items(u) = Items(t) \cup {w}
    BY <1>1, <1>3 DEF Gains, Holds
  <2>2. Copies[u] = Copies[t] + 1
    BY <1>0, <1>1, <1>3 DEF Gains, Holds
  <2>3. ASSUME NEW v \in Words
        PROVE  Count(u, v) = IF v = w THEN Count(t, v) + 1 ELSE Count(t, v)
    <3>1. /\ Count(u, v) = IF v = t.item THEN t.count
                           ELSE IF v < t.item THEN Count(t.left, v) ELSE Count(s, v)
          /\ Count(s, v) = IF v = w THEN Count(t.right, v) + 1 ELSE Count(t.right, v)
      BY <1>3 DEF Gains, Holds
    <3> QED
      BY <1>0, <1>1, <1>3, <3>1, TreeAssumption
  <2> QED
    BY <2>1, <2>2, <2>3 DEF Gains
<1> QED
  BY <1>2, <1>3

\* The node of the word itself.
LEMMA CountedOnIs ==
    ASSUME NEW t, t # Nil, Sound(t), NEW n \in Int, t.count + n \in Nat \ {0},
           Delta(t) <= MaxItems - 1, NEW u, u = WithDepth(CountedOn(t, n))
    PROVE  /\ Sound(u) /\ u # Nil /\ Delta(u) = Delta(t) /\ u.item = t.item
           /\ u = Join(CountedOn(t, n), t.left, t.right)
           /\ Items(u) = Items(t)
           /\ Copies[u] = Copies[t] + n
           /\ \A v \in Words : Count(u, v) = IF v = t.item THEN Count(t, v) + n ELSE Count(t, v)
<1> DEFINE p == CountedOn(t, n)
           l == t.left
           r == t.right
<1>1. /\ IsNode(t) /\ Payload(t) /\ Sound(l) /\ Sound(r) /\ Local(t) /\ t \in Tree \ {Nil}
  BY SoundParts, NodesAreNodes
<1>2. p = [item |-> t.item, count |-> t.count + n, depth |-> t.depth, left |-> l, right |-> r,
           at |-> t.at, str |-> t.str]
  BY <1>1 DEF CountedOn, IsNode
<1>3. Payload(p) /\ p.item = t.item /\ p.count = t.count + n /\ WithDepth(p) = Join(p, l, r)
  <2> HIDE DEF p
  <2> QED
    BY <1>1, <1>2 DEF Payload, WithDepth, Join
<1>4. /\ Parts(p, l, r) /\ Delta(l) - Delta(r) \in -1 .. 1 /\ Delta(t) = Depth(l, r)
  BY <1>1, <1>3 DEF Local, Parts, Delta, Balance
<1>5. /\ Delta(l) \in -1 .. MaxItems - 1 /\ Delta(r) \in -1 .. MaxItems - 1 /\ MaxItems \in Nat
  BY <1>1, SoundDelta, TreeAssumption
<1>6. Delta(l) <= MaxItems - 2 /\ Delta(r) <= MaxItems - 2 /\ Delta(l) - Delta(r) \in -2 .. 2
  BY <1>4, <1>5 DEF Depth
<1> HIDE DEF p, l, r
<1>7. /\ u = Join(p, l, r)
      /\ Sound(u) /\ u # Nil /\ Holds(u, p, l, r) /\ u.item = t.item /\ Delta(u) = Delta(t)
  BY <1>1, <1>3, <1>4, <1>6, JoinSound, JoinParts DEF p
<1>8. /\ Items(t) = {t.item} \cup Items(l) \cup Items(r)
      /\ Copies[t] = t.count + Copies[l] + Copies[r] /\ t.count \in Nat
      /\ Copies[l] \in Nat /\ Copies[r] \in Nat
      /\ \A v \in Words : Count(t, v) = IF v = t.item THEN t.count
                                        ELSE IF v < t.item THEN Count(l, v) ELSE Count(r, v)
  BY <1>1, ItemsAre, NodeParts, CountIs, NodesTyped DEF l, r
<1>9. Items(u) = Items(t) /\ Copies[u] = Copies[t] + n
  BY <1>3, <1>7, <1>8 DEF Holds
<1>10. ASSUME NEW v \in Words
       PROVE  Count(u, v) = IF v = t.item THEN Count(t, v) + n ELSE Count(t, v)
  BY <1>3, <1>7, <1>8 DEF Holds
<1> QED
  BY <1>7, <1>9, <1>10 DEF p, l, r

\* update puts the word into a search tree that is not as deep as the bound allows.
LEMMA UpdatedSound ==
    ASSUME NEW t, Sound(t), NEW w \in Words, NEW new, w \in Items(t) \/ Fresh(new, w),
           Delta(t) <= MaxItems - 2
    PROVE  OneMore(Updated(t, w, new), t, w)
<1> DEFINE P(s) == Sound(s) /\ (w \in Items(s) \/ Fresh(new, w)) /\ Delta(s) <= MaxItems - 2
                     => OneMore(Updated(s, w, new), s, w)
           S == {s \in Tree : P(s)}
<1>0. MaxItems \in Nat /\ w \in Nat
  BY TreeAssumption
<1>1. P(Nil)
  <2> SUFFICES ASSUME Fresh(new, w), -1 <= MaxItems - 2 PROVE OneMore(Updated(Nil, w, new), Nil, w)
    BY NilIsSound, ItemsAre
  <2> QED
    BY <1>0, UpdatedIs, LeafSound
<1>2. ASSUME NEW s \in Tree \ {Nil}, P(s.left), P(s.right), Sound(s),
             w \in Items(s) \/ Fresh(new, w), Delta(s) <= MaxItems - 2
      PROVE  OneMore(Updated(s, w, new), s, w)
  <2> DEFINE u == Updated(s, w, new)
             l == s.left
             r == s.right
  <2>1. /\ Sound(l) /\ Sound(r) /\ Local(s) /\ IsNode(s) /\ Payload(s) /\ s.item \in Nat
        /\ Items(l) \subseteq Nat /\ Items(r) \subseteq Nat
    BY <1>2, SoundParts, NodesAreNodes, NodeParts, NodesTyped, TreeAssumption
  <2>2. /\ Parts(s, l, r) /\ Delta(s) = Depth(l, r) /\ Delta(l) - Delta(r) \in -1 .. 1
        /\ Delta(l) \in -1 .. MaxItems - 3 /\ Delta(r) \in -1 .. MaxItems - 3
    <3>1. /\ Parts(s, l, r) /\ Delta(s) = Depth(l, r) /\ Delta(l) - Delta(r) \in -1 .. 1
      BY <1>2, <2>1 DEF Local, Parts, Delta, Balance
    <3>2. Delta(l) \in -1 .. MaxItems - 1 /\ Delta(r) \in -1 .. MaxItems - 1
      BY <2>1, SoundDelta
    <3> QED
      BY <1>0, <1>2, <3>1, <3>2 DEF Depth
  <2>3. Items(s) = {s.item} \cup Items(l) \cup Items(r)
    BY <1>2, ItemsAre
  <2> HIDE DEF l, r
  <2>4. CASE w = s.item
    <3>1. u = WithDepth(CountedOn(s, 1))
      BY <1>2, <2>4, UpdatedIs
    <3>2. s.count + 1 \in Nat \ {0} /\ Delta(s) <= MaxItems - 1
      BY <1>0, <1>2, <2>1, <2>2 DEF Payload, Depth
    <3> HIDE DEF u
    <3>3. /\ Sound(u) /\ u # Nil /\ Delta(u) = Delta(s)
          /\ Items(u) = Items(s) /\ Copies[u] = Copies[s] + 1
          /\ \A v \in Words : Count(u, v) = IF v = s.item THEN Count(s, v) + 1 ELSE Count(s, v)
      BY <1>2, <3>1, <3>2, CountedOnIs
    <3>4. Gains(u, s, w)
      BY <2>3, <2>4, <3>3 DEF Gains
    <3>5. Delta(s) \in Int
      BY <2>2, DepthIs
    <3> QED
      BY <3>3, <3>4, <3>5 DEF OneMore, u
  <2>5. CASE w < s.item
    <3> DEFINE m == Updated(l, w, new)
               x == WithLeft(s, m)
    <3>1. u = FixLeft(x, w)
      <4>1. w # s.item
        BY <1>0, <2>1, <2>5
      <4> QED
        BY <2>5, <4>1, UpdatedIs DEF l
    <3>2. w \notin Items(r) /\ w # s.item
      BY <1>0, <2>1, <2>2, <2>5 DEF Parts
    <3>3. OneMore(m, l, w)
      BY <1>0, <1>2, <2>1, <2>2, <2>3, <3>2 DEF l
    <3>4. IsOver(x, s, m, r) /\ x.left = m /\ x.right = r
      BY <2>1, OverIs DEF IsOver, r
    <3> HIDE DEF u, m, x
    <3>5. /\ Sound(m) /\ m # Nil /\ Gains(m, l, w) /\ Delta(m) \in Delta(l) .. Delta(l) + 1
      BY <3>3 DEF OneMore
    <3>6. Parts(s, m, r)
      BY <2>2, <2>5, <3>5 DEF Parts, Gains
    <3>7. Balance(x) = Delta(m) - Delta(r)
      BY <3>4 DEF Balance
    <3>8. /\ Delta(m) - Delta(r) \in -1 .. 2 /\ Delta(m) - Delta(r) \in -2 .. 2
          /\ Delta(m) <= MaxItems - 2 /\ Delta(r) <= MaxItems - 2 /\ Delta(m) \in Int
      BY <1>0, <2>2, <3>5
    <3>9. CASE Balance(x) \in -1 .. 1
      <4>1. u = Join(s, m, r)
        BY <3>1, <3>4, <3>9, OverIs DEF FixLeft
      <4>2. /\ Sound(u) /\ u # Nil /\ Holds(u, s, m, r) /\ Delta(u) = Depth(m, r)
            /\ Balance(u) = Delta(m) - Delta(r) /\ u.item = s.item
        BY <2>1, <3>5, <3>6, <3>7, <3>8, <3>9, <4>1, JoinSound, JoinParts
      <4>3. Gains(u, s, w)
        BY <1>2, <2>5, <3>5, <4>2, GainsAbove DEF l, r
      <4>4. /\ Delta(u) \in Delta(s) .. Delta(s) + 1
            /\ Delta(u) = Delta(s) + 1 => Balance(u) = 1
        BY <2>2, <3>5, <3>7, <3>8, <3>9, <4>2 DEF Depth
      <4> QED
        BY <2>5, <4>2, <4>3, <4>4 DEF OneMore, u
    <3>10. CASE Balance(x) \notin -1 .. 1
      <4>1. /\ Delta(m) = Delta(r) + 2 /\ Delta(m) = Delta(l) + 1 /\ Delta(s) = Delta(l) + 1
            /\ Delta(l) >= 0
        BY <2>2, <3>5, <3>7, <3>8, <3>10 DEF Depth
      <4>2. l # Nil
        BY <4>1, NilIsSound
      <4>3. \/ w < m.item /\ Balance(m) = 1
            \/ w > m.item /\ Balance(m) = -1
        BY <3>3, <4>1, <4>2 DEF OneMore
      <4>4. m.item \in Nat
        BY <3>5, NodeParts, TreeAssumption DEF Sound
      <4> DEFINE y == IF w < m.item THEN RotateRight(x) ELSE RotateLeftRight(x)
      <4>5. u = WithDepth(y)
        BY <3>1, <3>4, <3>10 DEF FixLeft
      <4>6. Sound(y) /\ y # Nil /\ Holds(y, s, m, r) /\ Delta(y) = Delta(m)
        <5>1. CASE w < m.item
          <6>1. Balance(m) = 1
            BY <1>0, <4>3, <4>4, <5>1
          <6> QED
            BY <2>1, <3>4, <3>5, <3>6, <3>8, <4>1, <5>1, <6>1, LeaningLeft
        <5>2. CASE w > m.item
          <6>1. Balance(m) = -1 /\ ~(w < m.item)
            BY <1>0, <4>3, <4>4, <5>2
          <6> QED
            BY <2>1, <3>4, <3>5, <3>6, <3>8, <4>1, <5>2, <6>1, LeaningLeft
        <5> QED
          BY <4>3, <5>1, <5>2
      <4> HIDE DEF y
      <4>7. u = y
        BY <4>5, <4>6, DepthIsSet
      <4>8. Gains(u, s, w)
        BY <1>2, <2>5, <3>5, <4>6, <4>7, GainsAbove DEF l, r
      <4>9. Delta(u) \in Delta(s) .. Delta(s) + 1 /\ Delta(u) # Delta(s) + 1
        BY <2>2, <4>1, <4>6, <4>7
      <4> QED
        BY <4>6, <4>7, <4>8, <4>9 DEF OneMore, u
    <3> QED
      BY <3>9, <3>10
  <2>6. CASE w > s.item
    <3> DEFINE m == Updated(r, w, new)
               x == WithRight(s, m)
    <3>1. u = FixRight(x, w)
      <4>1. w # s.item /\ ~(w < s.item)
        BY <1>0, <2>1, <2>6
      <4> QED
        BY <4>1, UpdatedIs DEF r
    <3>2. w \notin Items(l) /\ w # s.item
      BY <1>0, <2>1, <2>2, <2>6 DEF Parts
    <3>3. OneMore(m, r, w)
      BY <1>0, <1>2, <2>1, <2>2, <2>3, <3>2 DEF r
    <3>4. IsOver(x, s, l, m) /\ x.left = l /\ x.right = m
      BY <2>1, OverIs DEF IsOver, l
    <3> HIDE DEF u, m, x
    <3>5. /\ Sound(m) /\ m # Nil /\ Gains(m, r, w) /\ Delta(m) \in Delta(r) .. Delta(r) + 1
      BY <3>3 DEF OneMore
    <3>6. Parts(s, l, m)
      BY <2>2, <2>6, <3>5 DEF Parts, Gains
    <3>7. Balance(x) = Delta(l) - Delta(m)
      BY <3>4 DEF Balance
    <3>8. /\ Delta(l) - Delta(m) \in -2 .. 1 /\ Delta(l) - Delta(m) \in -2 .. 2
          /\ Delta(m) <= MaxItems - 2 /\ Delta(l) <= MaxItems - 2 /\ Delta(m) \in Int
      BY <1>0, <2>2, <3>5
    <3>9. CASE Balance(x) \in -1 .. 1
      <4>1. u = Join(s, l, m)
        BY <3>1, <3>4, <3>9, OverIs DEF FixRight
      <4>2. /\ Sound(u) /\ u # Nil /\ Holds(u, s, l, m) /\ Delta(u) = Depth(l, m)
            /\ Balance(u) = Delta(l) - Delta(m) /\ u.item = s.item
        BY <2>1, <3>5, <3>6, <3>7, <3>8, <3>9, <4>1, JoinSound, JoinParts
      <4>3. Gains(u, s, w)
        BY <1>2, <2>6, <3>5, <4>2, GainsAbove DEF l, r
      <4>4. /\ Delta(u) \in Delta(s) .. Delta(s) + 1
            /\ Delta(u) = Delta(s) + 1 => Balance(u) = -1
        BY <2>2, <3>5, <3>7, <3>8, <3>9, <4>2 DEF Depth
      <4> QED
        BY <2>6, <4>2, <4>3, <4>4 DEF OneMore, u
    <3>10. CASE Balance(x) \notin -1 .. 1
      <4>1. /\ Delta(m) = Delta(l) + 2 /\ Delta(m) = Delta(r) + 1 /\ Delta(s) = Delta(r) + 1
            /\ Delta(r) >= 0
        BY <2>2, <3>5, <3>7, <3>8, <3>10 DEF Depth
      <4>2. r # Nil
        BY <4>1, NilIsSound
      <4>3. \/ w < m.item /\ Balance(m) = 1
            \/ w > m.item /\ Balance(m) = -1
        BY <3>3, <4>1, <4>2 DEF OneMore
      <4>4. m.item \in Nat
        BY <3>5, NodeParts, TreeAssumption DEF Sound
      <4> DEFINE y == IF w > m.item THEN RotateLeft(x) ELSE RotateRightLeft(x)
      <4>5. u = WithDepth(y)
        BY <3>1, <3>4, <3>10 DEF FixRight
      <4>6. Sound(y) /\ y # Nil /\ Holds(y, s, l, m) /\ Delta(y) = Delta(m)
        <5>1. CASE w > m.item
          <6>1. Balance(m) = -1
            BY <1>0, <4>3, <4>4, <5>1
          <6> QED
            BY <2>1, <3>4, <3>5, <3>6, <3>8, <4>1, <5>1, <6>1, LeaningRight
        <5>2. CASE w < m.item
          <6>1. Balance(m) = 1 /\ ~(w > m.item)
            BY <1>0, <4>3, <4>4, <5>2
          <6> QED
            BY <2>1, <3>4, <3>5, <3>6, <3>8, <4>1, <5>2, <6>1, LeaningRight
        <5> QED
          BY <4>3, <5>1, <5>2
      <4> HIDE DEF y
      <4>7. u = y
        BY <4>5, <4>6, DepthIsSet
      <4>8. Gains(u, s, w)
        BY <1>2, <2>6, <3>5, <4>6, <4>7, GainsAbove DEF l, r
      <4>9. Delta(u) \in Delta(s) .. Delta(s) + 1 /\ Delta(u) # Delta(s) + 1
        BY <2>2, <4>1, <4>6, <4>7
      <4> QED
        BY <4>6, <4>7, <4>8, <4>9 DEF OneMore, u
    <3> QED
      BY <3>9, <3>10
  <2> QED
    BY <1>0, <2>1, <2>4, <2>5, <2>6
<1>3. Tree \subseteq S
  <2>1. Nil \in S
    BY <1>1, NilParts
  <2>2. \A s \in Tree \ {Nil} : s.left \in S /\ s.right \in S => s \in S
    BY <1>2
  <2> HIDE DEF S
  <2> QED
    BY <2>1, <2>2, OverTrees
<1> QED
  BY <1>3 DEF Sound

-----------------------------------------------------------------------------
(* remove_node.                                                            *)

\* find_min comes to the node of the first word.
LEMMA MinIs ==
    ASSUME NEW t, Sound(t), t # Nil
    PROVE  /\ FindMin[t] \in Tree \ {Nil}
           /\ FindMin[t].item \in Items(t) /\ FindMin[t].item \in Words
           /\ \A i \in Items(t) : FindMin[t].item <= i
           /\ FindMin[t].count = Count(t, FindMin[t].item)
<1> DEFINE Q(s) == /\ FindMin[s] \in Tree \ {Nil}
                   /\ FindMin[s].item \in Items(s)
                   /\ \A i \in Items(s) : FindMin[s].item <= i
                   /\ FindMin[s].count = Count(s, FindMin[s].item)
           S == {s \in Tree : Sound(s) /\ s # Nil => Q(s)}
<1>1. Nil \in S
  BY NilParts
<1>2. ASSUME NEW s \in Tree \ {Nil}, s.left \in S, s.right \in S
      PROVE  s \in S
  <2> SUFFICES ASSUME Sound(s) PROVE Q(s)
    OBVIOUS
  <2>1. /\ Sound(s.left)
        /\ \A i \in Items(s.left) : i < s.item
        /\ \A i \in Items(s.right) : i > s.item
    BY SoundParts DEF Local
  <2>2. /\ Items(s) = {s.item} \cup Items(s.left) \cup Items(s.right)
        /\ s.item \in Nat /\ Items(s.left) \subseteq Nat /\ Items(s.right) \subseteq Nat
    BY ItemsAre, NodeParts, NodesTyped, TreeAssumption
  <2>3. CASE s.left = Nil
    <3>1. FindMin[s] = s
      BY <2>3, FindMinIs
    <3>2. Items(s.left) = {}
      BY <2>3, ItemsAre
    <3>3. Count(s, s.item) = s.count
      BY CountIs
    <3>4. \A i \in Items(s) : s.item <= i
      BY <2>1, <2>2, <3>2
    <3> QED
      BY <2>2, <3>1, <3>3, <3>4
  <2>4. CASE s.left # Nil
    <3> DEFINE m == FindMin[s.left]
    <3>1. FindMin[s] = m
      BY <2>4, FindMinIs
    <3>2. Q(s.left)
      BY <1>2, <2>1, <2>4
    <3> HIDE DEF m
    <3>3. /\ m \in Tree \ {Nil} /\ m.item \in Items(s.left)
          /\ \A i \in Items(s.left) : m.item <= i
          /\ m.count = Count(s.left, m.item)
      BY <3>2 DEF m
    <3>4. m.item < s.item /\ m.item \in Nat
      BY <2>1, <2>2, <3>3
    <3>5. \A i \in Items(s) : m.item <= i
      BY <2>1, <2>2, <3>3, <3>4
    <3>6. Count(s, m.item) = Count(s.left, m.item)
      <4>1. m.item # s.item
        BY <2>2, <3>4
      <4> QED
        BY <3>4, <4>1, CountIs
    <3> QED
      BY <2>2, <3>1, <3>3, <3>5, <3>6
  <2> QED
    BY <2>3, <2>4
<1> HIDE DEF S
<1>3. t \in S
  BY <1>1, <1>2, OverTrees DEF Sound
<1>4. Q(t)
  BY <1>3 DEF S
<1>5. Items(t) \subseteq Words
  BY NodesTyped DEF Sound
<1> QED
  BY <1>4, <1>5

\* WithOneCopy is as deep as the tree.
LEMMA OneCopyTyped ==
    ASSUME NEW n \in 0 .. MaxItems, NEW t \in Trees[n] \ {Nil}
    PROVE  WithOneCopy[t] \in Trees[n] \ {Nil}
<1> DEFINE S == {k \in Nat : k <= MaxItems =>
                    \A s \in Trees[k] \ {Nil} : WithOneCopy[s] \in Trees[k] \ {Nil}}
<1>0. MaxItems \in Nat
  BY TreeAssumption
<1>1. 0 \in S
  BY TreesAre
<1>2. \A k \in 0 .. MaxItems - 1 : k \in S => k + 1 \in S
  <2> SUFFICES ASSUME NEW k \in 0 .. MaxItems - 1,
                      \A s \in Trees[k] \ {Nil} : WithOneCopy[s] \in Trees[k] \ {Nil},
                      NEW s \in Trees[k + 1] \ {Nil}
               PROVE  WithOneCopy[s] \in Trees[k + 1] \ {Nil}
    BY <1>0
  <2>1. k + 1 \in 0 .. MaxItems /\ (k + 1) - 1 = k
    BY <1>0
  <2>2. /\ s \in Over(Trees[k]) /\ s.left \in Trees[k] /\ s.left \in Tree /\ s \in Tree
        /\ Trees[k + 1] = {Nil} \cup Over(Trees[k])
    BY <2>1, TreeParts, TreesAre, TreesInTree
  <2>3. CASE s.left = Nil
    <3>1. WithOneCopy[s] = [s EXCEPT !.count = 1]
      BY <2>2, <2>3, WithOneCopyIs
    <3>2. WithOneCopy[s] \in Over(Trees[k])
      BY <2>2, <3>1 DEF Over
    <3> QED
      BY <2>2, <3>2, NilIsNoNode
  <2>4. CASE s.left # Nil
    <3>1. WithOneCopy[s] = [s EXCEPT !.left = WithOneCopy[s.left]]
      BY <2>2, <2>4, WithOneCopyIs
    <3>2. WithOneCopy[s.left] \in Trees[k]
      BY <2>2, <2>4
    <3>3. WithOneCopy[s] \in Over(Trees[k])
      BY <2>2, <3>1, <3>2 DEF Over
    <3> QED
      BY <2>2, <3>3, NilIsNoNode
  <2> QED
    BY <2>3, <2>4
<1> HIDE DEF S
<1>3. 0 .. MaxItems \subseteq S
  BY <1>0, <1>1, <1>2, Upwards
<1> QED
  BY <1>0, <1>3 DEF S

\* A search tree whose depths are set is put together from its parts.
LEMMA JoinedAgain ==
    ASSUME NEW t, Sound(t), t # Nil
    PROVE  /\ Parts(t, t.left, t.right)
           /\ Delta(t) = Depth(t.left, t.right)
           /\ Delta(t.left) - Delta(t.right) \in -1 .. 1
           /\ Delta(t.left) \in -1 .. Delta(t) - 1 /\ Delta(t.right) \in -1 .. Delta(t) - 1
           /\ Delta(t) \in 0 .. MaxItems - 1
<1>1. Local(t) /\ Sound(t.left) /\ Sound(t.right)
  BY SoundParts
<1>2. /\ Parts(t, t.left, t.right) /\ Delta(t) = Depth(t.left, t.right)
      /\ Delta(t.left) - Delta(t.right) \in -1 .. 1
  BY <1>1 DEF Local, Parts, Delta, Balance
<1>3. /\ Delta(t.left) \in -1 .. MaxItems - 1 /\ Delta(t.right) \in -1 .. MaxItems - 1
      /\ Delta(t) \in -1 .. MaxItems - 1 /\ MaxItems \in Nat
  BY <1>1, SoundDelta, TreeAssumption
<1>4. \A a, b, d \in Int : /\ d = IF a > b THEN a + 1 ELSE b + 1
                           /\ a >= -1 /\ b >= -1
                           => a <= d - 1 /\ b <= d - 1 /\ d >= 0
  OBVIOUS
<1> QED
  BY <1>2, <1>3, <1>4 DEF Depth

\* All that WithOneCopy changes is the count of the first word.
LEMMA OneCopyIs ==
    ASSUME NEW t, Sound(t), t # Nil
    PROVE  LET u == WithOneCopy[t]
               m == FindMin[t]
           IN  /\ Sound(u) /\ u # Nil /\ Delta(u) = Delta(t) /\ Items(u) = Items(t)
               /\ Copies[u] = Copies[t] - m.count + 1
               /\ \A v \in Words : Count(u, v) = IF v = m.item THEN 1 ELSE Count(t, v)
<1> DEFINE Q(u, s, m) ==
             /\ Sound(u) /\ u # Nil /\ Delta(u) = Delta(s) /\ Items(u) = Items(s)
             /\ Copies[u] = Copies[s] - m.count + 1
             /\ \A v \in Words : Count(u, v) = IF v = m.item THEN 1 ELSE Count(s, v)
           S == {s \in Tree : Sound(s) /\ s # Nil => Q(WithOneCopy[s], s, FindMin[s])}
<1>1. Nil \in S
  BY NilParts
<1>2. ASSUME NEW s \in Tree \ {Nil}, s.left \in S, s.right \in S
      PROVE  s \in S
  <2> SUFFICES ASSUME Sound(s) PROVE Q(WithOneCopy[s], s, FindMin[s])
    OBVIOUS
  <2> DEFINE l == s.left
             r == s.right
             u == WithOneCopy[s]
             m == FindMin[s]
  <2>1. /\ Sound(l) /\ Sound(r) /\ IsNode(s) /\ Payload(s)
    BY SoundParts, NodesAreNodes
  <2>2. /\ Parts(s, l, r) /\ Delta(s) = Depth(l, r) /\ Delta(l) - Delta(r) \in -1 .. 1
        /\ Delta(l) \in -1 .. Delta(s) - 1 /\ Delta(r) \in -1 .. Delta(s) - 1
        /\ Delta(s) \in 0 .. MaxItems - 1 /\ MaxItems \in Nat /\ s.depth = Delta(s)
    BY JoinedAgain, TreeAssumption DEF Delta
  <2>3. Delta(l) <= MaxItems - 2 /\ Delta(r) <= MaxItems - 2 /\ Delta(l) - Delta(r) \in -2 .. 2
    BY <2>2
  <2>4. /\ Items(s) = {s.item} \cup Items(l) \cup Items(r)
        /\ Copies[s] = s.count + Copies[l] + Copies[r] /\ s.count \in Nat
        /\ Copies[l] \in Nat /\ Copies[r] \in Nat /\ s.item \in Nat
        /\ \A v \in Words : Count(s, v) = IF v = s.item THEN s.count
                                          ELSE IF v < s.item THEN Count(l, v) ELSE Count(r, v)
    BY <2>1, ItemsAre, NodeParts, CountIs, NodesTyped, TreeAssumption DEF Sound
  <2>5. CASE l = Nil
    <3> DEFINE p == [item |-> s.item, count |-> 1, at |-> s.at, str |-> s.str]
    <3>1. m = s /\ u = [s EXCEPT !.count = 1]
      BY <2>5, FindMinIs, WithOneCopyIs
    <3> HIDE DEF l, r, u, m
    <3>2. u = Join(p, l, r)
      BY <2>1, <2>2, <3>1 DEF IsNode, Join, l, r
    <3>3. Payload(p) /\ p.item = s.item /\ p.count = 1
      BY <2>1 DEF Payload
    <3> HIDE DEF p
    <3>4. Parts(p, l, r)
      BY <2>2, <3>3 DEF Parts
    <3>5. Sound(u) /\ Holds(u, p, l, r) /\ u # Nil /\ Delta(u) = Delta(s)
      BY <2>1, <2>2, <2>3, <3>2, <3>3, <3>4, JoinSound, JoinParts
    <3>6. Items(u) = Items(s) /\ Copies[u] = Copies[s] - m.count + 1
      <4>1. Items(u) = Items(s)
        BY <2>4, <3>3, <3>5 DEF Holds
      <4>2. Copies[u] = 1 + Copies[l] + Copies[r] /\ m.count = s.count
        BY <3>1, <3>3, <3>5 DEF Holds
      <4>3. Copies[u] = Copies[s] - s.count + 1
        BY <2>4, <4>2
      <4> QED
        BY <4>1, <4>2, <4>3
    <3>7. ASSUME NEW v \in Words PROVE Count(u, v) = IF v = m.item THEN 1 ELSE Count(s, v)
      BY <2>4, <3>1, <3>3, <3>5 DEF Holds
    <3> QED
      BY <3>5, <3>6, <3>7 DEF u, m
  <2>6. CASE l # Nil
    <3> DEFINE w == WithOneCopy[l]
    <3>1. m = FindMin[l] /\ u = WithLeft(s, w)
      BY <2>6, FindMinIs, WithOneCopyIs DEF WithLeft
    <3>2. /\ Sound(w) /\ w # Nil /\ Delta(w) = Delta(l) /\ Items(w) = Items(l)
          /\ Copies[w] = Copies[l] - m.count + 1
          /\ \A v \in Words : Count(w, v) = IF v = m.item THEN 1 ELSE Count(l, v)
      BY <1>2, <2>1, <2>6, <3>1
    <3>3. m \in Tree \ {Nil} /\ m.item \in Items(l) /\ m.item \in Words
      BY <2>1, <2>6, <3>1, MinIs
    <3> HIDE DEF l, r, u, m, w
    <3>4. u = Join(s, w, r)
      <4>1. Depth(w, r) = s.depth
        BY <2>2, <3>2 DEF Depth
      <4> QED
        BY <2>1, <3>1, <4>1 DEF IsNode, Join, WithLeft, r
    <3>5. Parts(s, w, r)
      BY <2>2, <3>2 DEF Parts
    <3>6. Depth(w, r) = Depth(l, r)
      BY <3>2 DEF Depth
    <3>7. Sound(u) /\ Holds(u, s, w, r) /\ u # Nil /\ Delta(u) = Delta(s)
      BY <2>1, <2>2, <2>3, <3>2, <3>4, <3>5, <3>6, JoinSound, JoinParts
    <3>8. m.count \in Nat /\ m.item < s.item /\ m.item \in Nat
      BY <2>2, <3>3, NodeParts, TreeAssumption DEF Parts
    <3>9. Items(u) = Items(s) /\ Copies[u] = Copies[s] - m.count + 1
      BY <2>4, <3>2, <3>7, <3>8 DEF Holds
    <3>10. ASSUME NEW v \in Words PROVE Count(u, v) = IF v = m.item THEN 1 ELSE Count(s, v)
      BY <2>4, <3>2, <3>7, <3>8 DEF Holds
    <3> QED
      BY <3>7, <3>9, <3>10 DEF u, m
  <2> QED
    BY <2>5, <2>6
<1> HIDE DEF S
<1>3. t \in S
  BY <1>1, <1>2, OverTrees DEF Sound
<1> QED
  BY <1>3 DEF S

CountedOff(t) == [t EXCEPT !.count = @ - 1]

\* The node gets the word min in another block, and its count.
Moved(t, min, str, u) == [t EXCEPT !.item = min.item, !.str = str,
                                   !.count = CountMoved(t, min), !.right = u]

\* The end of remove_node.
Settled(s) == IF s = Nil THEN Nil ELSE Rebalanced(WithDepth(s))

\* remove_node, when it gets l, r or u for what it calls itself for.
RemovedOver(t, w, all, str, l, r, u) ==
  Settled(IF w < t.item THEN WithLeft(t, l)
          ELSE IF w > t.item THEN WithRight(t, r)
          ELSE IF ~LastCopy(t) /\ ~all THEN CountedOff(t)
          ELSE IF ~TwoChildren(t) THEN Child(t)
          ELSE Moved(t, FindMin[t.right], str, u))

\* What remove_node returns.
LEMMA RemovedIs ==
    ASSUME NEW str
    PROVE  /\ \A w \in Words, all \in BOOLEAN : Removed(Nil, w, all, str) = Nil
           /\ \A t \in Tree \ {Nil} : \A w \in Words, all \in BOOLEAN :
                Removed(t, w, all, str) =
                  RemovedOver(t, w, all, str, Removed(t.left, w, FALSE, str),
                              Removed(t.right, w, FALSE, str),
                              Removed(WithOneCopy[t.right], FindMin[t.right].item, TRUE, str))
<1> DEFINE Step(g, t) ==
             [w \in Words |-> [all \in BOOLEAN |->
               IF t = Nil THEN Nil
               ELSE RemovedOver(t, w, all, str, g[t.left][w][FALSE], g[t.right][w][FALSE],
                                g[WithOneCopy[t.right]][FindMin[t.right].item][TRUE])]]
           S == {n \in Nat : \E g : g = [t \in Trees[n] |-> Step(g, t)]}
<1>0. MaxItems \in Nat /\ Tree = Trees[MaxItems]
  BY TreeAssumption DEF Tree
<1>1. 0 \in S
  <2> DEFINE g == [t \in Trees[0] |-> Step([s \in {} |-> s], Nil)]
  <2>1. \A t \in Trees[0] : t = Nil
    BY TreesAre
  <2>2. \A t \in Trees[0] : Step([s \in {} |-> s], Nil) = Step(g, t)
    BY <2>1
  <2>3. g = [t \in Trees[0] |-> Step(g, t)]
    BY <2>2
  <2> HIDE DEF g
  <2> QED
    BY <2>3
<1>2. \A n \in 0 .. MaxItems - 1 : n \in S => n + 1 \in S
  <2> SUFFICES ASSUME NEW n \in 0 .. MaxItems - 1, n \in S PROVE n + 1 \in S
    OBVIOUS
  <2>1. PICK g : g = [t \in Trees[n] |-> Step(g, t)]
    OBVIOUS
  <2> DEFINE h == [t \in Trees[n + 1] |-> Step(g, t)]
  <2>2. \A t \in Trees[n] : h[t] = g[t]
    <3> TAKE t \in Trees[n]
    <3>1. t \in Trees[n + 1]
      BY TreesGrow
    <3> HIDE DEF Step
    <3>2. g[t] = Step(g, t)
      BY <2>1
    <3>3. h[t] = Step(g, t)
      BY <3>1
    <3> QED
      BY <3>2, <3>3
  <2>3. \A t \in Trees[n + 1] : Step(g, t) = Step(h, t)
    <3> TAKE t \in Trees[n + 1]
    <3>1. CASE t = Nil
      BY <3>1
    <3>2. CASE t # Nil
      <4>1. n + 1 \in 0 .. MaxItems /\ (n + 1) - 1 = n /\ n \in 0 .. MaxItems
        BY <1>0
      <4>2. t.left \in Trees[n] /\ t.right \in Trees[n]
        BY <3>2, <4>1, TreeParts
      <4>3. h[t.left] = g[t.left] /\ h[t.right] = g[t.right]
        BY <2>2, <4>2
      <4>4. t.right # Nil => h[WithOneCopy[t.right]] = g[WithOneCopy[t.right]]
        BY <2>2, <4>1, <4>2, OneCopyTyped
      <4> HIDE DEF h
      <4>5. t.right = Nil => \A w, all, l, r, u, v :
                    RemovedOver(t, w, all, str, l, r, u) = RemovedOver(t, w, all, str, l, r, v)
        BY DEF RemovedOver, TwoChildren
      <4>6. \A w \in Words, all \in BOOLEAN :
               RemovedOver(t, w, all, str, g[t.left][w][FALSE], g[t.right][w][FALSE],
                           g[WithOneCopy[t.right]][FindMin[t.right].item][TRUE])
               = RemovedOver(t, w, all, str, h[t.left][w][FALSE], h[t.right][w][FALSE],
                             h[WithOneCopy[t.right]][FindMin[t.right].item][TRUE])
        <5>1. CASE t.right = Nil
          <6> TAKE w \in Words, all \in BOOLEAN
          <6> DEFINE u == g[WithOneCopy[t.right]][FindMin[t.right].item][TRUE]
                     v == h[WithOneCopy[t.right]][FindMin[t.right].item][TRUE]
          <6> HIDE DEF u, v
          <6>1. RemovedOver(t, w, all, str, g[t.left][w][FALSE], g[t.right][w][FALSE], u)
                = RemovedOver(t, w, all, str, g[t.left][w][FALSE], g[t.right][w][FALSE], v)
            BY <5>1 DEF RemovedOver, TwoChildren
          <6> QED
            BY <4>3, <6>1 DEF u, v
        <5>2. CASE t.right # Nil
          BY <4>3, <4>4, <5>2
        <5> QED
          BY <5>1, <5>2
      <4> QED
        BY <3>2, <4>6
    <3> QED
      BY <3>1, <3>2
  <2> HIDE DEF Step
  <2>4. h = [t \in Trees[n + 1] |-> Step(h, t)]
    BY <2>3
  <2> HIDE DEF h
  <2> QED
    BY <1>0, <2>4
<1>3. MaxItems \in S
  <2> HIDE DEF S
  <2>1. 0 .. MaxItems \subseteq S
    BY <1>0, <1>1, <1>2, Upwards
  <2> QED
    BY <1>0, <2>1
<1>4. \E g : g = [t \in Tree |-> Step(g, t)]
  BY <1>0, <1>3
<1> DEFINE F == CHOOSE g : g = [t \in Tree |-> Step(g, t)]
<1>5. \A t, w : /\ \A all : Removed(t, w, all, str) = F[t][w][all]
                /\ Removed(t, w, FALSE, str) = F[t][w][FALSE]
                /\ Removed(t, w, TRUE, str) = F[t][w][TRUE]
  BY DEF Removed, RemovedOver, Settled, Moved, CountedOff, WithLeft, WithRight
<1> HIDE DEF Step
<1>6. F = [t \in Tree |-> Step(F, t)]
  BY <1>4
<1> HIDE DEF F
<1>7. \A t \in Tree : F[t] = Step(F, t)
  BY <1>6
<1>8. Nil \in Tree
  BY NilIsTree, TreeTop
<1>9. ASSUME NEW t \in Tree, NEW w \in Words, NEW all \in BOOLEAN
      PROVE  F[t][w][all] = IF t = Nil THEN Nil
               ELSE RemovedOver(t, w, all, str, F[t.left][w][FALSE], F[t.right][w][FALSE],
                                F[WithOneCopy[t.right]][FindMin[t.right].item][TRUE])
  <2> DEFINE G(x, y) == IF t = Nil THEN Nil
               ELSE RemovedOver(t, x, y, str, F[t.left][x][FALSE], F[t.right][x][FALSE],
                                F[WithOneCopy[t.right]][FindMin[t.right].item][TRUE])
  <2>1. F[t] = [x \in Words |-> [y \in BOOLEAN |-> G(x, y)]]
    BY <1>7 DEF Step
  <2> HIDE DEF G
  <2>2. F[t][w] = [y \in BOOLEAN |-> G(w, y)]
    BY <2>1
  <2>3. F[t][w][all] = G(w, all)
    BY <2>2
  <2> QED
    BY <2>3 DEF G
<1>10. \A w \in Words, all \in BOOLEAN : Removed(Nil, w, all, str) = Nil
  <2> TAKE w \in Words, all \in BOOLEAN
  <2>1. F[Nil][w][all] = Nil
    BY <1>8, <1>9
  <2>2. Removed(Nil, w, all, str) = F[Nil][w][all]
    BY <1>5
  <2> QED
    BY <2>1, <2>2
<1>11. ASSUME NEW t \in Tree \ {Nil}, NEW w \in Words, NEW all \in BOOLEAN
       PROVE  Removed(t, w, all, str) =
                  RemovedOver(t, w, all, str, Removed(t.left, w, FALSE, str),
                              Removed(t.right, w, FALSE, str),
                              Removed(WithOneCopy[t.right], FindMin[t.right].item, TRUE, str))
  <2>1. F[t][w][all] = RemovedOver(t, w, all, str, F[t.left][w][FALSE], F[t.right][w][FALSE],
                                   F[WithOneCopy[t.right]][FindMin[t.right].item][TRUE])
    BY <1>9
  <2>2. Removed(t, w, all, str) = F[t][w][all]
    BY <1>5
  <2>3. /\ Removed(t.left, w, FALSE, str) = F[t.left][w][FALSE]
        /\ Removed(t.right, w, FALSE, str) = F[t.right][w][FALSE]
        /\ Removed(WithOneCopy[t.right], FindMin[t.right].item, TRUE, str)
           = F[WithOneCopy[t.right]][FindMin[t.right].item][TRUE]
    <3>1. Removed(t.left, w, FALSE, str) = F[t.left][w][FALSE]
      BY <1>5
    <3>2. Removed(t.right, w, FALSE, str) = F[t.right][w][FALSE]
      BY <1>5
    <3>3. \A x, y : Removed(x, y, TRUE, str) = F[x][y][TRUE]
      BY <1>5
    <3>4. Removed(WithOneCopy[t.right], FindMin[t.right].item, TRUE, str)
           = F[WithOneCopy[t.right]][FindMin[t.right].item][TRUE]
      BY <3>3
    <3> QED
      BY <3>1, <3>2, <3>4
  <2> QED
    BY <2>1, <2>2, <2>3
<1> QED
  BY <1>10, <1>11

\* A record is not the empty tree.
LEMMA NodeIsNotNil == ASSUME NEW x, IsNode(x) PROVE x # Nil
<1> SUFFICES ASSUME x = Nil PROVE FALSE
  OBVIOUS
<1>1. DOMAIN x = {"item", "count", "depth", "left", "right", "at", "str"}
  BY DEF IsNode
<1>2. DOMAIN x = {}
  BY DEF Nil
<1> QED
  BY <1>1, <1>2

\* The end of remove_node leaves a search tree as it is.
LEMMA SettledIs ==
    ASSUME NEW t, Sound(t)
    PROVE  Settled(t) = t
<1>1. CASE t = Nil
  BY <1>1 DEF Settled
<1>2. CASE t # Nil
  <2>1. WithDepth(t) = t /\ Balance(t) \in -1 .. 1
    BY <1>2, DepthIsSet, SoundParts DEF Local
  <2> QED
    BY <1>2, <2>1 DEF Settled, Rebalanced
<1> QED
  BY <1>1, <1>2

\* It makes one of a node whose subtrees differ by two levels at most.
LEMMA SettledSound ==
    ASSUME NEW p, Payload(p), NEW l, Sound(l), NEW r, Sound(r), Parts(p, l, r),
           Delta(l) - Delta(r) \in -2 .. 2,
           Delta(l) <= MaxItems - 2, Delta(r) <= MaxItems - 2,
           NEW x, IsOver(x, p, l, r)
    PROVE  /\ Sound(Settled(x)) /\ Settled(x) # Nil /\ Holds(Settled(x), p, l, r)
           /\ Delta(Settled(x)) \in Depth(l, r) - 1 .. Depth(l, r)
           /\ Delta(l) - Delta(r) \in -1 .. 1 => Delta(Settled(x)) = Depth(l, r)
<1>1. x # Nil
  BY NodeIsNotNil DEF IsOver
<1>2. WithDepth(x) = Join(p, l, r)
  BY OverIs
<1>3. Settled(x) = Rebalanced(Join(p, l, r))
  BY <1>1, <1>2 DEF Settled
<1> QED
  BY <1>3, RebalancedSound

\* The word w once less, and nothing else.
Loses(u, t, w) ==
  /\ Items(u) = IF Count(t, w) = 1 THEN Items(t) \ {w} ELSE Items(t)
  /\ Copies[u] = Copies[t] - 1
  /\ \A v \in Words : Count(u, v) = IF v = w THEN Count(t, v) - 1 ELSE Count(t, v)

OneLess(u, t, w) == Sound(u) /\ Delta(u) \in Delta(t) - 1 .. Delta(t) /\ Loses(u, t, w)

\* A node loses what its subtree loses.
LEMMA LosesAbove ==
    ASSUME NEW t, Sound(t), t # Nil, NEW w \in Words, NEW u, NEW s
    PROVE  /\ w < t.item /\ Loses(s, t.left, w) /\ Holds(u, t, s, t.right) => Loses(u, t, w)
           /\ w > t.item /\ Loses(s, t.right, w) /\ Holds(u, t, t.left, s) => Loses(u, t, w)
<1>0. /\ w \in Nat /\ t.item \in Nat /\ t.count \in Nat /\ Copies[t.left] \in Nat
      /\ Copies[t.right] \in Nat /\ t.left \in Tree /\ t.right \in Tree /\ t \in Tree \ {Nil}
      /\ Items(t.left) \subseteq Nat /\ Items(t.right) \subseteq Nat
  BY NodeParts, NodesTyped, TreeAssumption DEF Sound
<1>1. /\ Items(t) = {t.item} \cup Items(t.left) \cup Items(t.right)
      /\ Copies[t] = t.count + Copies[t.left] + Copies[t.right]
      /\ \A v \in Words : Count(t, v) = IF v = t.item THEN t.count
                                        ELSE IF v < t.item THEN Count(t.left, v) ELSE Count(t.right, v)
      /\ \A i \in Items(t.left) : i < t.item
      /\ \A i \in Items(t.right) : i > t.item
  BY <1>0, ItemsAre, NodeParts, CountIs, SoundParts DEF Local
<1>2. ASSUME w < t.item, Loses(s, t.left, w), Holds(u, t, s, t.right) PROVE Loses(u, t, w)
  <2>0. w # t.item /\ w \notin Items(t.right) /\ Count(t, w) = Count(t.left, w)
    BY <1>0, <1>1, <1>2
  <2>1. Items(u) = IF Count(t, w) = 1 THEN Items(t) \ {w} ELSE Items(t)
    <3>1. Items(u) = Items(s) \cup {t.item} \cup Items(t.right)
      BY <1>2 DEF Holds
    <3>2. Items(s) = IF Count(t, w) = 1 THEN Items(t.left) \ {w} ELSE Items(t.left)
      BY <1>2, <2>0 DEF Loses
    <3> QED
      BY <1>1, <2>0, <3>1, <3>2
  <2>2. Copies[u] = Copies[t] - 1
    BY <1>0, <1>1, <1>2 DEF Loses, Holds
  <2>3. ASSUME NEW v \in Words
        PROVE  Count(u, v) = IF v = w THEN Count(t, v) - 1 ELSE Count(t, v)
    <3>1. /\ Count(u, v) = IF v = t.item THEN t.count
                           ELSE IF v < t.item THEN Count(s, v) ELSE Count(t.right, v)
          /\ Count(s, v) = IF v = w THEN Count(t.left, v) - 1 ELSE Count(t.left, v)
      BY <1>2 DEF Loses, Holds
    <3> QED
      BY <1>0, <1>1, <1>2, <3>1, TreeAssumption
  <2> QED
    BY <2>1, <2>2, <2>3 DEF Loses
<1>3. ASSUME w > t.item, Loses(s, t.right, w), Holds(u, t, t.left, s) PROVE Loses(u, t, w)
  <2>0. w # t.item /\ ~(w < t.item) /\ w \notin Items(t.left) /\ Count(t, w) = Count(t.right, w)
    BY <1>0, <1>1, <1>3
  <2>1. Items(u) = IF Count(t, w) = 1 THEN Items(t) \ {w} ELSE Items(t)
    <3>1. Items(u) = Items(t.left) \cup {t.item} \cup Items(s)
      BY <1>3 DEF Holds
    <3>2. Items(s) = IF Count(t, w) = 1 THEN Items(t.right) \ {w} ELSE Items(t.right)
      BY <1>3, <2>0 DEF Loses
    <3> QED
      BY <1>1, <2>0, <3>1, <3>2
  <2>2. Copies[u] = Copies[t] - 1
    BY <1>0, <1>1, <1>3 DEF Loses, Holds
  <2>3. ASSUME NEW v \in Words
        PROVE  Count(u, v) = IF v = w THEN Count(t, v) - 1 ELSE Count(t, v)
    <3>1. /\ Count(u, v) = IF v = t.item THEN t.count
                           ELSE IF v < t.item THEN Count(t.left, v) ELSE Count(s, v)
          /\ Count(s, v) = IF v = w THEN Count(t.right, v) - 1 ELSE Count(t.right, v)
      BY <1>3 DEF Loses, Holds
    <3> QED
      BY <1>0, <1>1, <1>3, <3>1, TreeAssumption
  <2> QED
    BY <2>1, <2>2, <2>3 DEF Loses
<1> QED
  BY <1>2, <1>3

\* The node that gets the next word is over the same left subtree.
LEMMA MovedIs ==
    ASSUME NEW t, IsNode(t), NEW m, NEW str, NEW u, Payload(t), str \in Blocks,
           m \in Tree \ {Nil}
    PROVE  LET p == [item |-> m.item, count |-> m.count, at |-> t.at, str |-> str]
           IN  IsOver(Moved(t, m, str, u), p, t.left, u) /\ Payload(p)
<1> DEFINE p == [item |-> m.item, count |-> m.count, at |-> t.at, str |-> str]
           x == Moved(t, m, str, u)
<1>1. x = [item |-> m.item, count |-> m.count, depth |-> t.depth, left |-> t.left, right |-> u,
           at |-> t.at, str |-> str]
  <2> DEFINE x1 == [t EXCEPT !.item = m.item]
             x2 == [x1 EXCEPT !.str = str]
             x3 == [x2 EXCEPT !.count = m.count]
             x4 == [x3 EXCEPT !.right = u]
  <2>1. x = x4
    <3>1. CountMoved(t, m) = m.count
      BY DEF CountMoved
    <3> QED
      BY <3>1 DEF Moved
  <2>2. x1 = [item |-> m.item, count |-> t.count, depth |-> t.depth, left |-> t.left,
              right |-> t.right, at |-> t.at, str |-> t.str]
    BY DEF IsNode
  <2> HIDE DEF x1
  <2>3. x2 = [item |-> m.item, count |-> t.count, depth |-> t.depth, left |-> t.left,
              right |-> t.right, at |-> t.at, str |-> str]
    BY <2>2
  <2> HIDE DEF x2
  <2>4. x3 = [item |-> m.item, count |-> m.count, depth |-> t.depth, left |-> t.left,
              right |-> t.right, at |-> t.at, str |-> str]
    BY <2>3
  <2> HIDE DEF x3
  <2>5. x4 = [item |-> m.item, count |-> m.count, depth |-> t.depth, left |-> t.left,
              right |-> u, at |-> t.at, str |-> str]
    BY <2>4
  <2> HIDE DEF x, x4
  <2> QED
    BY <2>1, <2>5
<1>2. IsOver(x, p, t.left, u)
  <2> HIDE DEF x
  <2> QED
    BY <1>1 DEF IsOver, IsNode, Join
<1>3. Payload(p)
  BY NodeParts DEF Payload
<1> QED
  BY <1>2, <1>3

\* Where the node has at most one child, that takes its place.
LEMMA ChildLoses ==
    ASSUME NEW t, Sound(t), t # Nil, t.count = 1, ~TwoChildren(t)
    PROVE  OneLess(Child(t), t, t.item)
<1> DEFINE l == t.left
           r == t.right
           w == t.item
<1>1. /\ Sound(l) /\ Sound(r) /\ t \in Tree \ {Nil} /\ Words \subseteq Nat /\ w \in Words
      /\ Sound(t)
  BY SoundParts, NodeParts, TreeAssumption
<1>2. /\ Parts(t, l, r) /\ Delta(t) = Depth(l, r) /\ Delta(l) - Delta(r) \in -1 .. 1
      /\ Delta(l) \in -1 .. Delta(t) - 1 /\ Delta(r) \in -1 .. Delta(t) - 1 /\ Delta(t) \in Nat
  BY JoinedAgain
<1>3. /\ Items(t) = {w} \cup Items(l) \cup Items(r)
      /\ Copies[t] = 1 + Copies[l] + Copies[r] /\ Copies[l] \in Nat /\ Copies[r] \in Nat
      /\ \A v \in Words : Count(t, v) = IF v = w THEN 1
                                        ELSE IF v < w THEN Count(l, v) ELSE Count(r, v)
      /\ Items(l) \subseteq Words /\ Items(r) \subseteq Words
  BY <1>1, ItemsAre, NodeParts, CountIs, NodesTyped DEF Sound
<1>4. \A v \in Words : /\ v \notin Items(l) => Count(l, v) = 0
                       /\ v \notin Items(r) => Count(r, v) = 0
  BY <1>1, FindSound
<1>5. /\ Child(t) = IF l # Nil THEN l ELSE r
      /\ l = Nil \/ r = Nil
  BY DEF Child, TwoChildren
<1>6. /\ Items(Nil) = {} /\ Copies[Nil] = 0 /\ Delta(Nil) = -1
  BY ItemsAre, NilParts, NilIsSound
<1>7. Count(t, w) = 1 /\ \A v \in Words : Count(Nil, v) = 0
  BY <1>1, <1>3, CountIs
<1>8. /\ \A i \in Items(l) : i < w
      /\ \A i \in Items(r) : i > w
  BY <1>2 DEF Parts
<1> HIDE DEF l, r, w
<1>9. CASE r = Nil
  <2>1. Child(t) = l
    BY <1>5, <1>9
  <2>2. Items(l) = Items(t) \ {w}
    BY <1>1, <1>3, <1>6, <1>8, <1>9
  <2>3. Copies[l] = Copies[t] - 1
    BY <1>3, <1>6, <1>9
  <2>4. ASSUME NEW v \in Words
        PROVE  Count(l, v) = IF v = w THEN Count(t, v) - 1 ELSE Count(t, v)
    <3>1. v \in Nat /\ w \in Nat
      BY <1>1
    <3>2. ~(v < w) => v \notin Items(l)
      BY <1>8
    <3>3. ~(v < w) => Count(l, v) = 0
      BY <1>4, <3>2
    <3>4. Count(r, v) = 0
      BY <1>7, <1>9
    <3> QED
      BY <1>3, <3>1, <3>3, <3>4
  <2>5. Delta(l) \in Delta(t) - 1 .. Delta(t)
    <3>1. Delta(r) = -1
      BY <1>6, <1>9
    <3> QED
      BY <1>2, <3>1 DEF Depth
  <2>6. Loses(l, t, w)
    BY <1>7, <2>2, <2>3, <2>4 DEF Loses
  <2> QED
    BY <1>1, <2>1, <2>5, <2>6 DEF OneLess, w
<1>10. CASE l = Nil
  <2>1. Child(t) = r
    BY <1>5, <1>10
  <2>2. Items(r) = Items(t) \ {w}
    BY <1>1, <1>3, <1>6, <1>8, <1>10
  <2>3. Copies[r] = Copies[t] - 1
    BY <1>3, <1>6, <1>10
  <2>4. ASSUME NEW v \in Words
        PROVE  Count(r, v) = IF v = w THEN Count(t, v) - 1 ELSE Count(t, v)
    <3>1. v \in Nat /\ w \in Nat
      BY <1>1
    <3>2. v <= w => v \notin Items(r)
      BY <1>8, <3>1
    <3>3. v <= w => Count(r, v) = 0
      BY <1>4, <3>2
    <3>4. Count(l, v) = 0
      BY <1>7, <1>10
    <3> QED
      BY <1>3, <3>1, <3>3, <3>4
  <2>5. Delta(r) \in Delta(t) - 1 .. Delta(t)
    <3>1. Delta(l) = -1
      BY <1>6, <1>10
    <3> QED
      BY <1>2, <3>1 DEF Depth
  <2>6. Loses(r, t, w)
    BY <1>7, <2>2, <2>3, <2>4 DEF Loses
  <2> QED
    BY <1>1, <2>1, <2>5, <2>6 DEF OneLess, w
<1> QED
  BY <1>5, <1>9, <1>10

\* Where it has two, the node of the next word goes, and its word and count are moved up:
\* t loses its own word when its right subtree loses its first, all at once.
LEMMA InnerLoses ==
    ASSUME NEW t, Sound(t), t # Nil, t.count = 1, TwoChildren(t), NEW str \in Blocks, NEW u,
           OneLess(u, WithOneCopy[t.right], FindMin[t.right].item)
    PROVE  OneLess(Settled(Moved(t, FindMin[t.right], str, u)), t, t.item)
<1> DEFINE l == t.left
           r == t.right
           w == t.item
           m == FindMin[r]
           one == WithOneCopy[r]
           x == Moved(t, m, str, u)
           y == Settled(x)
<1>1. /\ Sound(l) /\ Sound(r) /\ r # Nil /\ IsNode(t) /\ Payload(t)
      /\ t \in Tree \ {Nil} /\ w \in Words /\ Words \subseteq Nat /\ MaxItems \in Nat
  BY SoundParts, NodesAreNodes, NodeParts, TreeAssumption DEF TwoChildren
<1>2. /\ Parts(t, l, r) /\ Delta(t) = Depth(l, r) /\ Delta(l) - Delta(r) \in -1 .. 1
      /\ Delta(l) \in -1 .. Delta(t) - 1 /\ Delta(r) \in -1 .. Delta(t) - 1
      /\ Delta(t) \in 0 .. MaxItems - 1
  BY JoinedAgain
<1>3. /\ Items(t) = {w} \cup Items(l) \cup Items(r)
      /\ Copies[t] = 1 + Copies[l] + Copies[r] /\ Copies[l] \in Nat /\ Copies[r] \in Nat
      /\ \A v \in Words : Count(t, v) = IF v = w THEN 1
                                        ELSE IF v < w THEN Count(l, v) ELSE Count(r, v)
      /\ Items(l) \subseteq Words /\ Items(r) \subseteq Words
  BY <1>1, ItemsAre, NodeParts, CountIs, NodesTyped DEF Sound
<1>4. \A v \in Words : /\ v \notin Items(l) => Count(l, v) = 0
                       /\ v \notin Items(r) => Count(r, v) = 0
  BY <1>1, FindSound
<1>5. /\ m \in Tree \ {Nil} /\ m.item \in Items(r) /\ m.item \in Words
      /\ \A i \in Items(r) : m.item <= i
      /\ m.count = Count(r, m.item) /\ m.count \in Nat
  BY <1>1, MinIs, NodeParts
<1>6. /\ Delta(one) = Delta(r) /\ Items(one) = Items(r)
      /\ Copies[one] = Copies[r] - m.count + 1
      /\ \A v \in Words : Count(one, v) = IF v = m.item THEN 1 ELSE Count(r, v)
  BY <1>1, OneCopyIs
<1>7. OneLess(u, one, m.item)
  OBVIOUS
<1>8. /\ \A i \in Items(l) : i < w
      /\ \A i \in Items(r) : i > w
  BY <1>2 DEF Parts
<1> DEFINE p == [item |-> m.item, count |-> m.count, at |-> t.at, str |-> str]
<1>9. IsOver(x, p, l, u) /\ Payload(p) /\ p.item = m.item /\ p.count = m.count
  BY <1>1, <1>5, MovedIs
<1> HIDE DEF l, r, w, m, one, x, p
<1>10. /\ Sound(u) /\ Delta(u) \in Delta(r) - 1 .. Delta(r)
       /\ Items(u) = Items(r) \ {m.item}
       /\ Copies[u] = Copies[r] - m.count + 1 - 1
       /\ \A v \in Words : Count(u, v) = IF v = m.item THEN 0 ELSE Count(r, v)
  <2>1. Sound(u) /\ Delta(u) \in Delta(r) - 1 .. Delta(r) /\ Loses(u, one, m.item)
    BY <1>6, <1>7 DEF OneLess
  <2>2. Count(one, m.item) = 1
    BY <1>5, <1>6
  <2>3. Items(u) = Items(r) \ {m.item}
    BY <1>6, <2>1, <2>2 DEF Loses
  <2>4. Copies[u] = Copies[r] - m.count + 1 - 1
    <3>1. Copies[u] = Copies[one] - 1
      BY <2>1 DEF Loses
    <3> QED
      BY <1>3, <1>5, <1>6, <3>1
  <2>5. ASSUME NEW v \in Words PROVE Count(u, v) = IF v = m.item THEN 0 ELSE Count(r, v)
    <3>1. /\ Count(u, v) = IF v = m.item THEN Count(one, v) - 1 ELSE Count(one, v)
          /\ Count(one, v) = IF v = m.item THEN 1 ELSE Count(r, v)
      BY <1>6, <2>1 DEF Loses
    <3> QED
      BY <3>1
  <2> QED
    BY <2>1, <2>3, <2>4, <2>5
<1>11. w < m.item /\ m.item \in Nat /\ w \in Nat
  BY <1>1, <1>5, <1>8
<1>12. Parts(p, l, u)
  <2>1. \A i \in Items(l) : i < m.item
    <3> TAKE i \in Items(l)
    <3>1. i < w /\ i \in Nat
      BY <1>1, <1>3, <1>8
    <3> QED
      BY <1>11, <3>1
  <2>2. \A i \in Items(u) : i > m.item
    <3> TAKE i \in Items(u)
    <3>1. i \in Nat /\ m.item <= i /\ i # m.item
      BY <1>1, <1>3, <1>5, <1>10
    <3> QED
      BY <1>11, <3>1
  <2> QED
    BY <1>9, <2>1, <2>2 DEF Parts
<1>13. /\ Delta(l) - Delta(u) \in -2 .. 2 /\ Delta(l) <= MaxItems - 2 /\ Delta(u) <= MaxItems - 2
       /\ Delta(u) \in Int
  BY <1>1, <1>2, <1>10
<1>14. /\ Sound(y) /\ Holds(y, p, l, u)
       /\ Delta(y) \in Depth(l, u) - 1 .. Depth(l, u)
       /\ Delta(l) - Delta(u) \in -1 .. 1 => Delta(y) = Depth(l, u)
  BY <1>1, <1>9, <1>10, <1>12, <1>13, SettledSound
<1> HIDE DEF y
<1>15. Delta(y) \in Delta(t) - 1 .. Delta(t)
  BY <1>1, <1>2, <1>10, <1>13, <1>14 DEF Depth
<1>16. Items(y) = Items(t) \ {w}
  <2>1. Items(y) = Items(l) \cup {m.item} \cup Items(u)
    BY <1>9, <1>14 DEF Holds
  <2>2. w \notin Items(l) /\ w \notin Items(r)
    BY <1>8, <1>11
  <2> QED
    BY <1>3, <1>5, <1>10, <2>1, <2>2
<1>17. Copies[y] = Copies[t] - 1
  <2>1. Copies[y] = m.count + Copies[l] + Copies[u]
    BY <1>9, <1>14 DEF Holds
  <2> QED
    BY <1>3, <1>5, <1>10, <2>1
<1>18. ASSUME NEW v \in Words
       PROVE  Count(y, v) = IF v = w THEN Count(t, v) - 1 ELSE Count(t, v)
  <2>0. v \in Nat
    BY <1>1
  <2>1. Count(y, v) = IF v = m.item THEN m.count
                      ELSE IF v < m.item THEN Count(l, v) ELSE Count(u, v)
    BY <1>9, <1>14 DEF Holds
  <2>2. /\ v >= w => Count(l, v) = 0
        /\ v < m.item => Count(r, v) = 0
    <3>1. v >= w => v \notin Items(l)
      BY <1>8, <1>11, <2>0
    <3>2. v < m.item => v \notin Items(r)
      BY <1>5, <1>11, <2>0
    <3> QED
      BY <1>4, <3>1, <3>2
  <2>3. /\ Count(t, v) = IF v = w THEN 1 ELSE IF v < w THEN Count(l, v) ELSE Count(r, v)
        /\ Count(u, v) = IF v = m.item THEN 0 ELSE Count(r, v)
    BY <1>3, <1>10
  <2>4. CASE v < w
    <3>1. v # w /\ v # m.item /\ v < m.item
      BY <1>11, <2>0, <2>4
    <3> QED
      BY <2>1, <2>3, <2>4, <3>1
  <2>5. CASE v = w
    <3>1. v # m.item /\ v < m.item /\ Count(l, v) = 0
      BY <1>11, <2>0, <2>2, <2>5
    <3> QED
      BY <2>1, <2>3, <2>5, <3>1
  <2>6. CASE v > w
    <3>1. v # w /\ ~(v < w) /\ Count(l, v) = 0 /\ Count(t, v) = Count(r, v)
      BY <1>11, <2>0, <2>2, <2>3, <2>6
    <3>2. CASE v < m.item
      BY <1>11, <2>0, <2>1, <2>2, <3>1, <3>2
    <3>3. CASE v = m.item
      BY <1>5, <2>1, <3>1, <3>3
    <3>4. CASE v > m.item
      <4>1. v # m.item /\ ~(v < m.item)
        BY <1>11, <2>0, <3>4
      <4> QED
        BY <2>1, <2>3, <3>1, <4>1
    <3> QED
      BY <1>11, <2>0, <3>2, <3>3, <3>4
  <2> QED
    BY <1>11, <2>0, <2>4, <2>5, <2>6
<1>19. Count(t, w) = 1
  BY <1>1, <1>3
<1>20. Loses(y, t, w)
  BY <1>16, <1>17, <1>18, <1>19 DEF Loses
<1> QED
  BY <1>14, <1>15, <1>20 DEF OneLess, y, x, w, m, r

\* remove_node takes one w out of a search tree, or all of them if there is one.
LEMMA RemovedSound ==
    ASSUME NEW t, Sound(t), NEW w \in Items(t), NEW all \in BOOLEAN, all => Count(t, w) = 1,
           NEW str \in Blocks
    PROVE  OneLess(Removed(t, w, all, str), t, w)
<1> DEFINE P(s) == \A x \in Items(s), every \in BOOLEAN :
                     Sound(s) /\ (every => Count(s, x) = 1) => OneLess(Removed(s, x, every, str), s, x)
           S == {n \in Nat : n <= MaxItems => \A s \in Trees[n] : P(s)}
<1>0. MaxItems \in Nat /\ Tree = Trees[MaxItems] /\ MaxItems \in 0 .. MaxItems
  BY TreeAssumption DEF Tree
<1>1. 0 \in S
  <2>1. \A s \in Trees[0] : s = Nil
    BY TreesAre
  <2>2. Items(Nil) = {}
    BY ItemsAre
  <2> QED
    BY <2>1, <2>2
<1>2. \A n \in 0 .. MaxItems - 1 : n \in S => n + 1 \in S
  <2> SUFFICES ASSUME NEW n \in 0 .. MaxItems - 1, \A s \in Trees[n] : P(s),
                      NEW s \in Trees[n + 1], NEW x \in Items(s), NEW every \in BOOLEAN,
                      Sound(s), every => Count(s, x) = 1
               PROVE  OneLess(Removed(s, x, every, str), s, x)
    BY <1>0
  <2> DEFINE l == s.left
             r == s.right
             y == Removed(s, x, every, str)
  <2>1. s # Nil
    BY ItemsAre
  <2>2. n + 1 \in 0 .. MaxItems /\ (n + 1) - 1 = n /\ n \in 0 .. MaxItems
    BY <1>0
  <2>3. /\ l \in Trees[n] /\ r \in Trees[n] /\ s \in Tree \ {Nil}
        /\ Sound(l) /\ Sound(r) /\ IsNode(s) /\ Payload(s)
    BY <2>1, <2>2, TreeParts, TreesInTree, SoundParts, NodesAreNodes
  <2>4. /\ Parts(s, l, r) /\ Delta(s) = Depth(l, r) /\ Delta(l) - Delta(r) \in -1 .. 1
        /\ Delta(l) \in -1 .. Delta(s) - 1 /\ Delta(r) \in -1 .. Delta(s) - 1
        /\ Delta(s) \in 0 .. MaxItems - 1
    BY <2>1, JoinedAgain
  <2>5. Items(s) = {s.item} \cup Items(l) \cup Items(r)
    BY <2>3, ItemsAre
  <2>6. /\ x \in Words /\ s.item \in Words /\ Words \subseteq Nat /\ x \in Nat /\ s.item \in Nat
    BY <2>3, NodesTyped, NodeParts, TreeAssumption
  <2>7. y = RemovedOver(s, x, every, str, Removed(l, x, FALSE, str), Removed(r, x, FALSE, str),
                        Removed(WithOneCopy[r], FindMin[r].item, TRUE, str))
    BY <2>3, <2>6, RemovedIs
  <2> HIDE DEF l, r, y
  <2>8. CASE x < s.item
    <3> DEFINE m == Removed(l, x, FALSE, str)
               o == WithLeft(s, m)
    <3>1. y = Settled(o)
      BY <2>7, <2>8 DEF RemovedOver
    <3>2. x \in Items(l)
      BY <2>4, <2>5, <2>6, <2>8 DEF Parts
    <3>3. P(l)
      BY <2>3
    <3>4. OneLess(m, l, x)
      BY <2>3, <3>2, <3>3
    <3>5. IsOver(o, s, m, r)
      BY <2>3, OverIs DEF r
    <3> HIDE DEF m, o, P
    <3>6. Sound(m) /\ Delta(m) \in Delta(l) - 1 .. Delta(l) /\ Loses(m, l, x)
      BY <3>4 DEF OneLess
    <3>7. Parts(s, m, r)
      BY <2>4, <3>6 DEF Parts, Loses
    <3>8. /\ Delta(m) - Delta(r) \in -2 .. 2 /\ Delta(m) <= MaxItems - 2
          /\ Delta(r) <= MaxItems - 2 /\ Delta(m) \in Int
      BY <1>0, <2>4, <3>6
    <3>9. /\ Sound(y) /\ Holds(y, s, m, r)
          /\ Delta(y) \in Depth(m, r) - 1 .. Depth(m, r)
          /\ Delta(m) - Delta(r) \in -1 .. 1 => Delta(y) = Depth(m, r)
      BY <2>3, <3>1, <3>5, <3>6, <3>7, <3>8, SettledSound
    <3>10. Delta(y) \in Delta(s) - 1 .. Delta(s)
      <4>1. /\ Delta(s) = IF Delta(l) > Delta(r) THEN Delta(l) + 1 ELSE Delta(r) + 1
            /\ Depth(m, r) = IF Delta(m) > Delta(r) THEN Delta(m) + 1 ELSE Delta(r) + 1
        BY <2>4 DEF Depth
      <4>2. Delta(l) \in Int /\ Delta(r) \in Int /\ Delta(s) \in Int /\ Delta(l) - Delta(r) \in -1 .. 1
        BY <2>4
      <4> QED
        BY <3>6, <3>8, <3>9, <4>1, <4>2
    <3>11. Loses(y, s, x)
      BY <2>1, <2>6, <2>8, <3>6, <3>9, LosesAbove DEF l, r
    <3> QED
      BY <3>9, <3>10, <3>11 DEF OneLess, y
  <2>9. CASE x > s.item
    <3> DEFINE m == Removed(r, x, FALSE, str)
               o == WithRight(s, m)
    <3>1. y = Settled(o)
      <4>1. ~(x < s.item)
        BY <2>6, <2>9
      <4> QED
        BY <2>7, <2>9, <4>1 DEF RemovedOver
    <3>2. x \in Items(r)
      BY <2>4, <2>5, <2>6, <2>9 DEF Parts
    <3>3. P(r)
      BY <2>3
    <3>4. OneLess(m, r, x)
      BY <2>3, <3>2, <3>3
    <3>5. IsOver(o, s, l, m)
      BY <2>3, OverIs DEF l
    <3> HIDE DEF m, o, P
    <3>6. Sound(m) /\ Delta(m) \in Delta(r) - 1 .. Delta(r) /\ Loses(m, r, x)
      BY <3>4 DEF OneLess
    <3>7. Parts(s, l, m)
      BY <2>4, <3>6 DEF Parts, Loses
    <3>8. /\ Delta(l) - Delta(m) \in -2 .. 2 /\ Delta(m) <= MaxItems - 2
          /\ Delta(l) <= MaxItems - 2 /\ Delta(m) \in Int
      BY <1>0, <2>4, <3>6
    <3>9. /\ Sound(y) /\ Holds(y, s, l, m)
          /\ Delta(y) \in Depth(l, m) - 1 .. Depth(l, m)
          /\ Delta(l) - Delta(m) \in -1 .. 1 => Delta(y) = Depth(l, m)
      BY <2>3, <3>1, <3>5, <3>6, <3>7, <3>8, SettledSound
    <3>10. Delta(y) \in Delta(s) - 1 .. Delta(s)
      BY <1>0, <2>4, <3>6, <3>8, <3>9 DEF Depth
    <3>11. Loses(y, s, x)
      BY <2>1, <2>6, <2>9, <3>6, <3>9, LosesAbove DEF l, r
    <3> QED
      BY <3>9, <3>10, <3>11 DEF OneLess, y
  <2>10. CASE x = s.item
    <3>0. ~(x < s.item) /\ ~(x > s.item)
      BY <2>6, <2>10
    <3>1. Count(s, x) = s.count /\ s.count \in Nat \ {0}
      BY <2>3, <2>10, CountIs DEF Payload
    <3>2. CASE s.count # 1
      <4>1. ~LastCopy(s) /\ ~every /\ s.count + -1 \in Nat \ {0} /\ s.count - 1 = s.count + -1
        BY <3>1, <3>2 DEF LastCopy
      <4>2. y = Settled(CountedOff(s))
        BY <2>7, <3>0, <4>1 DEF RemovedOver
      <4>3. CountedOff(s) = CountedOn(s, -1)
        BY <4>1 DEF CountedOff, CountedOn
      <4> DEFINE c == CountedOn(s, -1)
                 z == WithDepth(c)
      <4>4. c # Nil /\ c = [item |-> s.item, count |-> s.count + -1, depth |-> s.depth,
                            left |-> l, right |-> r, at |-> s.at, str |-> s.str]
        <5>1. c = [item |-> s.item, count |-> s.count + -1, depth |-> s.depth,
                   left |-> l, right |-> r, at |-> s.at, str |-> s.str]
          BY <2>3 DEF CountedOn, IsNode, l, r
        <5> HIDE DEF c
        <5>2. IsNode(c)
          BY <5>1 DEF IsNode
        <5> QED
          BY <5>1, <5>2, NodeIsNotNil
      <4>5. /\ Sound(z) /\ z # Nil /\ Delta(z) = Delta(s) /\ Items(z) = Items(s)
            /\ Copies[z] = Copies[s] + -1
            /\ \A v \in Words : Count(z, v) = IF v = s.item THEN Count(s, v) + -1 ELSE Count(s, v)
        <5>1. Delta(s) <= MaxItems - 1
          BY <1>0, <2>4
        <5> QED
          BY <2>1, <4>1, <5>1, CountedOnIs
      <4>6. y = z
        <5> HIDE DEF z
        <5>1. Settled(c) = Rebalanced(z)
          BY <4>4 DEF Settled, z
        <5>2. Balance(z) \in -1 .. 1
          BY <4>5, SoundParts DEF Local
        <5>3. Rebalanced(z) = z
          BY <5>2 DEF Rebalanced
        <5> QED
          BY <4>2, <4>3, <5>1, <5>3
      <4> HIDE DEF z, c
      <4>7. \A v \in Words : Count(s, v) \in Int
        BY FindSound
      <4>8. Copies[s] \in Int
        BY <2>3, NodesTyped
      <4>9. Loses(z, s, x)
        <5>1. Count(s, x) # 1
          BY <3>1, <3>2
        <5>2. Copies[z] = Copies[s] - 1
          BY <4>5, <4>8
        <5>3. ASSUME NEW v \in Words
              PROVE  Count(z, v) = IF v = x THEN Count(s, v) - 1 ELSE Count(s, v)
          <6>1. Count(z, v) = IF v = s.item THEN Count(s, v) + -1 ELSE Count(s, v)
            BY <4>5
          <6>2. Count(s, v) + -1 = Count(s, v) - 1
            BY <4>7
          <6> QED
            BY <2>10, <6>1, <6>2
        <5> QED
          BY <4>5, <5>1, <5>2, <5>3 DEF Loses
      <4>10. Delta(z) \in Delta(s) - 1 .. Delta(s)
        BY <2>4, <4>5
      <4> QED
        BY <4>5, <4>6, <4>9, <4>10 DEF OneLess, y
    <3>3. CASE s.count = 1 /\ ~TwoChildren(s)
      <4>1. LastCopy(s)
        BY <3>3 DEF LastCopy
      <4>2. y = Settled(Child(s))
        BY <2>7, <3>0, <3>3, <4>1 DEF RemovedOver
      <4>3. OneLess(Child(s), s, x)
        BY <2>1, <2>10, <3>3, ChildLoses
      <4>4. Settled(Child(s)) = Child(s)
        BY <4>3, SettledIs DEF OneLess
      <4> QED
        BY <4>2, <4>3, <4>4 DEF y
    <3>4. CASE s.count = 1 /\ TwoChildren(s)
      <4> DEFINE m == FindMin[r]
                 one == WithOneCopy[r]
                 u == Removed(one, m.item, TRUE, str)
      <4>1. LastCopy(s)
        BY <3>4 DEF LastCopy
      <4>2. y = Settled(Moved(s, m, str, u))
        BY <2>7, <3>0, <3>4, <4>1 DEF RemovedOver, r
      <4>3. r # Nil
        BY <3>4 DEF TwoChildren, r
      <4>4. one \in Trees[n]
        BY <2>2, <2>3, <4>3, OneCopyTyped
      <4>5. m.item \in Items(r) /\ m.item \in Words
        BY <2>3, <4>3, MinIs
      <4>6. /\ Sound(one) /\ Items(one) = Items(r) /\ Count(one, m.item) = 1
        <5>1. /\ Sound(one) /\ Items(one) = Items(r)
              /\ \A v \in Words : Count(one, v) = IF v = m.item THEN 1 ELSE Count(r, v)
          BY <2>3, <4>3, OneCopyIs
        <5> QED
          BY <4>5, <5>1
      <4>7. P(one)
        BY <4>4
      <4> HIDE DEF one, m
      <4>8. OneLess(u, one, m.item)
        BY <4>5, <4>6, <4>7
      <4> QED
        BY <2>1, <2>10, <3>4, <4>2, <4>8, InnerLoses DEF one, m, r, y
    <3> QED
      BY <3>2, <3>3, <3>4
  <2> QED
    BY <2>6, <2>8, <2>9, <2>10
<1> HIDE DEF S
<1>3. MaxItems \in S
  BY <1>0, <1>1, <1>2, Upwards
<1> QED
  BY <1>0, <1>3 DEF S, Sound

-----------------------------------------------------------------------------
(* Counting.                                                               *)

\* There are as many nodes as words.
LEMMA NodesCounted ==
    ASSUME NEW t, Sound(t)
    PROVE  /\ IsFiniteSet(Items(t))
           /\ Cardinality(Nodes[t]) = Cardinality(Items(t))
<1> DEFINE S == {s \in Tree : Sound(s) => \A x, y \in Nodes[s] : x.item = y.item => x = y}
<1>1. Nil \in S
  BY NilParts
<1>2. ASSUME NEW s \in Tree \ {Nil}, s.left \in S, s.right \in S
      PROVE  s \in S
  <2> SUFFICES ASSUME Sound(s), NEW x \in Nodes[s], NEW y \in Nodes[s], x.item = y.item
               PROVE  x = y
    OBVIOUS
  <2>1. /\ Sound(s.left) /\ Sound(s.right)
        /\ \A i \in Items(s.left) : i < s.item
        /\ \A i \in Items(s.right) : i > s.item
    BY SoundParts DEF Local
  <2>2. /\ Nodes[s] = {s} \cup Nodes[s.left] \cup Nodes[s.right]
        /\ s.item \in Nat /\ Items(s.left) \subseteq Nat /\ Items(s.right) \subseteq Nat
    BY NodeParts, NodesTyped, TreeAssumption
  <2>3. /\ \A u \in Nodes[s.left] : u.item \in Nat /\ u.item < s.item
        /\ \A u \in Nodes[s.right] : u.item \in Nat /\ u.item > s.item
    BY <2>1, <2>2 DEF Items
  <2>4. /\ x \in Nodes[s.left] /\ y \in Nodes[s.left] => x = y
        /\ x \in Nodes[s.right] /\ y \in Nodes[s.right] => x = y
    BY <1>2, <2>1
  <2> QED
    BY <2>2, <2>3, <2>4
<1> HIDE DEF S
<1>3. t \in S
  BY <1>1, <1>2, OverTrees DEF Sound
<1>4. \A x, y \in Nodes[t] : x.item = y.item => x = y
  BY <1>3 DEF S
<1> DEFINE f == [s \in Nodes[t] |-> s.item]
<1>5. f \in Bijection(Nodes[t], Items(t))
  BY <1>4 DEF Bijection, Injection, IsInjective, Surjection, Items
<1>6. IsFiniteSet(Nodes[t])
  BY NodesTyped DEF Sound
<1> HIDE DEF f
<1> QED
  BY <1>5, <1>6, FS_Bijection DEF ExistsBijection

\* A tree has a copy of some word on each of its levels.
LEMMA DepthBound ==
    ASSUME NEW t, Sound(t)
    PROVE  /\ Delta(t) + 1 <= Copies[t]
           /\ t # Nil => Copies[t] > 0
<1> DEFINE S == {s \in Tree : Sound(s) => Delta(s) + 1 <= Copies[s]}
<1>1. Nil \in S
  BY NilParts, NilIsSound
<1>2. ASSUME NEW s \in Tree \ {Nil}, s.left \in S, s.right \in S
      PROVE  s \in S
  <2> SUFFICES ASSUME Sound(s) PROVE Delta(s) + 1 <= Copies[s]
    OBVIOUS
  <2>1. /\ Sound(s.left) /\ Sound(s.right) /\ Delta(s) = Depth(s.left, s.right)
        /\ Delta(s.left) \in -1 .. Delta(s) - 1 /\ Delta(s.right) \in -1 .. Delta(s) - 1
        /\ Delta(s) \in 0 .. MaxItems - 1 /\ MaxItems \in Nat
    BY SoundParts, JoinedAgain, TreeAssumption
  <2>2. /\ Copies[s] = s.count + Copies[s.left] + Copies[s.right] /\ s.count \in Nat \ {0}
        /\ Copies[s.left] \in Nat /\ Copies[s.right] \in Nat
    BY NodeParts, NodesTyped
  <2>3. Delta(s.left) + 1 <= Copies[s.left] /\ Delta(s.right) + 1 <= Copies[s.right]
    BY <1>2, <2>1
  <2> QED
    BY <2>1, <2>2, <2>3 DEF Depth
<1> HIDE DEF S
<1>3. t \in S
  BY <1>1, <1>2, OverTrees DEF Sound
<1>4. Delta(t) + 1 <= Copies[t]
  BY <1>3 DEF S
<1>5. ASSUME t # Nil PROVE Copies[t] > 0
  <2>1. Delta(t) \in 0 .. MaxItems - 1 /\ MaxItems \in Nat /\ Copies[t] \in Nat
    BY <1>5, JoinedAgain, NodesTyped, TreeAssumption DEF Sound
  <2> QED
    BY <1>4, <2>1
<1> QED
  BY <1>4, <1>5

-----------------------------------------------------------------------------
(* The invariant.                                                          *)

\* What the file holds as long as no call was cut short.
InOrder == Sound(root) /\ CountersAgree

WordInv == TypeOK /\ (handle # "died" => InOrder)

\* There is room for one more below a bound that a tree has not reached.
LEMMA Room ==
    ASSUME WordInv, handle # "died"
    PROVE  /\ Sound(root) /\ items = Copies[root] /\ unique = Cardinality(Items(root))
           /\ IsFiniteSet(Items(root)) /\ Items(root) \subseteq Words
           /\ items < MaxItems => Delta(root) <= MaxItems - 2
<1>1. Sound(root) /\ items = Copies[root] /\ unique = Cardinality(Nodes[root]) /\ items \in Nat
  BY DEF WordInv, InOrder, CountersAgree, TypeOK
<1>2. /\ Cardinality(Nodes[root]) = Cardinality(Items(root)) /\ IsFiniteSet(Items(root))
      /\ Items(root) \subseteq Words
  BY <1>1, NodesCounted, NodesTyped DEF Sound
<1>3. Delta(root) + 1 <= Copies[root] /\ Delta(root) \in Int /\ MaxItems \in Nat
  BY <1>1, DepthBound, SoundDelta, TreeAssumption
<1> QED
  BY <1>1, <1>2, <1>3

\* A block that is in the file, or the state, is one that a node may have.
LEMMA BlockIsOne ==
    ASSUME NEW n \in Int, NEW s \in Nat \ {0}
    PROVE  /\ ~Misplaced(Block(n, s)) => Block(n, s) \in Blocks
           /\ n = 0 => Block(n, s) \in Blocks
BY SCMAssumption DEF Block, Blocks, Misplaced, InFile

\* Nil is what a file without the words holds.
LEMMA NothingIsInOrder ==
    ASSUME root' = Nil, items' = 0, unique' = 0
    PROVE  root' \in Tree /\ InOrder'
<1>1. Sound(Nil) /\ Nodes[Nil] = {} /\ Copies[Nil] = 0 /\ Nil \in Tree
  BY NilIsSound, NilParts
<1>2. Cardinality({}) = 0
  BY FS_EmptySet
<1> QED
  BY <1>1, <1>2 DEF InOrder, CountersAgree, Sound, Local

\* The state that a call leaves, if its root and its counters are right.
LEMMA CountedIsInOrder ==
    ASSUME Sound(root'), items' = Copies[root'], unique' = Cardinality(Items(root'))
    PROVE  root' \in Tree /\ InOrder' /\ unique' \in Nat
<1>1. Cardinality(Nodes[root']) = Cardinality(Items(root')) /\ IsFiniteSet(Items(root'))
  BY NodesCounted
<1>2. Cardinality(Items(root')) \in Nat
  BY <1>1, FS_CardinalityType
<1> QED
  BY <1>1, <1>2 DEF InOrder, CountersAgree, Sound, Local

\* An insertion that is not cut short.
LEMMA InsertKeeps ==
    ASSUME WordInv, handle = "open", NEW w \in Words, items < MaxItems, NEW new,
           Find(root, w) = Nil => Fresh(new, w),
           root' = Updated(root, w, new), items' = items + 1,
           unique' = IF Find(root, w) = Nil THEN unique + 1 ELSE unique
    PROVE  /\ root' \in Tree /\ InOrder' /\ items' \in 0 .. MaxItems /\ unique' \in Nat
           /\ \A v \in Words : Count(root', v) = IF v = w THEN Count(root, v) + 1 ELSE Count(root, v)
<1>1. /\ Sound(root) /\ items = Copies[root] /\ unique = Cardinality(Items(root))
      /\ IsFiniteSet(Items(root)) /\ Delta(root) <= MaxItems - 2
      /\ items \in 0 .. MaxItems /\ MaxItems \in Nat
  BY Room, TreeAssumption DEF WordInv, TypeOK
<1>2. Find(root, w) = Nil <=> w \notin Items(root)
  BY <1>1, FindSound
<1>3. OneMore(root', root, w)
  BY <1>1, <1>2, UpdatedSound
<1>4. /\ Sound(root') /\ Items(root') = Items(root) \cup {w} /\ Copies[root'] = Copies[root] + 1
      /\ \A v \in Words : Count(root', v) = IF v = w THEN Count(root, v) + 1 ELSE Count(root, v)
  BY <1>3 DEF OneMore, Gains
<1>5. Cardinality(Items(root')) = IF w \in Items(root) THEN Cardinality(Items(root))
                                  ELSE Cardinality(Items(root)) + 1
  BY <1>1, <1>4, FS_AddElement
<1>6. items' = Copies[root'] /\ unique' = Cardinality(Items(root'))
  BY <1>1, <1>2, <1>4, <1>5
<1> QED
  BY <1>1, <1>4, <1>6, CountedIsInOrder

\* A removal that is not cut short.
LEMMA RemoveKeeps ==
    ASSUME WordInv, handle = "open", NEW w \in Words, Find(root, w) # Nil, NEW str \in Blocks,
           Forget(w, Removed(root, w, FALSE, str))
    PROVE  /\ root' \in Tree /\ InOrder' /\ items' \in 0 .. MaxItems /\ unique' \in Nat
           /\ \A v \in Words : Count(root', v) = IF v = w THEN Count(root, v) - 1 ELSE Count(root, v)
           /\ Count(root, w) > 0
<1> DEFINE u == Removed(root, w, FALSE, str)
<1>1. /\ Sound(root) /\ items = Copies[root] /\ unique = Cardinality(Items(root))
      /\ IsFiniteSet(Items(root)) /\ items \in 0 .. MaxItems /\ MaxItems \in Nat
  BY Room, TreeAssumption DEF WordInv, TypeOK
<1>2. w \in Items(root) /\ Count(root, w) \in Nat \ {0}
  BY <1>1, FindSound
<1>3. OneLess(u, root, w)
  BY <1>1, <1>2, RemovedSound
<1>4. root' = u /\ items' = items - 1 /\ unique' = UniqueAfter(w, u)
  BY DEF Forget
<1> HIDE DEF u
<1>5. /\ Sound(u) /\ Copies[u] = Copies[root] - 1
      /\ Items(u) = IF Count(root, w) = 1 THEN Items(root) \ {w} ELSE Items(root)
      /\ \A v \in Words : Count(u, v) = IF v = w THEN Count(root, v) - 1 ELSE Count(root, v)
  BY <1>3 DEF OneLess, Loses
<1>6. Find(u, w) = Nil <=> Count(root, w) = 1
  BY <1>2, <1>5, FindSound
<1>7. unique' = Cardinality(Items(root'))
  <2>1. Cardinality(Items(root) \ {w}) = Cardinality(Items(root)) - 1
    BY <1>1, <1>2, FS_RemoveElement
  <2> QED
    BY <1>1, <1>4, <1>5, <1>6, <2>1 DEF UniqueAfter
<1>8. items' = Copies[root'] /\ items' \in 0 .. MaxItems
  <2>1. Copies[root] > 0 /\ Copies[root] \in Nat
    <3>1. root # Nil
      BY <1>2, ItemsAre
    <3> QED
      BY <1>1, <3>1, DepthBound
  <2> QED
    BY <1>1, <1>4, <1>5, <2>1
<1> QED
  BY <1>2, <1>4, <1>5, <1>7, <1>8, CountedIsInOrder

-----------------------------------------------------------------------------
(* The trees on the way: what the definitions say.                         *)

UpdateStepsOver(t, w, new, l, r) ==
  IF w = t.item THEN {t, CountedOn(t, 1)}
  ELSE IF w < t.item
    THEN LET s == WithLeft(t, Updated(t.left, w, new))
         IN {WithLeft(t, u) : u \in l} \cup
            (IF Balance(s) \in -1 .. 1 THEN {s, WithDepth(s)}
             ELSE IF w < s.left.item THEN RotateRightSteps(s) ELSE RotateLeftRightSteps(s))
    ELSE LET s == WithRight(t, Updated(t.right, w, new))
         IN {WithRight(t, u) : u \in r} \cup
            (IF Balance(s) \in -1 .. 1 THEN {s, WithDepth(s)}
             ELSE IF w > s.right.item THEN RotateLeftSteps(s) ELSE RotateRightLeftSteps(s))

\* What update shows.
LEMMA UpdateStepsAre ==
    ASSUME NEW w, NEW new
    PROVE  /\ UpdateSteps(Nil, w, new) = {Nil}
           /\ \A t \in Tree \ {Nil} :
                UpdateSteps(t, w, new) =
                  UpdateStepsOver(t, w, new, UpdateSteps(t.left, w, new), UpdateSteps(t.right, w, new))
<1> DEFINE Step(g, t) ==
             IF t = Nil THEN {Nil}
             ELSE UpdateStepsOver(t, w, new, g[t.left], g[t.right])
           S == {n \in Nat : \E g : g = [t \in Trees[n] |-> Step(g, t)]}
<1>0. MaxItems \in Nat /\ Tree = Trees[MaxItems]
  BY TreeAssumption DEF Tree
<1>1. 0 \in S
  <2> DEFINE g == [t \in Trees[0] |-> Step([s \in {} |-> s], Nil)]
  <2>1. \A t \in Trees[0] : t = Nil
    BY TreesAre
  <2>2. \A t \in Trees[0] : Step([s \in {} |-> s], Nil) = Step(g, t)
    BY <2>1
  <2>3. g = [t \in Trees[0] |-> Step(g, t)]
    BY <2>2
  <2> HIDE DEF g
  <2> QED
    BY <2>3
<1>2. \A n \in 0 .. MaxItems - 1 : n \in S => n + 1 \in S
  <2> SUFFICES ASSUME NEW n \in 0 .. MaxItems - 1, n \in S PROVE n + 1 \in S
    OBVIOUS
  <2>1. PICK g : g = [t \in Trees[n] |-> Step(g, t)]
    OBVIOUS
  <2> DEFINE h == [t \in Trees[n + 1] |-> Step(g, t)]
  <2>2. \A t \in Trees[n] : h[t] = g[t]
    <3> TAKE t \in Trees[n]
    <3>1. t \in Trees[n + 1]
      BY TreesGrow
    <3> HIDE DEF Step
    <3>2. g[t] = Step(g, t)
      BY <2>1
    <3>3. h[t] = Step(g, t)
      BY <3>1
    <3> QED
      BY <3>2, <3>3
  <2>3. \A t \in Trees[n + 1] : Step(g, t) = Step(h, t)
    <3> TAKE t \in Trees[n + 1]
    <3>1. CASE t = Nil
      BY <3>1
    <3>2. CASE t # Nil
      <4>1. n + 1 \in 0 .. MaxItems /\ (n + 1) - 1 = n
        BY <1>0
      <4>2. t.left \in Trees[n] /\ t.right \in Trees[n]
        BY <3>2, <4>1, TreeParts
      <4>3. h[t.left] = g[t.left] /\ h[t.right] = g[t.right]
        BY <2>2, <4>2
      <4> HIDE DEF h
      <4> QED
        BY <3>2, <4>3
    <3> QED
      BY <3>1, <3>2
  <2> HIDE DEF Step
  <2>4. h = [t \in Trees[n + 1] |-> Step(h, t)]
    BY <2>3
  <2> HIDE DEF h
  <2> QED
    BY <1>0, <2>4
<1>3. MaxItems \in S
  <2> HIDE DEF S
  <2>1. 0 .. MaxItems \subseteq S
    BY <1>0, <1>1, <1>2, Upwards
  <2> QED
    BY <1>0, <2>1
<1>4. \E g : g = [t \in Tree |-> Step(g, t)]
  BY <1>0, <1>3
<1> DEFINE F == CHOOSE g : g = [t \in Tree |-> Step(g, t)]
<1>5. \A t : UpdateSteps(t, w, new) = F[t]
  BY DEF UpdateSteps, UpdateStepsOver, WithLeft, WithRight, CountedOn
<1> HIDE DEF Step
<1>6. F = [t \in Tree |-> Step(F, t)]
  BY <1>4
<1> HIDE DEF F
<1>7. \A t \in Tree : F[t] = Step(F, t)
  BY <1>6
<1>8. Nil \in Tree
  BY NilIsTree, TreeTop
<1> QED
  BY <1>5, <1>7, <1>8 DEF Step

Settling(s) == {s} \cup RebalanceSteps(WithDepth(s))

\* t with the word min, in another block.
Copied(t, min, str) == [t EXCEPT !.item = min.item, !.str = str]

\* And with its count.
Counted(t, min, str) == [Copied(t, min, str) EXCEPT !.count = CountMoved(t, min)]

RemoveStepsOver(t, w, all, str, l, r, u) ==
  IF w < t.item
    THEN {WithLeft(t, x) : x \in l} \cup Settling(WithLeft(t, Removed(t.left, w, FALSE, str)))
  ELSE IF w > t.item
    THEN {WithRight(t, x) : x \in r} \cup Settling(WithRight(t, Removed(t.right, w, FALSE, str)))
  ELSE IF ~LastCopy(t) /\ ~all THEN {t} \cup Settling(CountedOff(t))
  ELSE IF ~TwoChildren(t) THEN {t}
  ELSE LET min  == FindMin[t.right]
           same == Counted(t, min, str)
       IN {t, Copied(t, min, str), same} \cup
          ({WithRight(same, x) : x \in u} \cup
           Settling(WithRight(same, Removed(WithOneCopy[t.right], min.item, TRUE, str))))

\* What remove_node shows.
LEMMA RemoveStepsAre ==
    ASSUME NEW str
    PROVE  /\ \A w \in Words, all \in BOOLEAN : RemoveSteps(Nil, w, all, str) = {Nil}
           /\ \A t \in Tree \ {Nil} : \A w \in Words, all \in BOOLEAN :
                RemoveSteps(t, w, all, str) =
                  RemoveStepsOver(t, w, all, str, RemoveSteps(t.left, w, FALSE, str),
                              RemoveSteps(t.right, w, FALSE, str),
                              RemoveSteps(WithOneCopy[t.right], FindMin[t.right].item, TRUE, str))
<1> DEFINE Step(g, t) ==
             [w \in Words |-> [all \in BOOLEAN |->
               IF t = Nil THEN {Nil}
               ELSE RemoveStepsOver(t, w, all, str, g[t.left][w][FALSE], g[t.right][w][FALSE],
                                g[WithOneCopy[t.right]][FindMin[t.right].item][TRUE])]]
           S == {n \in Nat : \E g : g = [t \in Trees[n] |-> Step(g, t)]}
<1>0. MaxItems \in Nat /\ Tree = Trees[MaxItems]
  BY TreeAssumption DEF Tree
<1>1. 0 \in S
  <2> DEFINE g == [t \in Trees[0] |-> Step([s \in {} |-> s], Nil)]
  <2>1. \A t \in Trees[0] : t = Nil
    BY TreesAre
  <2>2. \A t \in Trees[0] : Step([s \in {} |-> s], Nil) = Step(g, t)
    BY <2>1
  <2>3. g = [t \in Trees[0] |-> Step(g, t)]
    BY <2>2
  <2> HIDE DEF g
  <2> QED
    BY <2>3
<1>2. \A n \in 0 .. MaxItems - 1 : n \in S => n + 1 \in S
  <2> SUFFICES ASSUME NEW n \in 0 .. MaxItems - 1, n \in S PROVE n + 1 \in S
    OBVIOUS
  <2>1. PICK g : g = [t \in Trees[n] |-> Step(g, t)]
    OBVIOUS
  <2> DEFINE h == [t \in Trees[n + 1] |-> Step(g, t)]
  <2>2. \A t \in Trees[n] : h[t] = g[t]
    <3> TAKE t \in Trees[n]
    <3>1. t \in Trees[n + 1]
      BY TreesGrow
    <3> HIDE DEF Step
    <3>2. g[t] = Step(g, t)
      BY <2>1
    <3>3. h[t] = Step(g, t)
      BY <3>1
    <3> QED
      BY <3>2, <3>3
  <2>3. \A t \in Trees[n + 1] : Step(g, t) = Step(h, t)
    <3> TAKE t \in Trees[n + 1]
    <3>1. CASE t = Nil
      BY <3>1
    <3>2. CASE t # Nil
      <4>1. n + 1 \in 0 .. MaxItems /\ (n + 1) - 1 = n /\ n \in 0 .. MaxItems
        BY <1>0
      <4>2. t.left \in Trees[n] /\ t.right \in Trees[n]
        BY <3>2, <4>1, TreeParts
      <4>3. h[t.left] = g[t.left] /\ h[t.right] = g[t.right]
        BY <2>2, <4>2
      <4>4. t.right # Nil => h[WithOneCopy[t.right]] = g[WithOneCopy[t.right]]
        BY <2>2, <4>1, <4>2, OneCopyTyped
      <4> HIDE DEF h
      <4>5. t.right = Nil => \A w, all, l, r, u, v :
                    RemoveStepsOver(t, w, all, str, l, r, u) = RemoveStepsOver(t, w, all, str, l, r, v)
        BY DEF RemoveStepsOver, TwoChildren
      <4>6. \A w \in Words, all \in BOOLEAN :
               RemoveStepsOver(t, w, all, str, g[t.left][w][FALSE], g[t.right][w][FALSE],
                           g[WithOneCopy[t.right]][FindMin[t.right].item][TRUE])
               = RemoveStepsOver(t, w, all, str, h[t.left][w][FALSE], h[t.right][w][FALSE],
                             h[WithOneCopy[t.right]][FindMin[t.right].item][TRUE])
        <5>1. CASE t.right = Nil
          <6> TAKE w \in Words, all \in BOOLEAN
          <6> DEFINE u == g[WithOneCopy[t.right]][FindMin[t.right].item][TRUE]
                     v == h[WithOneCopy[t.right]][FindMin[t.right].item][TRUE]
          <6> HIDE DEF u, v
          <6>1. RemoveStepsOver(t, w, all, str, g[t.left][w][FALSE], g[t.right][w][FALSE], u)
                = RemoveStepsOver(t, w, all, str, g[t.left][w][FALSE], g[t.right][w][FALSE], v)
            BY <5>1 DEF RemoveStepsOver, TwoChildren
          <6> QED
            BY <4>3, <6>1 DEF u, v
        <5>2. CASE t.right # Nil
          BY <4>3, <4>4, <5>2
        <5> QED
          BY <5>1, <5>2
      <4> QED
        BY <3>2, <4>6
    <3> QED
      BY <3>1, <3>2
  <2> HIDE DEF Step
  <2>4. h = [t \in Trees[n + 1] |-> Step(h, t)]
    BY <2>3
  <2> HIDE DEF h
  <2> QED
    BY <1>0, <2>4
<1>3. MaxItems \in S
  <2> HIDE DEF S
  <2>1. 0 .. MaxItems \subseteq S
    BY <1>0, <1>1, <1>2, Upwards
  <2> QED
    BY <1>0, <2>1
<1>4. \E g : g = [t \in Tree |-> Step(g, t)]
  BY <1>0, <1>3
<1> DEFINE F == CHOOSE g : g = [t \in Tree |-> Step(g, t)]
<1>5. \A t, w : /\ \A all : RemoveSteps(t, w, all, str) = F[t][w][all]
                /\ RemoveSteps(t, w, FALSE, str) = F[t][w][FALSE]
                /\ RemoveSteps(t, w, TRUE, str) = F[t][w][TRUE]
  BY DEF RemoveSteps, RemoveStepsOver, Settling, Copied, Counted, CountedOff, WithLeft, WithRight
<1> HIDE DEF Step
<1>6. F = [t \in Tree |-> Step(F, t)]
  BY <1>4
<1> HIDE DEF F
<1>7. \A t \in Tree : F[t] = Step(F, t)
  BY <1>6
<1>8. Nil \in Tree
  BY NilIsTree, TreeTop
<1>9. ASSUME NEW t \in Tree, NEW w \in Words, NEW all \in BOOLEAN
      PROVE  F[t][w][all] = IF t = Nil THEN {Nil}
               ELSE RemoveStepsOver(t, w, all, str, F[t.left][w][FALSE], F[t.right][w][FALSE],
                                F[WithOneCopy[t.right]][FindMin[t.right].item][TRUE])
  <2> DEFINE G(x, y) == IF t = Nil THEN {Nil}
               ELSE RemoveStepsOver(t, x, y, str, F[t.left][x][FALSE], F[t.right][x][FALSE],
                                F[WithOneCopy[t.right]][FindMin[t.right].item][TRUE])
  <2>1. F[t] = [x \in Words |-> [y \in BOOLEAN |-> G(x, y)]]
    BY <1>7 DEF Step
  <2> HIDE DEF G
  <2>2. F[t][w] = [y \in BOOLEAN |-> G(w, y)]
    BY <2>1
  <2>3. F[t][w][all] = G(w, all)
    BY <2>2
  <2> QED
    BY <2>3 DEF G
<1>10. \A w \in Words, all \in BOOLEAN : RemoveSteps(Nil, w, all, str) = {Nil}
  <2> TAKE w \in Words, all \in BOOLEAN
  <2>1. F[Nil][w][all] = {Nil}
    BY <1>8, <1>9
  <2>2. RemoveSteps(Nil, w, all, str) = F[Nil][w][all]
    BY <1>5
  <2> QED
    BY <2>1, <2>2
<1>11. ASSUME NEW t \in Tree \ {Nil}, NEW w \in Words, NEW all \in BOOLEAN
       PROVE  RemoveSteps(t, w, all, str) =
                  RemoveStepsOver(t, w, all, str, RemoveSteps(t.left, w, FALSE, str),
                              RemoveSteps(t.right, w, FALSE, str),
                              RemoveSteps(WithOneCopy[t.right], FindMin[t.right].item, TRUE, str))
  <2>1. F[t][w][all] = RemoveStepsOver(t, w, all, str, F[t.left][w][FALSE], F[t.right][w][FALSE],
                                   F[WithOneCopy[t.right]][FindMin[t.right].item][TRUE])
    BY <1>9
  <2>2. RemoveSteps(t, w, all, str) = F[t][w][all]
    BY <1>5
  <2>3. /\ RemoveSteps(t.left, w, FALSE, str) = F[t.left][w][FALSE]
        /\ RemoveSteps(t.right, w, FALSE, str) = F[t.right][w][FALSE]
        /\ RemoveSteps(WithOneCopy[t.right], FindMin[t.right].item, TRUE, str)
           = F[WithOneCopy[t.right]][FindMin[t.right].item][TRUE]
    <3>1. RemoveSteps(t.left, w, FALSE, str) = F[t.left][w][FALSE]
      BY <1>5
    <3>2. RemoveSteps(t.right, w, FALSE, str) = F[t.right][w][FALSE]
      BY <1>5
    <3>3. \A x, y : RemoveSteps(x, y, TRUE, str) = F[x][y][TRUE]
      BY <1>5
    <3>4. RemoveSteps(WithOneCopy[t.right], FindMin[t.right].item, TRUE, str)
           = F[WithOneCopy[t.right]][FindMin[t.right].item][TRUE]
      BY <3>3
    <3> QED
      BY <3>1, <3>2, <3>4
  <2> QED
    BY <2>1, <2>2, <2>3
<1> QED
  BY <1>10, <1>11

-----------------------------------------------------------------------------
(* The trees on the way: the order that they keep.                         *)

\* In order, but a word may be there twice, further down on the right.
Weak(u) == /\ u \in Tree
           /\ \A s \in Nodes[u] : /\ \A i \in Items(s.left)  : i < s.item
                                  /\ \A i \in Items(s.right) : i >= s.item

\* A search finds no word more often in u than in t, but those of W, once more.
AtMost(u, t, W) ==
  /\ Items(u) \subseteq Items(t) \cup W
  /\ \A v \in Words : Count(u, v) <= IF v \in W THEN Count(t, v) + 1 ELSE Count(t, v)

\* u may be seen in the place of t, and has d levels at most.
Under(u, t, W, d) == Weak(u) /\ AtMost(u, t, W) /\ u \in Trees[d]

\* The node p over l and r with whatever depth.
Built(p, k, l, r) ==
  [item |-> p.item, count |-> p.count, depth |-> k, left |-> l, right |-> r,
   at |-> p.at, str |-> p.str]

\* A search finds a number of copies in any tree, and none of a word that is not there.
LEMMA CountAny ==
    ASSUME NEW t \in Tree, NEW v \in Words
    PROVE  Count(t, v) \in Nat /\ (v \notin Items(t) => Count(t, v) = 0)
<1> DEFINE S == {s \in Tree : Count(s, v) \in Nat /\ (v \notin Items(s) => Count(s, v) = 0)}
<1>1. Nil \in S
  BY NilParts, CountIs
<1>2. ASSUME NEW s \in Tree \ {Nil}, s.left \in S, s.right \in S
      PROVE  s \in S
  <2>1. /\ Count(s, v) = IF v = s.item THEN s.count
                         ELSE Count(IF v < s.item THEN s.left ELSE s.right, v)
        /\ Items(s) = {s.item} \cup Items(s.left) \cup Items(s.right) /\ s.count \in Nat
    BY CountIs, ItemsAre, NodeParts
  <2> QED
    BY <1>2, <2>1
<1> HIDE DEF S
<1>3. t \in S
  BY <1>1, <1>2, OverTrees
<1> QED
  BY <1>3 DEF S

\* A search tree may be seen in its own place.
LEMMA SoundIsWeak ==
    ASSUME NEW t, Sound(t)
    PROVE  /\ Weak(t) /\ AtMost(t, t, {})
           /\ Delta(t) + 1 \in 0 .. MaxItems /\ Under(t, t, {}, Delta(t) + 1)
<1>1. t \in Tree /\ Nodes[t] \subseteq Tree \ {Nil} /\ Words \subseteq Nat
  BY NodesTyped, TreeAssumption DEF Sound
<1>2. ASSUME NEW s \in Nodes[t]
      PROVE  /\ \A i \in Items(s.left)  : i < s.item
             /\ \A i \in Items(s.right) : i >= s.item
  <2>1. Local(s)
    BY DEF Sound
  <2>2. Items(s.right) \subseteq Nat /\ s.item \in Nat
    BY <1>1, NodeParts, NodesTyped
  <2> QED
    BY <2>1, <2>2 DEF Local
<1>3. Weak(t)
  BY <1>1, <1>2 DEF Weak
<1>4. \A v \in Words : Count(t, v) \in Nat
  BY <1>1, CountAny
<1>5. AtMost(t, t, {})
  BY <1>4 DEF AtMost
<1>6. Delta(t) \in -1 .. MaxItems - 1 /\ t \in Trees[Delta(t) + 1] /\ MaxItems \in Nat
  BY SoundDelta, TreeAssumption
<1> QED
  BY <1>3, <1>5, <1>6 DEF Under

\* What a node over two of them is.
LEMMA BuiltWeak ==
    ASSUME NEW p, Payload(p), NEW k \in Nat, NEW d \in 0 .. MaxItems - 1, NEW e \in 0 .. MaxItems,
           d + 1 <= e, NEW a \in Trees[d], Weak(a), NEW b \in Trees[d], Weak(b),
           \A i \in Items(a) : i < p.item, \A i \in Items(b) : i >= p.item
    PROVE  /\ Weak(Built(p, k, a, b)) /\ Built(p, k, a, b) \in Trees[e]
           /\ Items(Built(p, k, a, b)) = {p.item} \cup Items(a) \cup Items(b)
           /\ \A v \in Words : Count(Built(p, k, a, b), v) =
                IF v = p.item THEN p.count
                ELSE IF v < p.item THEN Count(a, v) ELSE Count(b, v)
<1> DEFINE y == Built(p, k, a, b)
<1>1. y \in Over(Trees[d])
  BY DEF Built, Over, Payload
<1>2. d + 1 \in 0 .. MaxItems /\ Trees[d + 1] = {Nil} \cup Over(Trees[d])
  BY TreesAre, TreeAssumption
<1>3. y \in Trees[e] /\ y \in Tree /\ y # Nil
  BY <1>1, <1>2, TreesNest, TreesInTree, NilIsNoNode
<1>4. y.item = p.item /\ y.count = p.count /\ y.left = a /\ y.right = b
  BY DEF Built
<1> HIDE DEF y
<1>5. /\ Nodes[y] = {y} \cup Nodes[a] \cup Nodes[b]
      /\ Items(y) = {p.item} \cup Items(a) \cup Items(b)
  BY <1>3, <1>4, NodeParts, ItemsAre
<1>6. Weak(y)
  BY <1>3, <1>4, <1>5 DEF Weak
<1>7. ASSUME NEW v \in Words
      PROVE  Count(y, v) = IF v = p.item THEN p.count
                           ELSE IF v < p.item THEN Count(a, v) ELSE Count(b, v)
  BY <1>3, <1>4, CountIs
<1> QED
  BY <1>3, <1>5, <1>6, <1>7 DEF y

\* A node with another subtree, or another depth, is built again.
LEMMA BuiltIs ==
    /\ \A p, l, r : Join(p, l, r) = Built(p, Depth(l, r), l, r)
    /\ \A p, k, l, r : /\ IsNode(Built(p, k, l, r))
                       /\ Built(p, k, l, r).left = l /\ Built(p, k, l, r).right = r
                       /\ Built(p, k, l, r).item = p.item
                       /\ WithDepth(Built(p, k, l, r)) = Join(p, l, r)
                       /\ \A u : /\ WithLeft(Built(p, k, l, r), u) = Built(p, k, u, r)
                                 /\ WithRight(Built(p, k, l, r), u) = Built(p, k, l, u)
    /\ \A t : IsNode(t) => /\ t = Built(t, t.depth, t.left, t.right)
                           /\ \A u : /\ WithLeft(t, u) = Built(t, t.depth, u, t.right)
                                     /\ WithRight(t, u) = Built(t, t.depth, t.left, u)
<1>1. \A p, l, r : Join(p, l, r) = Built(p, Depth(l, r), l, r)
  BY DEF Join, Built
<1>2. ASSUME NEW p, NEW k, NEW l, NEW r
      PROVE  /\ IsNode(Built(p, k, l, r))
             /\ Built(p, k, l, r).left = l /\ Built(p, k, l, r).right = r
             /\ Built(p, k, l, r).item = p.item
             /\ WithDepth(Built(p, k, l, r)) = Join(p, l, r)
             /\ \A u : /\ WithLeft(Built(p, k, l, r), u) = Built(p, k, u, r)
                       /\ WithRight(Built(p, k, l, r), u) = Built(p, k, l, u)
  <2> DEFINE y == Built(p, k, l, r)
  <2>1. y = [item |-> p.item, count |-> p.count, depth |-> k, left |-> l, right |-> r,
             at |-> p.at, str |-> p.str]
    BY DEF Built
  <2>2. y.item = p.item /\ y.left = l /\ y.right = r
    BY <2>1
  <2>3. IsNode(y)
    BY <2>1 DEF IsNode
  <2> HIDE DEF y
  <2>4. WithDepth(y) = Join(p, l, r)
    BY <2>1 DEF WithDepth, Join
  <2>5. ASSUME NEW u PROVE WithLeft(y, u) = Built(p, k, u, r) /\ WithRight(y, u) = Built(p, k, l, u)
    BY <2>1 DEF WithLeft, WithRight, Built
  <2> QED
    BY <2>2, <2>3, <2>4, <2>5 DEF y
<1>3. ASSUME NEW t, IsNode(t)
      PROVE  /\ t = Built(t, t.depth, t.left, t.right)
             /\ \A u : /\ WithLeft(t, u) = Built(t, t.depth, u, t.right)
                       /\ WithRight(t, u) = Built(t, t.depth, t.left, u)
  <2>1. t = Built(t, t.depth, t.left, t.right)
    BY <1>3 DEF IsNode, Built
  <2>2. ASSUME NEW u
        PROVE  /\ WithLeft(t, u) = Built(t, t.depth, u, t.right)
               /\ WithRight(t, u) = Built(t, t.depth, t.left, u)
    BY <1>3 DEF IsNode, Built, WithLeft, WithRight
  <2> QED
    BY <2>1, <2>2
<1> QED
  BY <1>1, <1>2, <1>3

\* The node of a word over what may be seen in the place of its subtrees.
LEMMA Around ==
    ASSUME NEW t, Sound(t), t # Nil, NEW W \in SUBSET Words,
           NEW p, Payload(p), p.item = t.item,
           p.count <= IF t.item \in W THEN t.count + 1 ELSE t.count,
           NEW k \in Nat, NEW d \in 0 .. MaxItems - 1, NEW e \in 0 .. MaxItems, d + 1 <= e,
           NEW a, Under(a, t.left, {w \in W : w < t.item}, d),
           NEW b, Under(b, t.right, {w \in W : w > t.item}, d)
    PROVE  Under(Built(p, k, a, b), t, W, e)
<1> DEFINE y == Built(p, k, a, b)
           V1 == {w \in W : w < t.item}
           V2 == {w \in W : w > t.item}
<1>1. /\ t \in Tree \ {Nil} /\ t.item \in Nat /\ Words \subseteq Nat
      /\ \A i \in Items(t.left) : i < t.item
      /\ \A i \in Items(t.right) : i > t.item
      /\ Items(t) = {t.item} \cup Items(t.left) \cup Items(t.right)
      /\ Items(t.left) \subseteq Nat /\ Items(t.right) \subseteq Nat
  BY SoundParts, ItemsAre, NodeParts, NodesTyped, TreeAssumption DEF Local
<1>2. /\ Items(a) \subseteq Items(t.left) \cup V1 /\ Items(b) \subseteq Items(t.right) \cup V2
      /\ Weak(a) /\ Weak(b) /\ a \in Trees[d] /\ b \in Trees[d]
      /\ \A v \in Words : Count(a, v) <= IF v \in V1 THEN Count(t.left, v) + 1 ELSE Count(t.left, v)
      /\ \A v \in Words : Count(b, v) <= IF v \in V2 THEN Count(t.right, v) + 1 ELSE Count(t.right, v)
  BY DEF Under, AtMost
<1>3. \A i \in Items(a) : i < p.item
  BY <1>1, <1>2
<1>4. \A i \in Items(b) : i >= p.item
  BY <1>1, <1>2
<1>5. /\ Weak(y) /\ y \in Trees[e]
      /\ Items(y) = {t.item} \cup Items(a) \cup Items(b)
      /\ \A v \in Words : Count(y, v) = IF v = t.item THEN p.count
                                        ELSE IF v < t.item THEN Count(a, v) ELSE Count(b, v)
  BY <1>2, <1>3, <1>4, BuiltWeak
<1>6. \A v \in Words : Count(t, v) = IF v = t.item THEN t.count
                                     ELSE IF v < t.item THEN Count(t.left, v) ELSE Count(t.right, v)
  BY <1>1, CountIs
<1> HIDE DEF y
<1>7. Items(y) \subseteq Items(t) \cup W
  BY <1>1, <1>2, <1>5
<1>8. ASSUME NEW v \in Words
      PROVE  Count(y, v) <= IF v \in W THEN Count(t, v) + 1 ELSE Count(t, v)
  <2>1. CASE v = t.item
    BY <1>5, <1>6, <2>1
  <2>2. CASE v < t.item
    <3>1. v # t.item /\ (v \in V1 <=> v \in W)
      BY <1>1, <2>2
    <3> QED
      BY <1>2, <1>5, <1>6, <2>2, <3>1
  <2>3. CASE v > t.item
    <3>1. v # t.item /\ ~(v < t.item) /\ (v \in V2 <=> v \in W)
      BY <1>1, <2>3
    <3> QED
      BY <1>2, <1>5, <1>6, <2>3, <3>1
  <2> QED
    BY <1>1, <2>1, <2>2, <2>3
<1> QED
  BY <1>5, <1>7, <1>8 DEF Under, AtMost, y

\* Levels may be added, and one tree may be seen in the place of another that may.
LEMMA UnderMore ==
    ASSUME NEW x, NEW m \in Tree, NEW d \in 0 .. MaxItems, Under(x, m, {}, d),
           NEW e \in 0 .. MaxItems, d <= e,
           NEW t \in Tree, NEW W, AtMost(m, t, W)
    PROVE  Under(x, t, W, e)
<1>1. Weak(x) /\ AtMost(x, m, {}) /\ x \in Trees[e]
  BY TreesNest DEF Under
<1>2. AtMost(x, t, W)
  <2>1. Items(x) \subseteq Items(t) \cup W
    BY <1>1 DEF AtMost
  <2>2. ASSUME NEW v \in Words
        PROVE  Count(x, v) <= IF v \in W THEN Count(t, v) + 1 ELSE Count(t, v)
    <3>1. Count(x, v) <= Count(m, v)
      BY <1>1 DEF AtMost
    <3>2. Count(m, v) <= IF v \in W THEN Count(t, v) + 1 ELSE Count(t, v)
      BY DEF AtMost
    <3>3. Count(x, v) \in Nat /\ Count(m, v) \in Nat /\ Count(t, v) \in Nat
      BY <1>1, CountAny DEF Weak
    <3> QED
      BY <3>1, <3>2, <3>3
  <2> QED
    BY <2>1, <2>2 DEF AtMost
<1> QED
  BY <1>1, <1>2 DEF Under

\* The subtrees of a search tree may be seen in its place.
LEMMA SubtreeUnder ==
    ASSUME NEW t, Sound(t), t # Nil
    PROVE  /\ Under(t.left, t, {}, Delta(t)) /\ Under(t.right, t, {}, Delta(t))
           /\ AtMost(t.left, t, {}) /\ AtMost(t.right, t, {})
<1>1. /\ t \in Tree \ {Nil} /\ t.item \in Nat /\ Words \subseteq Nat
      /\ Sound(t.left) /\ Sound(t.right) /\ t.left \in Tree /\ t.right \in Tree
      /\ \A i \in Items(t.left) : i < t.item
      /\ \A i \in Items(t.right) : i > t.item
      /\ Items(t) = {t.item} \cup Items(t.left) \cup Items(t.right)
      /\ Items(t.left) \subseteq Nat /\ Items(t.right) \subseteq Nat
  BY SoundParts, ItemsAre, NodeParts, NodesTyped, TreeAssumption DEF Local
<1>2. /\ Delta(t.left) \in -1 .. Delta(t) - 1 /\ Delta(t.right) \in -1 .. Delta(t) - 1
      /\ Delta(t) \in 0 .. MaxItems - 1 /\ MaxItems \in Nat
  BY JoinedAgain, TreeAssumption
<1>3. \A v \in Words : /\ Count(t, v) = IF v = t.item THEN t.count
                                        ELSE IF v < t.item THEN Count(t.left, v) ELSE Count(t.right, v)
                       /\ Count(t, v) \in Nat
                       /\ Count(t.left, v) \in Nat /\ Count(t.right, v) \in Nat
                       /\ v \notin Items(t.left) => Count(t.left, v) = 0
                       /\ v \notin Items(t.right) => Count(t.right, v) = 0
  BY <1>1, CountIs, CountAny
<1>4. AtMost(t.left, t, {})
  <2>1. ASSUME NEW v \in Words PROVE Count(t.left, v) <= Count(t, v)
    <3>1. CASE v < t.item
      <4>1. Count(t, v) = Count(t.left, v) /\ Count(t.left, v) \in Nat
        BY <1>1, <1>3, <3>1
      <4> QED
        BY <4>1
    <3>2. CASE ~(v < t.item)
      <4>1. Count(t.left, v) = 0 /\ Count(t, v) \in Nat
        BY <1>1, <1>3, <3>2
      <4> QED
        BY <4>1
    <3> QED
      BY <3>1, <3>2
  <2> QED
    BY <1>1, <2>1 DEF AtMost
<1>5. AtMost(t.right, t, {})
  <2>1. ASSUME NEW v \in Words PROVE Count(t.right, v) <= Count(t, v)
    <3>1. CASE v > t.item
      <4>1. Count(t, v) = Count(t.right, v) /\ Count(t.right, v) \in Nat
        BY <1>1, <1>3, <3>1
      <4> QED
        BY <4>1
    <3>2. CASE ~(v > t.item)
      <4>1. Count(t.right, v) = 0 /\ Count(t, v) \in Nat
        BY <1>1, <1>3, <3>2
      <4> QED
        BY <4>1
    <3> QED
      BY <3>1, <3>2
  <2> QED
    BY <1>1, <2>1 DEF AtMost
<1>6. /\ Under(t.left, t.left, {}, Delta(t.left) + 1) /\ Under(t.right, t.right, {}, Delta(t.right) + 1)
      /\ Delta(t.left) + 1 \in 0 .. MaxItems /\ Delta(t.right) + 1 \in 0 .. MaxItems
      /\ Delta(t) \in 0 .. MaxItems /\ Delta(t.left) + 1 <= Delta(t) /\ Delta(t.right) + 1 <= Delta(t)
  BY <1>1, <1>2, SoundIsWeak
<1>7. /\ Under(t.left, t, {}, Delta(t)) /\ Under(t.right, t, {}, Delta(t))
  BY <1>1, <1>4, <1>5, <1>6, UnderMore
<1> QED
  BY <1>4, <1>5, <1>7

\* A subtree of a search tree that leans to the right, turned to the left: what may
\* be seen of it on the way, and afterwards.
LEMMA TurningLeft ==
    ASSUME NEW m, Sound(m), m # Nil, Balance(m) < 0, NEW d, d = Delta(m) + 1
    PROVE  /\ m.right # Nil
           /\ \A x \in RotateLeftSteps(m) : Under(x, m, {}, d)
           /\ Under(RotateLeft(m), m, {}, d)
           /\ Under(RotateLeft(m).right, m, {}, d)
<1> DEFINE a == m.left
           b == m.right
           c == Join(m, a, b.left)
           y == Join(b, c, b.right)
           cut == Built(m, m.depth, a, b.left)
<1>1. /\ Sound(a) /\ Sound(b) /\ IsNode(m) /\ Payload(m) /\ m \in Tree \ {Nil} /\ MaxItems \in Nat
      /\ m.count \in Nat
  BY SoundParts, NodesAreNodes, NodeParts, TreeAssumption
<1>2. /\ Parts(m, a, b) /\ Delta(m) = Depth(a, b) /\ Delta(a) - Delta(b) \in -1 .. 1
      /\ Delta(a) \in -1 .. Delta(m) - 1 /\ Delta(b) \in -1 .. Delta(m) - 1
      /\ Delta(m) \in 0 .. MaxItems - 1 /\ Balance(m) = Delta(a) - Delta(b)
  BY JoinedAgain DEF Balance
<1>3. b # Nil /\ Delta(a) + 1 \in 0 .. MaxItems /\ Delta(a) + 1 <= Delta(m) - 1
      /\ Delta(m) - 1 \in 0 .. MaxItems - 1 /\ Delta(m) - 1 \in 0 .. MaxItems
      /\ Delta(m) \in 0 .. MaxItems /\ Delta(m) \in 0 .. MaxItems - 1
      /\ d \in 0 .. MaxItems /\ Delta(m) + 1 <= d /\ (Delta(m) - 1) + 1 <= Delta(m)
      /\ Delta(b) \in 0 .. MaxItems /\ Delta(b) <= Delta(m) - 1
  BY <1>1, <1>2, NilIsSound
<1>4. /\ Sound(b.left) /\ Sound(b.right) /\ IsNode(b) /\ Payload(b) /\ b \in Tree \ {Nil}
      /\ b.left \in Tree /\ b.right \in Tree
  BY <1>1, <1>3, SoundParts, NodesAreNodes, NodeParts DEF Sound
<1>5. /\ Under(a, a, {}, Delta(m) - 1)
      /\ Under(b.left, b, {}, Delta(m) - 1)
      /\ Under(b.right, b, {}, Delta(m) - 1)
  <2>1. a \in Tree /\ b \in Tree /\ AtMost(a, a, {}) /\ AtMost(b, b, {})
    BY <1>1, SoundIsWeak DEF Sound
  <2>2. Under(a, a, {}, Delta(a) + 1)
    BY <1>1, SoundIsWeak
  <2>3. Under(a, a, {}, Delta(m) - 1)
    BY <1>3, <2>1, <2>2, UnderMore
  <2>4. Under(b.left, b, {}, Delta(b)) /\ Under(b.right, b, {}, Delta(b))
    BY <1>1, <1>3, SubtreeUnder
  <2> QED
    BY <1>3, <1>4, <2>1, <2>3, <2>4, UnderMore
<1>6. ASSUME NEW k \in Nat PROVE Under(Built(m, k, a, b.left), m, {}, Delta(m))
  <2>1. {w \in {} : w < m.item} = {} /\ {w \in {} : w > m.item} = {} /\ {} \in SUBSET Words
    OBVIOUS
  <2>2. m.item = m.item /\ m.count <= IF m.item \in {} THEN m.count + 1 ELSE m.count
    BY <1>1
  <2> QED
    BY <1>1, <1>3, <1>5, <2>1, <2>2, Around
<1>7. Depth(a, b.left) \in Nat
  <2>1. Delta(b.left) \in -1 .. MaxItems - 1
    BY <1>4, SoundDelta
  <2> QED
    BY <1>1, <1>2, <2>1 DEF Depth
<1>8. Under(c, m, {}, Delta(m)) /\ Under(cut, m, {}, Delta(m))
  <2>1. m.depth \in Nat
    BY <1>1, NodeParts
  <2> QED
    BY <1>6, <1>7, <2>1, BuiltIs
<1>9. m \in Tree /\ AtMost(m, m, {}) /\ Under(m, m, {}, d)
  BY SoundIsWeak DEF Sound
<1>10. ASSUME NEW x, Under(x, m, {}, Delta(m)) PROVE Under(x, m, {}, d)
  BY <1>3, <1>9, <1>10, UnderMore
<1>11. ASSUME NEW x \in RotateLeftSteps(m) PROVE Under(x, m, {}, d)
  <2>1. RotateLeftSteps(m) = {m, cut, c}
    <3>1. WithRight(m, b.left) = cut
      BY <1>1, BuiltIs
    <3>2. WithDepth(cut) = c
      BY BuiltIs
    <3> HIDE DEF cut, c
    <3> QED
      BY <3>1, <3>2 DEF RotateLeftSteps, WithRight, b
  <2> HIDE DEF cut, c
  <2> QED
    BY <1>8, <1>9, <1>10, <1>11, <2>1
<1>12. RotateLeft(m) = y
  BY <1>1, <1>4, RotationsAre
<1>13. y.right = b.right
  BY JoinParts
<1>14. Under(b.right, m, {}, d)
  <2>1. AtMost(b, m, {})
    BY <1>1, SubtreeUnder
  <2>2. d \in 0 .. MaxItems /\ Delta(m) - 1 <= d
    BY <1>1, <1>2, <1>3
  <2> QED
    BY <1>3, <1>4, <1>5, <1>9, <2>1, <2>2, UnderMore
<1>15. Under(y, m, {}, d)
  <2>1. /\ \A i \in Items(a) : i < m.item
        /\ \A i \in Items(b) : i > m.item
        /\ \A i \in Items(b.left) : i < b.item
        /\ \A i \in Items(b.right) : i > b.item
        /\ Items(b) = {b.item} \cup Items(b.left) \cup Items(b.right)
        /\ Items(m) = {m.item} \cup Items(a) \cup Items(b)
        /\ m.item \in Nat /\ b.item \in Nat /\ Items(a) \subseteq Nat /\ Items(b) \subseteq Nat
        /\ Words \subseteq Nat
    BY <1>1, <1>2, <1>3, <1>4, SoundParts, ItemsAre, NodeParts, NodesTyped, TreeAssumption
       DEF Parts, Local, Sound
  <2>2. \A v \in Words :
           /\ Count(m, v) = IF v = m.item THEN m.count
                            ELSE IF v < m.item THEN Count(a, v) ELSE Count(b, v)
           /\ Count(b, v) = IF v = b.item THEN b.count
                            ELSE IF v < b.item THEN Count(b.left, v) ELSE Count(b.right, v)
           /\ Count(m, v) \in Nat
    BY <1>1, <1>4, CountIs, CountAny
  <2>3. /\ Weak(a) /\ Weak(b.left) /\ Weak(b.right) /\ Weak(c)
        /\ a \in Trees[Delta(m) - 1] /\ b.left \in Trees[Delta(m) - 1]
        /\ b.right \in Trees[Delta(m) - 1] /\ c \in Trees[Delta(m)]
    BY <1>5, <1>8 DEF Under
  <2>4. Trees[Delta(m) - 1] \subseteq Trees[Delta(m)]
    BY <1>2, <1>3, TreesNest
  <2>5. \A i \in Items(b.left) : i >= m.item
    BY <2>1
  <2>6. /\ Items(c) = {m.item} \cup Items(a) \cup Items(b.left)
        /\ \A v \in Words : Count(c, v) = IF v = m.item THEN m.count
                                          ELSE IF v < m.item THEN Count(a, v) ELSE Count(b.left, v)
    <3>1. c = Built(m, Depth(a, b.left), a, b.left)
      BY BuiltIs
    <3>2. PICK n \in 0 .. MaxItems - 1 : n = Delta(m) - 1
      BY <1>3
    <3>3. n + 1 <= Delta(m) /\ a \in Trees[n] /\ b.left \in Trees[n] /\ Delta(m) \in 0 .. MaxItems
      BY <1>3, <2>3, <3>2
    <3> HIDE DEF c, a, b
    <3> QED
      BY <1>1, <1>7, <2>1, <2>3, <2>5, <3>1, <3>3, BuiltWeak
  <2>7. Depth(c, b.right) \in Nat
    <3>1. Delta(b.right) \in -1 .. MaxItems - 1
      BY <1>4, SoundDelta
    <3>2. Delta(c) \in Nat
      BY <1>7, JoinParts
    <3> QED
      BY <1>1, <3>1, <3>2 DEF Depth
  <2>8. y = Built(b, Depth(c, b.right), c, b.right)
    BY BuiltIs
  <2> HIDE DEF y, c, a, b
  <2>9. \A i \in Items(c) : i < b.item
    <3> TAKE i \in Items(c)
    <3>1. CASE i \in Items(b.left)
      BY <2>1, <3>1
    <3>2. CASE i = m.item
      BY <2>1, <3>2
    <3>3. CASE i \in Items(a)
      <4>1. i < m.item /\ m.item < b.item /\ i \in Nat
        BY <2>1, <3>3
      <4> QED
        BY <2>1, <4>1
    <3> QED
      BY <2>6, <3>1, <3>2, <3>3
  <2>10. \A i \in Items(b.right) : i >= b.item
    BY <2>1
  <2>11. /\ Weak(y) /\ y \in Trees[d]
         /\ Items(y) = {b.item} \cup Items(c) \cup Items(b.right)
         /\ \A v \in Words : Count(y, v) = IF v = b.item THEN b.count
                                           ELSE IF v < b.item THEN Count(c, v) ELSE Count(b.right, v)
    <3>1. b.right \in Trees[Delta(m)]
      BY <2>3, <2>4
    <3> QED
      BY <1>3, <1>4, <2>3, <2>7, <2>8, <2>9, <2>10, <3>1, BuiltWeak
  <2>12. Items(y) \subseteq Items(m)
    BY <2>1, <2>6, <2>11
  <2>13. ASSUME NEW v \in Words PROVE Count(y, v) <= Count(m, v)
    <3>0. v \in Nat /\ m.item < b.item
      BY <2>1
    <3>1. Count(y, v) = Count(m, v)
      <4>1. CASE v < m.item
        <5>1. v # m.item /\ v # b.item /\ v < b.item
          BY <2>1, <3>0, <4>1
        <5> QED
          BY <2>2, <2>6, <2>11, <4>1, <5>1
      <4>2. CASE v = m.item
        <5>1. v # b.item /\ v < b.item
          BY <2>1, <3>0, <4>2
        <5> QED
          BY <2>2, <2>6, <2>11, <4>2, <5>1
      <4>3. CASE v > m.item
        <5>1. v # m.item /\ ~(v < m.item)
          BY <2>1, <3>0, <4>3
        <5>2. Count(m, v) = Count(b, v)
          BY <2>2, <5>1
        <5>3. v < b.item => v # b.item /\ Count(c, v) = Count(b.left, v)
          BY <2>1, <2>6, <3>0, <5>1
        <5> QED
          BY <2>2, <2>11, <5>2, <5>3
      <4> QED
        BY <2>1, <3>0, <4>1, <4>2, <4>3
    <3> QED
      BY <2>2, <3>1
  <2> QED
    BY <2>11, <2>12, <2>13 DEF Under, AtMost
<1> QED
  BY <1>3, <1>11, <1>12, <1>13, <1>14, <1>15

\* A subtree of a search tree that leans to the left, turned to the right: what may
\* be seen of it on the way, and afterwards.
LEMMA TurningRight ==
    ASSUME NEW m, Sound(m), m # Nil, Balance(m) > 0, NEW d, d = Delta(m) + 1
    PROVE  /\ m.left # Nil
           /\ \A x \in RotateRightSteps(m) : Under(x, m, {}, d)
           /\ Under(RotateRight(m), m, {}, d)
           /\ Under(RotateRight(m).left, m, {}, d)
<1> DEFINE a == m.right
           b == m.left
           c == Join(m, b.right, a)
           y == Join(b, b.left, c)
           cut == Built(m, m.depth, b.right, a)
<1>1. /\ Sound(a) /\ Sound(b) /\ IsNode(m) /\ Payload(m) /\ m \in Tree \ {Nil} /\ MaxItems \in Nat
      /\ m.count \in Nat
  BY SoundParts, NodesAreNodes, NodeParts, TreeAssumption
<1>2. /\ Parts(m, b, a) /\ Delta(m) = Depth(b, a) /\ Delta(b) - Delta(a) \in -1 .. 1
      /\ Delta(a) \in -1 .. Delta(m) - 1 /\ Delta(b) \in -1 .. Delta(m) - 1
      /\ Delta(m) \in 0 .. MaxItems - 1 /\ Balance(m) = Delta(b) - Delta(a)
  BY JoinedAgain DEF Balance
<1>3. b # Nil /\ Delta(a) + 1 \in 0 .. MaxItems /\ Delta(a) + 1 <= Delta(m) - 1
      /\ Delta(m) - 1 \in 0 .. MaxItems - 1 /\ Delta(m) - 1 \in 0 .. MaxItems
      /\ Delta(m) \in 0 .. MaxItems /\ Delta(m) \in 0 .. MaxItems - 1
      /\ d \in 0 .. MaxItems /\ Delta(m) + 1 <= d /\ (Delta(m) - 1) + 1 <= Delta(m)
      /\ Delta(b) \in 0 .. MaxItems /\ Delta(b) <= Delta(m) - 1
  BY <1>1, <1>2, NilIsSound
<1>4. /\ Sound(b.right) /\ Sound(b.left) /\ IsNode(b) /\ Payload(b) /\ b \in Tree \ {Nil}
      /\ b.right \in Tree /\ b.left \in Tree
  BY <1>1, <1>3, SoundParts, NodesAreNodes, NodeParts DEF Sound
<1>5. /\ Under(a, a, {}, Delta(m) - 1)
      /\ Under(b.right, b, {}, Delta(m) - 1)
      /\ Under(b.left, b, {}, Delta(m) - 1)
  <2>1. a \in Tree /\ b \in Tree /\ AtMost(a, a, {}) /\ AtMost(b, b, {})
    BY <1>1, SoundIsWeak DEF Sound
  <2>2. Under(a, a, {}, Delta(a) + 1)
    BY <1>1, SoundIsWeak
  <2>3. Under(a, a, {}, Delta(m) - 1)
    BY <1>3, <2>1, <2>2, UnderMore
  <2>4. Under(b.right, b, {}, Delta(b)) /\ Under(b.left, b, {}, Delta(b))
    BY <1>1, <1>3, SubtreeUnder
  <2> QED
    BY <1>3, <1>4, <2>1, <2>3, <2>4, UnderMore
<1>6. ASSUME NEW k \in Nat PROVE Under(Built(m, k, b.right, a), m, {}, Delta(m))
  <2>1. {w \in {} : w < m.item} = {} /\ {w \in {} : w > m.item} = {} /\ {} \in SUBSET Words
    OBVIOUS
  <2>2. m.item = m.item /\ m.count <= IF m.item \in {} THEN m.count + 1 ELSE m.count
    BY <1>1
  <2> QED
    BY <1>1, <1>3, <1>5, <2>1, <2>2, Around
<1>7. Depth(b.right, a) \in Nat
  <2>1. Delta(b.right) \in -1 .. MaxItems - 1
    BY <1>4, SoundDelta
  <2> QED
    BY <1>1, <1>2, <2>1 DEF Depth
<1>8. Under(c, m, {}, Delta(m)) /\ Under(cut, m, {}, Delta(m))
  <2>1. m.depth \in Nat
    BY <1>1, NodeParts
  <2> QED
    BY <1>6, <1>7, <2>1, BuiltIs
<1>9. m \in Tree /\ AtMost(m, m, {}) /\ Under(m, m, {}, d)
  BY SoundIsWeak DEF Sound
<1>10. ASSUME NEW x, Under(x, m, {}, Delta(m)) PROVE Under(x, m, {}, d)
  BY <1>3, <1>9, <1>10, UnderMore
<1>11. ASSUME NEW x \in RotateRightSteps(m) PROVE Under(x, m, {}, d)
  <2>1. RotateRightSteps(m) = {m, cut, c}
    <3>1. WithLeft(m, b.right) = cut
      BY <1>1, BuiltIs
    <3>2. WithDepth(cut) = c
      BY BuiltIs
    <3> HIDE DEF cut, c
    <3> QED
      BY <3>1, <3>2 DEF RotateRightSteps, WithLeft, b
  <2> HIDE DEF cut, c
  <2> QED
    BY <1>8, <1>9, <1>10, <1>11, <2>1
<1>12. RotateRight(m) = y
  BY <1>1, <1>4, RotationsAre
<1>13. y.left = b.left
  BY JoinParts
<1>14. Under(b.left, m, {}, d)
  <2>1. AtMost(b, m, {})
    BY <1>1, SubtreeUnder
  <2>2. d \in 0 .. MaxItems /\ Delta(m) - 1 <= d
    BY <1>1, <1>2, <1>3
  <2> QED
    BY <1>3, <1>4, <1>5, <1>9, <2>1, <2>2, UnderMore
<1>15. Under(y, m, {}, d)
  <2>1. /\ \A i \in Items(a) : i > m.item
        /\ \A i \in Items(b) : i < m.item
        /\ \A i \in Items(b.right) : i > b.item
        /\ \A i \in Items(b.left) : i < b.item
        /\ Items(b) = {b.item} \cup Items(b.right) \cup Items(b.left)
        /\ Items(m) = {m.item} \cup Items(a) \cup Items(b)
        /\ m.item \in Nat /\ b.item \in Nat /\ Items(a) \subseteq Nat /\ Items(b) \subseteq Nat
        /\ Words \subseteq Nat
    BY <1>1, <1>2, <1>3, <1>4, SoundParts, ItemsAre, NodeParts, NodesTyped, TreeAssumption
       DEF Parts, Local, Sound
  <2>2. \A v \in Words :
           /\ Count(m, v) = IF v = m.item THEN m.count
                            ELSE IF v < m.item THEN Count(b, v) ELSE Count(a, v)
           /\ Count(b, v) = IF v = b.item THEN b.count
                            ELSE IF v < b.item THEN Count(b.left, v) ELSE Count(b.right, v)
           /\ Count(m, v) \in Nat
    BY <1>1, <1>4, CountIs, CountAny
  <2>3. /\ Weak(a) /\ Weak(b.right) /\ Weak(b.left) /\ Weak(c)
        /\ a \in Trees[Delta(m) - 1] /\ b.right \in Trees[Delta(m) - 1]
        /\ b.left \in Trees[Delta(m) - 1] /\ c \in Trees[Delta(m)]
    BY <1>5, <1>8 DEF Under
  <2>4. Trees[Delta(m) - 1] \subseteq Trees[Delta(m)]
    BY <1>2, <1>3, TreesNest
  <2>5. (\A i \in Items(b.right) : i < m.item) /\ (\A i \in Items(a) : i >= m.item)
    BY <2>1
  <2>6. /\ Items(c) = {m.item} \cup Items(a) \cup Items(b.right)
        /\ \A v \in Words : Count(c, v) = IF v = m.item THEN m.count
                                          ELSE IF v < m.item THEN Count(b.right, v) ELSE Count(a, v)
    <3>1. c = Built(m, Depth(b.right, a), b.right, a)
      BY BuiltIs
    <3>2. PICK n \in 0 .. MaxItems - 1 : n = Delta(m) - 1
      BY <1>3
    <3>3. n + 1 <= Delta(m) /\ a \in Trees[n] /\ b.right \in Trees[n] /\ Delta(m) \in 0 .. MaxItems
      BY <1>3, <2>3, <3>2
    <3> HIDE DEF c, a, b
    <3> QED
      BY <1>1, <1>7, <2>1, <2>3, <2>5, <3>1, <3>3, BuiltWeak
  <2>7. Depth(b.left, c) \in Nat
    <3>1. Delta(b.left) \in -1 .. MaxItems - 1
      BY <1>4, SoundDelta
    <3>2. Delta(c) \in Nat
      BY <1>7, JoinParts
    <3> QED
      BY <1>1, <3>1, <3>2 DEF Depth
  <2>8. y = Built(b, Depth(b.left, c), b.left, c)
    BY BuiltIs
  <2> HIDE DEF y, c, a, b
  <2>9. \A i \in Items(c) : i >= b.item
    <3> TAKE i \in Items(c)
    <3>1. CASE i \in Items(b.right)
      BY <2>1, <3>1
    <3>2. CASE i = m.item
      BY <2>1, <3>2
    <3>3. CASE i \in Items(a)
      <4>1. i > m.item /\ m.item > b.item /\ i \in Nat
        BY <2>1, <3>3
      <4> QED
        BY <2>1, <4>1
    <3> QED
      BY <2>6, <3>1, <3>2, <3>3
  <2>10. \A i \in Items(b.left) : i < b.item
    BY <2>1
  <2>11. /\ Weak(y) /\ y \in Trees[d]
         /\ Items(y) = {b.item} \cup Items(c) \cup Items(b.left)
         /\ \A v \in Words : Count(y, v) = IF v = b.item THEN b.count
                                           ELSE IF v < b.item THEN Count(b.left, v) ELSE Count(c, v)
    <3>1. b.left \in Trees[Delta(m)]
      BY <2>3, <2>4
    <3> QED
      BY <1>3, <1>4, <2>3, <2>7, <2>8, <2>9, <2>10, <3>1, BuiltWeak
  <2>12. Items(y) \subseteq Items(m)
    BY <2>1, <2>6, <2>11
  <2>13. ASSUME NEW v \in Words PROVE Count(y, v) <= Count(m, v)
    <3>0. v \in Nat /\ m.item > b.item
      BY <2>1
    <3>1. Count(y, v) = Count(m, v)
      <4>1. CASE v > m.item
        <5>1. v # m.item /\ v # b.item /\ ~(v < b.item) /\ ~(v < m.item)
          BY <2>1, <3>0, <4>1
        <5> QED
          BY <2>2, <2>6, <2>11, <4>1, <5>1
      <4>2. CASE v = m.item
        <5>1. v # b.item /\ ~(v < b.item)
          BY <2>1, <3>0, <4>2
        <5> QED
          BY <2>2, <2>6, <2>11, <4>2, <5>1
      <4>3. CASE v < m.item
        <5>1. v # m.item
          BY <2>1, <3>0, <4>3
        <5>2. Count(m, v) = Count(b, v)
          BY <2>2, <4>3, <5>1
        <5>3. ~(v < b.item) => Count(c, v) = Count(b.right, v)
          BY <2>6, <4>3, <5>1
        <5> QED
          BY <2>2, <2>11, <5>2, <5>3
      <4> QED
        BY <2>1, <3>0, <4>1, <4>2, <4>3
    <3> QED
      BY <2>2, <3>1
  <2> QED
    BY <2>11, <2>12, <2>13 DEF Under, AtMost
<1> QED
  BY <1>3, <1>11, <1>12, <1>13, <1>14, <1>15

\* G has p over whatever may be seen in the places of m and r.
Holding(G, p, m, r) ==
  \A j \in Nat : \A x, z : Under(x, m, {}, Delta(m) + 1) /\ Under(z, r, {}, Delta(r) + 1)
                          => Built(p, j, x, z) \in G

\* A set whose elements another has.
Within(A, G) == A \subseteq G

\* Whatever a rotation of the node p over m and r shows is p over what may be seen in
\* the places of m and r.
LEMMA FixSteps ==
    ASSUME NEW p, NEW k \in Nat, NEW m, Sound(m), NEW r, Sound(r), NEW G,
           Holding(G, p, m, r),
           NEW s, s = Built(p, k, m, r)
    PROVE  /\ s \in G /\ WithDepth(s) \in G
           /\ m # Nil => Within(RotateRightSteps(s), G)
           /\ m # Nil /\ Balance(m) < 0 => Within(RotateLeftRightSteps(s), G)
           /\ r # Nil => Within(RotateLeftSteps(s), G)
           /\ r # Nil /\ Balance(r) > 0 => Within(RotateRightLeftSteps(s), G)
           /\ Within(RebalanceSteps(s), G)
<1> DEFINE M == {x \in Tree : Under(x, m, {}, Delta(m) + 1)}
           R == {z \in Tree : Under(z, r, {}, Delta(r) + 1)}
<1>1. m \in M /\ r \in R
  BY SoundIsWeak DEF Sound
<1>2. ASSUME NEW x \in M, NEW z \in R, NEW j \in Nat
      PROVE  Built(p, j, x, z) \in G /\ WithDepth(Built(p, j, x, z)) \in G
  <2>1. ASSUME NEW t \in Tree PROVE Delta(t) \in Int /\ Delta(t) >= -1
    <3>1. t # Nil => t.depth \in Nat
      BY NodeParts
    <3> QED
      BY <3>1 DEF Delta
  <2>2. Delta(x) \in Int /\ Delta(x) >= -1 /\ Delta(z) \in Int /\ Delta(z) >= -1
    BY <2>1
  <2>3. Depth(x, z) \in Nat
    BY <2>2 DEF Depth
  <2>4. WithDepth(Built(p, j, x, z)) = Built(p, Depth(x, z), x, z)
    BY BuiltIs
  <2> QED
    BY <2>3, <2>4 DEF Holding, M, R
<1>3. ASSUME m # Nil PROVE m.left \in M /\ m.right \in M
  <2>1. /\ Under(m.left, m, {}, Delta(m)) /\ Under(m.right, m, {}, Delta(m))
        /\ m \in Tree /\ AtMost(m, m, {}) /\ Delta(m) + 1 \in 0 .. MaxItems
        /\ Delta(m) \in 0 .. MaxItems - 1 /\ MaxItems \in Nat
    BY <1>3, SubtreeUnder, SoundIsWeak, JoinedAgain, TreeAssumption DEF Sound
  <2>2. Delta(m) \in 0 .. MaxItems /\ Delta(m) <= Delta(m) + 1
    BY <2>1
  <2> QED
    BY <2>1, <2>2, UnderMore DEF Under, Weak
<1>4. ASSUME r # Nil PROVE r.left \in R /\ r.right \in R
  <2>1. /\ Under(r.left, r, {}, Delta(r)) /\ Under(r.right, r, {}, Delta(r))
        /\ r \in Tree /\ AtMost(r, r, {}) /\ Delta(r) + 1 \in 0 .. MaxItems
        /\ Delta(r) \in 0 .. MaxItems - 1 /\ MaxItems \in Nat
    BY <1>4, SubtreeUnder, SoundIsWeak, JoinedAgain, TreeAssumption DEF Sound
  <2>2. Delta(r) \in 0 .. MaxItems /\ Delta(r) <= Delta(r) + 1
    BY <2>1
  <2> QED
    BY <2>1, <2>2, UnderMore DEF Under, Weak
<1>5. ASSUME m # Nil, Balance(m) < 0
      PROVE  RotateLeftSteps(m) \subseteq M /\ RotateLeft(m) \in M /\ RotateLeft(m).right \in M
  BY <1>5, TurningLeft DEF Under, Weak
<1>6. ASSUME r # Nil, Balance(r) > 0
      PROVE  RotateRightSteps(r) \subseteq R /\ RotateRight(r) \in R /\ RotateRight(r).left \in R
  BY <1>6, TurningRight DEF Under, Weak
<1> HIDE DEF M, R
<1>7. s \in G /\ WithDepth(s) \in G
  BY <1>1, <1>2
<1>8. ASSUME NEW x \in M, NEW z \in R, x.right \in M, NEW j \in Nat
      PROVE  RotateRightSteps(Built(p, j, x, z)) \subseteq G
  <2> DEFINE o == Built(p, j, x, z)
             cut == Built(p, j, x.right, z)
  <2>1. RotateRightSteps(o) = {o, cut, WithDepth(cut)}
    <3>1. o.left = x /\ WithLeft(o, x.right) = cut
      BY BuiltIs
    <3> HIDE DEF o, cut
    <3> QED
      BY <3>1 DEF RotateRightSteps, WithLeft
  <2>2. o \in G /\ cut \in G /\ WithDepth(cut) \in G
    BY <1>2, <1>8
  <2> QED
    BY <2>1, <2>2
<1>9. ASSUME NEW x \in M, NEW z \in R, z.left \in R, NEW j \in Nat
      PROVE  RotateLeftSteps(Built(p, j, x, z)) \subseteq G
  <2> DEFINE o == Built(p, j, x, z)
             cut == Built(p, j, x, z.left)
  <2>1. RotateLeftSteps(o) = {o, cut, WithDepth(cut)}
    <3>1. o.right = z /\ WithRight(o, z.left) = cut
      BY BuiltIs
    <3> HIDE DEF o, cut
    <3> QED
      BY <3>1 DEF RotateLeftSteps, WithRight
  <2>2. o \in G /\ cut \in G /\ WithDepth(cut) \in G
    BY <1>2, <1>9
  <2> QED
    BY <2>1, <2>2
<1>10. m # Nil => RotateRightSteps(s) \subseteq G
  BY <1>1, <1>3, <1>8
<1>11. r # Nil => RotateLeftSteps(s) \subseteq G
  BY <1>1, <1>4, <1>9
<1>12. ASSUME m # Nil, Balance(m) < 0 PROVE RotateLeftRightSteps(s) \subseteq G
  <2>1. RotateLeftRightSteps(s) = {WithLeft(s, x) : x \in RotateLeftSteps(s.left)}
                                    \cup RotateRightSteps(WithLeft(s, RotateLeft(s.left)))
    BY DEF RotateLeftRightSteps, WithLeft
  <2>2. s.left = m /\ \A u : WithLeft(s, u) = Built(p, k, u, r)
    BY BuiltIs
  <2>3. RotateRightSteps(Built(p, k, RotateLeft(m), r)) \subseteq G
    BY <1>1, <1>5, <1>8, <1>12
  <2>4. \A x \in RotateLeftSteps(m) : Built(p, k, x, r) \in G
    BY <1>1, <1>2, <1>5, <1>12
  <2> QED
    BY <2>1, <2>2, <2>3, <2>4
<1>13. ASSUME r # Nil, Balance(r) > 0 PROVE RotateRightLeftSteps(s) \subseteq G
  <2>1. RotateRightLeftSteps(s) = {WithRight(s, x) : x \in RotateRightSteps(s.right)}
                                    \cup RotateLeftSteps(WithRight(s, RotateRight(s.right)))
    BY DEF RotateRightLeftSteps, WithRight
  <2>2. s.right = r /\ \A u : WithRight(s, u) = Built(p, k, m, u)
    BY BuiltIs
  <2>3. RotateLeftSteps(Built(p, k, m, RotateRight(r))) \subseteq G
    BY <1>1, <1>6, <1>9, <1>13
  <2>4. \A x \in RotateRightSteps(r) : Built(p, k, m, x) \in G
    BY <1>1, <1>2, <1>6, <1>13
  <2> QED
    BY <2>1, <2>2, <2>3, <2>4
<1>14. RebalanceSteps(s) \subseteq G
  <2>1. s.left = m /\ s.right = r
    BY BuiltIs
  <2>2. Balance(s) = Delta(m) - Delta(r)
    BY <2>1 DEF Balance
  <2>3. /\ Delta(m) \in -1 .. MaxItems - 1 /\ Delta(r) \in -1 .. MaxItems - 1 /\ MaxItems \in Nat
        /\ Delta(Nil) = -1
    BY SoundDelta, NilIsSound, TreeAssumption
  <2>4. Balance(s) > 1 => m # Nil
    BY <2>2, <2>3
  <2>5. Balance(s) < -1 => r # Nil
    BY <2>2, <2>3
  <2>6. /\ m # Nil => Balance(m) \in Int
        /\ r # Nil => Balance(r) \in Int
    BY SoundParts DEF Local
  <2>7. CASE Balance(s) > 1
    <3>1. RebalanceSteps(s) = {s} \cup (IF Balance(m) >= 0 THEN RotateRightSteps(s)
                                        ELSE RotateLeftRightSteps(s))
      BY <2>1, <2>7 DEF RebalanceSteps
    <3>2. Balance(m) >= 0 \/ Balance(m) < 0
      BY <2>4, <2>6, <2>7
    <3> QED
      BY <1>7, <1>10, <1>12, <2>4, <2>7, <3>1, <3>2
  <2>8. CASE ~(Balance(s) > 1) /\ Balance(s) < -1
    <3>1. RebalanceSteps(s) = {s} \cup (IF Balance(r) <= 0 THEN RotateLeftSteps(s)
                                        ELSE RotateRightLeftSteps(s))
      BY <2>1, <2>8 DEF RebalanceSteps
    <3>2. Balance(r) <= 0 \/ Balance(r) > 0
      BY <2>5, <2>6, <2>8
    <3> QED
      BY <1>7, <1>11, <1>13, <2>5, <2>8, <3>1, <3>2
  <2>9. CASE ~(Balance(s) > 1) /\ ~(Balance(s) < -1)
    <3>1. RebalanceSteps(s) = {s}
      BY <2>9 DEF RebalanceSteps
    <3> QED
      BY <1>7, <3>1
  <2> QED
    BY <2>7, <2>8, <2>9
<1> QED
  BY <1>7, <1>10, <1>11, <1>12, <1>13, <1>14 DEF Within

\* The trees that update shows keep the order, and hold no more than the word besides.
LEMMA UpdateStepsUnder ==
    ASSUME NEW t, Sound(t), NEW w \in Words, NEW new, w \in Items(t) \/ Fresh(new, w),
           Delta(t) <= MaxItems - 2
    PROVE  \A u \in UpdateSteps(t, w, new) : Under(u, t, {w}, Delta(t) + 2)
<1> DEFINE P(s) == Sound(s) /\ (w \in Items(s) \/ Fresh(new, w)) /\ Delta(s) <= MaxItems - 2
                     => \A u \in UpdateSteps(s, w, new) : Under(u, s, {w}, Delta(s) + 2)
           S == {s \in Tree : P(s)}
<1>0. MaxItems \in Nat /\ w \in Nat /\ Words \subseteq Nat
  BY TreeAssumption
<1>1. P(Nil)
  <2> SUFFICES ASSUME -1 <= MaxItems - 2 PROVE Under(Nil, Nil, {w}, (-1) + 2)
    BY UpdateStepsAre, NilIsSound
  <2>1. /\ Weak(Nil) /\ Under(Nil, Nil, {}, 0) /\ Nil \in Tree
    BY SoundIsWeak, NilIsSound, NilParts
  <2>2. AtMost(Nil, Nil, {w})
    BY CountIs, ItemsAre DEF AtMost
  <2>3. 0 \in 0 .. MaxItems /\ 1 \in 0 .. MaxItems /\ (-1) + 2 = 1 /\ 0 <= 1
    BY <1>0
  <2> QED
    BY <2>1, <2>2, <2>3, UnderMore
<1>2. ASSUME NEW s \in Tree \ {Nil}, P(s.left), P(s.right), Sound(s),
             w \in Items(s) \/ Fresh(new, w), Delta(s) <= MaxItems - 2,
             NEW u \in UpdateSteps(s, w, new)
      PROVE  Under(u, s, {w}, Delta(s) + 2)
  <2> DEFINE l == s.left
             r == s.right
             d == Delta(s) + 1
             e == Delta(s) + 2
             G == {y \in Tree : Under(y, s, {w}, e)}
  <2>1. /\ Sound(l) /\ Sound(r) /\ IsNode(s) /\ Payload(s) /\ s.item \in Nat
        /\ l \in Tree /\ r \in Tree /\ s.depth \in Nat /\ s.count \in Nat \ {0}
        /\ Items(s) = {s.item} \cup Items(l) \cup Items(r)
    BY <1>2, SoundParts, NodesAreNodes, NodeParts, ItemsAre, TreeAssumption
  <2>2. /\ Delta(s) = Depth(l, r) /\ Delta(l) - Delta(r) \in -1 .. 1
        /\ Delta(l) \in -1 .. Delta(s) - 1 /\ Delta(r) \in -1 .. Delta(s) - 1
        /\ Delta(s) \in 0 .. MaxItems - 1 /\ Parts(s, l, r)
    BY <1>2, JoinedAgain
  <2>3. /\ d \in 0 .. MaxItems - 1 /\ d \in 0 .. MaxItems /\ e \in 0 .. MaxItems /\ d + 1 <= e
        /\ Delta(l) <= MaxItems - 2 /\ Delta(r) <= MaxItems - 2
        /\ Delta(l) + 1 \in 0 .. MaxItems /\ Delta(l) + 1 <= d
        /\ Delta(r) + 1 \in 0 .. MaxItems /\ Delta(r) + 1 <= d
        /\ Delta(l) + 2 \in 0 .. MaxItems /\ Delta(l) + 2 <= d
        /\ Delta(r) + 2 \in 0 .. MaxItems /\ Delta(r) + 2 <= d
        /\ Delta(s) + 1 <= e
    BY <1>0, <1>2, <2>2
  <2>4. UpdateSteps(s, w, new) =
          UpdateStepsOver(s, w, new, UpdateSteps(l, w, new), UpdateSteps(r, w, new))
    BY <1>2, UpdateStepsAre
  <2>5. /\ AtMost(l, l, {}) /\ AtMost(r, r, {}) /\ AtMost(s, s, {w})
        /\ Under(l, l, {}, d) /\ Under(r, r, {}, d)
    <3>1. /\ AtMost(l, l, {}) /\ AtMost(r, r, {}) /\ AtMost(s, s, {})
          /\ Under(l, l, {}, Delta(l) + 1) /\ Under(r, r, {}, Delta(r) + 1)
      BY <1>2, <2>1, SoundIsWeak
    <3>2. AtMost(s, s, {w})
      <4>1. \A v \in Words : Count(s, v) \in Nat
        BY <1>2, CountAny
      <4> QED
        BY <4>1 DEF AtMost
    <3> QED
      BY <2>1, <2>3, <3>1, <3>2, UnderMore
  <2>6. \A y \in G : Under(y, s, {w}, e)
    OBVIOUS
  <2>7. \A y : Under(y, s, {w}, e) => y \in G
    BY DEF Under, Weak
  <2> HIDE DEF l, r, d, e, G
  <2>8. CASE w = s.item
    <3>1. u \in {s, CountedOn(s, 1)}
      BY <1>2, <2>4, <2>8 DEF UpdateStepsOver
    <3>2. Under(s, s, {w}, e)
      <4>1. /\ Under(s, s, {}, Delta(s) + 1) /\ Delta(s) + 1 \in 0 .. MaxItems
        BY <1>2, SoundIsWeak
      <4> QED
        BY <1>2, <2>3, <2>5, <4>1, UnderMore
    <3>3. Under(CountedOn(s, 1), s, {w}, e)
      <4> DEFINE p == [item |-> s.item, count |-> s.count + 1, at |-> s.at, str |-> s.str]
      <4>1. CountedOn(s, 1) = Built(p, s.depth, l, r)
        BY <2>1 DEF CountedOn, IsNode, Built, l, r
      <4>2. Payload(p) /\ p.item = s.item /\ p.count = s.count + 1
        BY <2>1 DEF Payload
      <4>3. {x \in {w} : x < s.item} = {} /\ {x \in {w} : x > s.item} = {}
        BY <1>0, <2>1, <2>8
      <4> HIDE DEF p
      <4>4. p.count <= IF s.item \in {w} THEN s.count + 1 ELSE s.count
        BY <2>1, <2>8, <4>2
      <4>5. /\ Under(l, s.left, {x \in {w} : x < s.item}, d)
            /\ Under(r, s.right, {x \in {w} : x > s.item}, d)
        BY <2>5, <4>3 DEF l, r
      <4> QED
        BY <1>2, <2>1, <2>3, <4>1, <4>2, <4>4, <4>5, Around
    <3> QED
      BY <3>1, <3>2, <3>3 DEF e
  <2>9. CASE w < s.item
    <3> DEFINE m == Updated(l, w, new)
               x == WithLeft(s, m)
    <3>0. /\ w # s.item /\ w \notin Items(r)
          /\ {v \in {w} : v < s.item} = {w} /\ {v \in {w} : v > s.item} = {}
      BY <1>0, <2>1, <2>2, <2>9 DEF Parts
    <3>1. w \in Items(l) \/ Fresh(new, w)
      BY <1>2, <2>1, <3>0
    <3>2. OneMore(m, l, w)
      BY <2>1, <2>3, <3>1, UpdatedSound
    <3> HIDE DEF m
    <3>3. /\ Sound(m) /\ m # Nil /\ m \in Tree /\ Delta(m) \in Delta(l) .. Delta(l) + 1
          /\ m.item \in Nat /\ Gains(m, l, w)
      <4>1. Sound(m) /\ m # Nil /\ Gains(m, l, w) /\ Delta(m) \in Delta(l) .. Delta(l) + 1
        BY <3>2 DEF OneMore
      <4> QED
        BY <1>0, <4>1, NodeParts DEF Sound
    <3>4. AtMost(m, l, {w})
      <4>1. \A v \in Words : Count(l, v) \in Nat
        BY <2>1, CountAny
      <4> QED
        BY <3>3, <4>1 DEF AtMost, Gains
    <3>5. ASSUME NEW j \in Nat, NEW y, NEW z, Under(y, l, {w}, d), Under(z, r, {}, d)
          PROVE  Built(s, j, y, z) \in G
      <4>1. s.item = s.item /\ s.count <= IF s.item \in {w} THEN s.count + 1 ELSE s.count
        BY <2>1
      <4>2. /\ Under(y, s.left, {v \in {w} : v < s.item}, d)
            /\ Under(z, s.right, {v \in {w} : v > s.item}, d)
        BY <3>0, <3>5 DEF l, r
      <4>3. Under(Built(s, j, y, z), s, {w}, e)
        BY <1>2, <2>1, <2>3, <4>1, <4>2, Around
      <4> QED
        BY <2>7, <4>3
    <3>6. Holding(G, s, m, r)
      <4> SUFFICES ASSUME NEW j \in Nat, NEW y, NEW z,
                          Under(y, m, {}, Delta(m) + 1), Under(z, r, {}, Delta(r) + 1)
                   PROVE  Built(s, j, y, z) \in G
        BY DEF Holding
      <4>1. Delta(m) + 1 \in 0 .. MaxItems /\ Delta(m) + 1 <= d
        BY <1>0, <2>2, <2>3, <3>3
      <4>2. Under(y, l, {w}, d) /\ Under(z, r, {}, d)
        BY <2>1, <2>3, <2>5, <3>3, <3>4, <4>1, UnderMore
      <4> QED
        BY <3>5, <4>2
    <3>7. x = Built(s, s.depth, m, r)
      BY <2>1, BuiltIs DEF r
    <3> HIDE DEF x
    <3>8. /\ x \in G /\ WithDepth(x) \in G
          /\ m # Nil => Within(RotateRightSteps(x), G)
          /\ m # Nil /\ Balance(m) < 0 => Within(RotateLeftRightSteps(x), G)
      <4>1. PICK k \in Nat : k = s.depth
        BY <2>1
      <4>2. x = Built(s, k, m, r)
        BY <3>7, <4>1
      <4>3. Sound(m) /\ Sound(r)
        BY <2>1, <3>3
      <4> QED
        BY <3>6, <4>2, <4>3, FixSteps
    <3>9. x.left = m /\ x.right = r
      BY <3>7, BuiltIs
    <3>10. u \in {WithLeft(s, v) : v \in UpdateSteps(l, w, new)} \cup
               (IF Balance(x) \in -1 .. 1 THEN {x, WithDepth(x)}
                ELSE IF w < x.left.item THEN RotateRightSteps(x) ELSE RotateLeftRightSteps(x))
      BY <1>2, <2>4, <2>9, <3>0 DEF UpdateStepsOver, x, m, l
    <3>11. ASSUME NEW v \in UpdateSteps(l, w, new), u = WithLeft(s, v) PROVE u \in G
      <4>1. Under(v, l, {w}, Delta(l) + 2)
        BY <1>2, <2>1, <2>3, <3>1 DEF l
      <4>2. Under(v, l, {w}, d)
        BY <2>3, <4>1, TreesNest DEF Under
      <4>3. u = Built(s, s.depth, v, r)
        BY <2>1, <3>11, BuiltIs DEF r
      <4> QED
        BY <2>1, <2>5, <3>5, <4>2, <4>3
    <3>12. ASSUME Balance(x) \notin -1 .. 1, ~(w < m.item) PROVE Balance(m) < 0
      <4>1. Balance(x) = Delta(m) - Delta(r)
        BY <3>9 DEF Balance
      <4>2. /\ Delta(m) = Delta(l) + 1 /\ Delta(l) = Delta(r) + 1
        BY <2>2, <3>3, <3>12, <4>1
      <4>3. l # Nil
        BY <2>2, <4>2, NilIsSound
      <4> QED
        BY <3>2, <3>12, <4>2, <4>3 DEF OneMore
    <3> QED
      BY <2>6, <3>3, <3>8, <3>9, <3>10, <3>11, <3>12 DEF e, Within
  <2>10. CASE w > s.item
    <3> DEFINE m == Updated(r, w, new)
               x == WithRight(s, m)
    <3>0. /\ w # s.item /\ ~(w < s.item) /\ w \notin Items(l)
          /\ {v \in {w} : v < s.item} = {} /\ {v \in {w} : v > s.item} = {w}
      BY <1>0, <2>1, <2>2, <2>10 DEF Parts
    <3>1. w \in Items(r) \/ Fresh(new, w)
      BY <1>2, <2>1, <3>0
    <3>2. OneMore(m, r, w)
      BY <2>1, <2>3, <3>1, UpdatedSound
    <3> HIDE DEF m
    <3>3. /\ Sound(m) /\ m # Nil /\ m \in Tree /\ Delta(m) \in Delta(r) .. Delta(r) + 1
          /\ m.item \in Nat /\ Gains(m, r, w)
      <4>1. Sound(m) /\ m # Nil /\ Gains(m, r, w) /\ Delta(m) \in Delta(r) .. Delta(r) + 1
        BY <3>2 DEF OneMore
      <4> QED
        BY <1>0, <4>1, NodeParts DEF Sound
    <3>4. AtMost(m, r, {w})
      <4>1. \A v \in Words : Count(r, v) \in Nat
        BY <2>1, CountAny
      <4> QED
        BY <3>3, <4>1 DEF AtMost, Gains
    <3>5. ASSUME NEW j \in Nat, NEW y, NEW z, Under(y, l, {}, d), Under(z, r, {w}, d)
          PROVE  Built(s, j, y, z) \in G
      <4>1. s.item = s.item /\ s.count <= IF s.item \in {w} THEN s.count + 1 ELSE s.count
        BY <2>1
      <4>2. /\ Under(y, s.left, {v \in {w} : v < s.item}, d)
            /\ Under(z, s.right, {v \in {w} : v > s.item}, d)
        BY <3>0, <3>5 DEF l, r
      <4>3. Under(Built(s, j, y, z), s, {w}, e)
        BY <1>2, <2>1, <2>3, <4>1, <4>2, Around
      <4> QED
        BY <2>7, <4>3
    <3>6. Holding(G, s, l, m)
      <4> SUFFICES ASSUME NEW j \in Nat, NEW y, NEW z,
                          Under(y, l, {}, Delta(l) + 1), Under(z, m, {}, Delta(m) + 1)
                   PROVE  Built(s, j, y, z) \in G
        BY DEF Holding
      <4>1. Delta(m) + 1 \in 0 .. MaxItems /\ Delta(m) + 1 <= d
        BY <1>0, <2>2, <2>3, <3>3
      <4>2. Under(y, l, {}, d) /\ Under(z, r, {w}, d)
        BY <2>1, <2>3, <2>5, <3>3, <3>4, <4>1, UnderMore
      <4> QED
        BY <3>5, <4>2
    <3>7. x = Built(s, s.depth, l, m)
      BY <2>1, BuiltIs DEF l
    <3> HIDE DEF x
    <3>8. /\ x \in G /\ WithDepth(x) \in G
          /\ m # Nil => Within(RotateLeftSteps(x), G)
          /\ m # Nil /\ Balance(m) > 0 => Within(RotateRightLeftSteps(x), G)
      <4>1. PICK k \in Nat : k = s.depth
        BY <2>1
      <4>2. x = Built(s, k, l, m)
        BY <3>7, <4>1
      <4>3. Sound(l) /\ Sound(m)
        BY <2>1, <3>3
      <4> QED
        BY <3>6, <4>2, <4>3, FixSteps
    <3>9. x.left = l /\ x.right = m
      BY <3>7, BuiltIs
    <3>10. u \in {WithRight(s, v) : v \in UpdateSteps(r, w, new)} \cup
               (IF Balance(x) \in -1 .. 1 THEN {x, WithDepth(x)}
                ELSE IF w > x.right.item THEN RotateLeftSteps(x) ELSE RotateRightLeftSteps(x))
      BY <1>2, <2>4, <3>0 DEF UpdateStepsOver, x, m, r
    <3>11. ASSUME NEW v \in UpdateSteps(r, w, new), u = WithRight(s, v) PROVE u \in G
      <4>1. Under(v, r, {w}, Delta(r) + 2)
        BY <1>2, <2>1, <2>3, <3>1 DEF r
      <4>2. Under(v, r, {w}, d)
        BY <2>3, <4>1, TreesNest DEF Under
      <4>3. u = Built(s, s.depth, l, v)
        BY <2>1, <3>11, BuiltIs DEF l
      <4> QED
        BY <2>1, <2>5, <3>5, <4>2, <4>3
    <3>12. ASSUME Balance(x) \notin -1 .. 1, ~(w > m.item) PROVE Balance(m) > 0
      <4>1. Balance(x) = Delta(l) - Delta(m)
        BY <3>9 DEF Balance
      <4>2. /\ Delta(m) = Delta(r) + 1 /\ Delta(r) = Delta(l) + 1
        BY <2>2, <3>3, <3>12, <4>1
      <4>3. r # Nil
        BY <2>2, <4>2, NilIsSound
      <4> QED
        BY <3>2, <3>12, <4>2, <4>3 DEF OneMore
    <3> QED
      BY <2>6, <3>3, <3>8, <3>9, <3>10, <3>11, <3>12 DEF e, Within
  <2> QED
    BY <1>0, <2>1, <2>8, <2>9, <2>10
<1>3. Tree \subseteq S
  <2>1. Nil \in S
    BY <1>1, NilParts
  <2>2. \A s \in Tree \ {Nil} : s.left \in S /\ s.right \in S => s \in S
    BY <1>2
  <2> HIDE DEF S
  <2> QED
    BY <2>1, <2>2, OverTrees
<1> QED
  BY <1>3 DEF S, Sound

\* A tree that lost a word holds no more than one that held no less.
LEMMA LosingIsLess ==
    ASSUME NEW t \in Tree, NEW u \in Tree, NEW w, Loses(u, t, w), NEW r \in Tree, AtMost(t, r, {})
    PROVE  AtMost(u, r, {})
<1>1. Items(u) \subseteq Items(r) \cup {}
  BY DEF Loses, AtMost
<1>2. ASSUME NEW v \in Words PROVE Count(u, v) <= Count(r, v)
  <2>1. Count(u, v) = IF v = w THEN Count(t, v) - 1 ELSE Count(t, v)
    BY DEF Loses
  <2>2. Count(t, v) <= Count(r, v)
    BY DEF AtMost
  <2>3. Count(t, v) \in Nat /\ Count(r, v) \in Nat
    BY CountAny
  <2> QED
    BY <2>1, <2>2, <2>3
<1> QED
  BY <1>1, <1>2 DEF AtMost

\* Whatever the end of remove_node shows is the node over what may be seen below it.
LEMMA SettlingSteps ==
    ASSUME NEW p, NEW k \in Nat, NEW m, Sound(m), NEW r, Sound(r), NEW G,
           Holding(G, p, m, r), NEW s, s = Built(p, k, m, r)
    PROVE  Within(Settling(s), G)
<1>1. s \in G
  BY FixSteps
<1>2. Depth(m, r) \in Nat
  <2>1. Delta(m) \in -1 .. MaxItems - 1 /\ Delta(r) \in -1 .. MaxItems - 1 /\ MaxItems \in Nat
    BY SoundDelta, TreeAssumption
  <2> QED
    BY <2>1 DEF Depth
<1>3. WithDepth(s) = Built(p, Depth(m, r), m, r)
  BY BuiltIs
<1>4. Within(RebalanceSteps(WithDepth(s)), G)
  <2>1. PICK j \in Nat : j = Depth(m, r)
    BY <1>2
  <2>2. WithDepth(s) = Built(p, j, m, r)
    BY <1>3, <2>1
  <2> QED
    BY <2>2, FixSteps
<1> QED
  BY <1>1, <1>4 DEF Settling, Within

\* The node of a word that has got the next one, over what may be seen below it.
LEMMA AroundNext ==
    ASSUME NEW t, Sound(t), t # Nil, t.right # Nil, t.count = 1,
           NEW p, Payload(p), p.item = FindMin[t.right].item, p.count <= FindMin[t.right].count,
           NEW k \in Nat, NEW d \in 0 .. MaxItems - 1, NEW e \in 0 .. MaxItems, d + 1 <= e,
           NEW a, Under(a, t.left, {}, d), NEW b, Under(b, t.right, {}, d)
    PROVE  Under(Built(p, k, a, b), t, {}, e)
<1> DEFINE y == Built(p, k, a, b)
           l == t.left
           r == t.right
           m == FindMin[r]
<1>1. /\ t \in Tree \ {Nil} /\ t.item \in Nat /\ Words \subseteq Nat
      /\ Sound(l) /\ Sound(r) /\ l \in Tree /\ r \in Tree
      /\ \A i \in Items(l) : i < t.item
      /\ \A i \in Items(r) : i > t.item
      /\ Items(t) = {t.item} \cup Items(l) \cup Items(r)
      /\ Items(l) \subseteq Nat /\ Items(r) \subseteq Nat
  BY SoundParts, ItemsAre, NodeParts, NodesTyped, TreeAssumption DEF Local
<1>2. /\ m.item \in Items(r) /\ m.item \in Words /\ m.count = Count(r, m.item)
      /\ \A i \in Items(r) : m.item <= i
  BY <1>1, MinIs
<1>3. /\ Items(a) \subseteq Items(l) /\ Items(b) \subseteq Items(r)
      /\ Weak(a) /\ Weak(b) /\ a \in Trees[d] /\ b \in Trees[d]
      /\ \A v \in Words : Count(a, v) <= Count(l, v)
      /\ \A v \in Words : Count(b, v) <= Count(r, v)
  BY DEF Under, AtMost
<1>4. \A v \in Words : /\ Count(t, v) = IF v = t.item THEN t.count
                                        ELSE IF v < t.item THEN Count(l, v) ELSE Count(r, v)
                       /\ Count(t, v) \in Nat /\ Count(l, v) \in Nat /\ Count(r, v) \in Nat
                       /\ v \notin Items(l) => Count(l, v) = 0
  BY <1>1, CountIs, CountAny
<1> HIDE DEF l, r
<1>5. t.item < m.item /\ m.item \in Nat /\ p.item = m.item /\ p.count <= m.count
  BY <1>1, <1>2 DEF r
<1> HIDE DEF m
<1>6. \A i \in Items(a) : i < p.item
  <2> TAKE i \in Items(a)
  <2>1. i \in Nat /\ i < t.item
    BY <1>1, <1>3
  <2> QED
    BY <1>1, <1>5, <2>1
<1>7. \A i \in Items(b) : i >= p.item
  <2> TAKE i \in Items(b)
  <2>1. i \in Nat /\ m.item <= i
    BY <1>1, <1>2, <1>3
  <2> QED
    BY <1>5, <2>1
<1>8. /\ Weak(y) /\ y \in Trees[e]
      /\ Items(y) = {p.item} \cup Items(a) \cup Items(b)
      /\ \A v \in Words : Count(y, v) = IF v = p.item THEN p.count
                                        ELSE IF v < p.item THEN Count(a, v) ELSE Count(b, v)
  BY <1>3, <1>6, <1>7, BuiltWeak
<1> HIDE DEF y
<1>9. Items(y) \subseteq Items(t) \cup {}
  BY <1>1, <1>2, <1>3, <1>5, <1>8
<1>10. p.count \in Nat
  BY DEF Payload
<1>11. ASSUME NEW v \in Words PROVE Count(y, v) <= Count(t, v)
  <2>0. v \in Nat
    BY <1>1
  <2>1. CASE v = m.item
    <3>1. v # t.item /\ ~(v < t.item)
      BY <1>1, <1>5, <2>1
    <3>2. Count(t, v) = m.count /\ Count(y, v) = p.count
      BY <1>2, <1>4, <1>5, <1>8, <2>1, <3>1
    <3> QED
      BY <1>5, <3>2
  <2>2. CASE v < m.item
    <3>1. v # m.item
      BY <1>5, <2>0, <2>2
    <3>2. Count(y, v) = Count(a, v) /\ Count(a, v) <= Count(l, v)
      BY <1>3, <1>5, <1>8, <2>2, <3>1
    <3>3. Count(a, v) \in Nat
      BY <1>3, CountAny DEF Weak
    <3>4. Count(l, v) <= Count(t, v)
      <4>1. CASE v < t.item
        <5>1. v # t.item
          BY <1>1, <2>0, <4>1
        <5> QED
          BY <1>4, <4>1, <5>1
      <4>2. CASE ~(v < t.item)
        <5>1. v \notin Items(l)
          BY <1>1, <4>2
        <5>2. Count(l, v) = 0 /\ Count(t, v) \in Nat
          BY <1>4, <5>1
        <5> QED
          BY <5>2
      <4> QED
        BY <4>1, <4>2
    <3>5. Count(l, v) \in Nat /\ Count(t, v) \in Nat
      BY <1>4
    <3> QED
      BY <3>2, <3>3, <3>4, <3>5
  <2>3. CASE v > m.item
    <3>1. v # m.item /\ ~(v < m.item) /\ v # t.item /\ ~(v < t.item)
      BY <1>1, <1>5, <2>0, <2>3
    <3>2. Count(t, v) = Count(r, v) /\ Count(y, v) = Count(b, v) /\ Count(b, v) <= Count(r, v)
      BY <1>3, <1>4, <1>5, <1>8, <3>1
    <3> QED
      BY <3>2
  <2> QED
    BY <1>5, <2>0, <2>1, <2>2, <2>3
<1> QED
  BY <1>8, <1>9, <1>11 DEF Under, AtMost, y

\* The writes on the way to it.
LEMMA CountsAre ==
    ASSUME NEW t, IsNode(t)
    PROVE  /\ CountedOff(t) = Built([item |-> t.item, count |-> t.count - 1, at |-> t.at,
                                     str |-> t.str], t.depth, t.left, t.right)
           /\ \A m, str :
                /\ Copied(t, m, str) = Built([item |-> m.item, count |-> t.count, at |-> t.at,
                                              str |-> str], t.depth, t.left, t.right)
                /\ Counted(t, m, str) = Built([item |-> m.item, count |-> m.count, at |-> t.at,
                                               str |-> str], t.depth, t.left, t.right)
<1>1. CountedOff(t) = Built([item |-> t.item, count |-> t.count - 1, at |-> t.at,
                             str |-> t.str], t.depth, t.left, t.right)
  BY DEF CountedOff, Built, IsNode
<1>2. ASSUME NEW m, NEW str
      PROVE  /\ Copied(t, m, str) = Built([item |-> m.item, count |-> t.count, at |-> t.at,
                                           str |-> str], t.depth, t.left, t.right)
             /\ Counted(t, m, str) = Built([item |-> m.item, count |-> m.count, at |-> t.at,
                                            str |-> str], t.depth, t.left, t.right)
  <2> DEFINE x1 == [t EXCEPT !.item = m.item]
             x2 == [x1 EXCEPT !.str = str]
             x3 == [x2 EXCEPT !.count = m.count]
  <2>1. Copied(t, m, str) = x2
    BY DEF Copied
  <2>2. Counted(t, m, str) = x3
    <3>1. CountMoved(t, m) = m.count
      BY DEF CountMoved
    <3> HIDE DEF x2
    <3> QED
      BY <2>1, <3>1 DEF Counted
  <2>3. x1 = [item |-> m.item, count |-> t.count, depth |-> t.depth, left |-> t.left,
              right |-> t.right, at |-> t.at, str |-> t.str]
    BY DEF IsNode
  <2> HIDE DEF x1
  <2>4. x2 = [item |-> m.item, count |-> t.count, depth |-> t.depth, left |-> t.left,
              right |-> t.right, at |-> t.at, str |-> str]
    BY <2>3
  <2> HIDE DEF x2
  <2>5. x3 = [item |-> m.item, count |-> m.count, depth |-> t.depth, left |-> t.left,
              right |-> t.right, at |-> t.at, str |-> str]
    BY <2>4
  <2> HIDE DEF x3
  <2> QED
    BY <2>1, <2>2, <2>4, <2>5 DEF Built
<1> QED
  BY <1>1, <1>2

\* The trees that remove_node shows keep the order, and hold nothing more than before.
LEMMA RemoveStepsUnder ==
    ASSUME NEW t, Sound(t), NEW w \in Items(t), NEW all \in BOOLEAN, all => Count(t, w) = 1,
           NEW str \in Blocks
    PROVE  \A u \in RemoveSteps(t, w, all, str) : Under(u, t, {}, Delta(t) + 1)
<1> DEFINE P(s) == \A x \in Items(s), every \in BOOLEAN :
                     Sound(s) /\ (every => Count(s, x) = 1)
                       => \A u \in RemoveSteps(s, x, every, str) : Under(u, s, {}, Delta(s) + 1)
           S == {n \in Nat : n <= MaxItems => \A s \in Trees[n] : P(s)}
<1>0. MaxItems \in Nat /\ Tree = Trees[MaxItems] /\ MaxItems \in 0 .. MaxItems
  BY TreeAssumption DEF Tree
<1>1. 0 \in S
  <2>1. \A s \in Trees[0] : s = Nil
    BY TreesAre
  <2>2. Items(Nil) = {}
    BY ItemsAre
  <2> QED
    BY <2>1, <2>2
<1>2. \A n \in 0 .. MaxItems - 1 : n \in S => n + 1 \in S
  <2> SUFFICES ASSUME NEW n \in 0 .. MaxItems - 1, \A s \in Trees[n] : P(s),
                      NEW s \in Trees[n + 1], NEW x \in Items(s), NEW every \in BOOLEAN,
                      Sound(s), every => Count(s, x) = 1,
                      NEW u \in RemoveSteps(s, x, every, str)
               PROVE  Under(u, s, {}, Delta(s) + 1)
    BY <1>0
  <2> DEFINE l == s.left
             r == s.right
             d == Delta(s)
             e == Delta(s) + 1
             G == {y \in Tree : Under(y, s, {}, e)}
  <2>1. s # Nil
    BY ItemsAre
  <2>2. n + 1 \in 0 .. MaxItems /\ (n + 1) - 1 = n /\ n \in 0 .. MaxItems
    BY <1>0
  <2>3. /\ l \in Trees[n] /\ r \in Trees[n] /\ s \in Tree \ {Nil} /\ l \in Tree /\ r \in Tree
        /\ Sound(l) /\ Sound(r) /\ IsNode(s) /\ Payload(s) /\ s.depth \in Nat /\ s.count \in Nat \ {0}
    BY <2>1, <2>2, TreeParts, TreesInTree, SoundParts, NodesAreNodes, NodeParts
  <2>4. /\ Parts(s, l, r)
        /\ Delta(l) \in -1 .. Delta(s) - 1 /\ Delta(r) \in -1 .. Delta(s) - 1
        /\ Delta(s) \in 0 .. MaxItems - 1
    BY <2>1, JoinedAgain
  <2>5. Items(s) = {s.item} \cup Items(l) \cup Items(r)
    BY <2>3, ItemsAre
  <2>6. /\ x \in Words /\ s.item \in Words /\ Words \subseteq Nat /\ x \in Nat /\ s.item \in Nat
    BY <2>3, NodesTyped, NodeParts, TreeAssumption
  <2>7. /\ d \in 0 .. MaxItems - 1 /\ d \in 0 .. MaxItems /\ e \in 0 .. MaxItems /\ d + 1 <= e
        /\ Delta(l) + 1 \in 0 .. MaxItems /\ Delta(l) + 1 <= d
        /\ Delta(r) + 1 \in 0 .. MaxItems /\ Delta(r) + 1 <= d
    BY <1>0, <2>4
  <2>8. /\ AtMost(l, l, {}) /\ AtMost(r, r, {})
        /\ Under(l, l, {}, d) /\ Under(r, r, {}, d) /\ Under(s, s, {}, e)
    <3>1. /\ AtMost(l, l, {}) /\ AtMost(r, r, {})
          /\ Under(l, l, {}, Delta(l) + 1) /\ Under(r, r, {}, Delta(r) + 1)
          /\ Under(s, s, {}, Delta(s) + 1)
      BY <2>3, SoundIsWeak
    <3> QED
      BY <2>3, <2>7, <3>1, UnderMore
  <2>9. \A y \in G : Under(y, s, {}, Delta(s) + 1)
    OBVIOUS
  <2>10. \A y : Under(y, s, {}, e) => y \in G
    BY DEF Under, Weak
  <2>11. RemoveSteps(s, x, every, str) =
           RemoveStepsOver(s, x, every, str, RemoveSteps(l, x, FALSE, str),
                           RemoveSteps(r, x, FALSE, str),
                           RemoveSteps(WithOneCopy[r], FindMin[r].item, TRUE, str))
    BY <2>3, <2>6, RemoveStepsAre
  <2>12. s = Built(s, s.depth, l, r)
    BY <2>3, BuiltIs
  <2>13. /\ \A y : WithLeft(s, y) = Built(s, s.depth, y, r)
         /\ \A y : WithRight(s, y) = Built(s, s.depth, l, y)
    BY <2>3, BuiltIs
  <2> HIDE DEF l, r, d, e, G
  <2>14. ASSUME NEW q, Payload(q), q.item = s.item, q.count <= s.count, NEW j \in Nat,
                NEW y, NEW z, Under(y, l, {}, d), Under(z, r, {}, d)
         PROVE  Built(q, j, y, z) \in G
    <3>1. {v \in {} : v < s.item} = {} /\ {v \in {} : v > s.item} = {}
      OBVIOUS
    <3>2. /\ Under(y, s.left, {v \in {} : v < s.item}, d)
          /\ Under(z, s.right, {v \in {} : v > s.item}, d)
      BY <2>14, <3>1 DEF l, r
    <3>3. {} \in SUBSET Words /\ q.count <= IF s.item \in {} THEN s.count + 1 ELSE s.count
      BY <2>14
    <3>4. Under(Built(q, j, y, z), s, {}, e)
      BY <2>1, <2>7, <2>14, <3>2, <3>3, Around
    <3> QED
      BY <2>10, <3>4
  <2>15. s.count <= s.count
    BY <2>3
  <2>16. CASE x < s.item
    <3> DEFINE m == Removed(l, x, FALSE, str)
    <3>1. u \in {WithLeft(s, v) : v \in RemoveSteps(l, x, FALSE, str)} \cup Settling(WithLeft(s, m))
      BY <2>11, <2>16 DEF RemoveStepsOver, l
    <3>2. x \in Items(l)
      BY <2>4, <2>5, <2>6, <2>16 DEF Parts
    <3>3. P(l)
      BY <2>3
    <3>4. OneLess(m, l, x)
      BY <2>3, <3>2, RemovedSound
    <3>5. \A v \in RemoveSteps(l, x, FALSE, str) : Under(v, l, {}, Delta(l) + 1)
      BY <2>3, <3>2, <3>3
    <3> HIDE DEF m, P
    <3>6. Sound(m) /\ m \in Tree /\ Delta(m) \in Delta(l) - 1 .. Delta(l) /\ Loses(m, l, x)
      BY <3>4 DEF OneLess, Sound
    <3>7. AtMost(m, l, {})
      BY <2>3, <2>8, <3>6, LosingIsLess
    <3>8. Holding(G, s, m, r)
      <4> SUFFICES ASSUME NEW j \in Nat, NEW y, NEW z,
                          Under(y, m, {}, Delta(m) + 1), Under(z, r, {}, Delta(r) + 1)
                   PROVE  Built(s, j, y, z) \in G
        BY DEF Holding
      <4>1. Delta(m) + 1 \in 0 .. MaxItems /\ Delta(m) + 1 <= d
        <5>1. Delta(m) \in -1 .. MaxItems - 1
          BY <3>6, SoundDelta
        <5> QED
          BY <1>0, <2>4, <2>7, <3>6, <5>1
      <4>2. Under(y, l, {}, d) /\ Under(z, r, {}, d)
        BY <2>3, <2>7, <2>8, <3>6, <3>7, <4>1, UnderMore
      <4> QED
        BY <2>3, <2>14, <2>15, <4>2
    <3>9. Within(Settling(WithLeft(s, m)), G)
      <4>1. PICK k \in Nat : k = s.depth
        BY <2>3
      <4>2. WithLeft(s, m) = Built(s, k, m, r)
        BY <2>13, <4>1
      <4> QED
        BY <2>3, <3>6, <3>8, <4>2, SettlingSteps
    <3>10. ASSUME NEW v \in RemoveSteps(l, x, FALSE, str) PROVE WithLeft(s, v) \in G
      <4>1. Under(v, l, {}, d)
        BY <2>3, <2>7, <2>8, <3>5, UnderMore
      <4> QED
        BY <2>3, <2>8, <2>13, <2>14, <2>15, <4>1
    <3> QED
      BY <2>9, <3>1, <3>9, <3>10 DEF Within
  <2>17. CASE x > s.item
    <3> DEFINE m == Removed(r, x, FALSE, str)
    <3>0. ~(x < s.item)
      BY <2>6, <2>17
    <3>1. u \in {WithRight(s, v) : v \in RemoveSteps(r, x, FALSE, str)} \cup Settling(WithRight(s, m))
      BY <2>11, <2>17, <3>0 DEF RemoveStepsOver, r
    <3>2. x \in Items(r)
      BY <2>4, <2>5, <2>6, <2>17 DEF Parts
    <3>3. P(r)
      BY <2>3
    <3>4. OneLess(m, r, x)
      BY <2>3, <3>2, RemovedSound
    <3>5. \A v \in RemoveSteps(r, x, FALSE, str) : Under(v, r, {}, Delta(r) + 1)
      BY <2>3, <3>2, <3>3
    <3> HIDE DEF m, P
    <3>6. Sound(m) /\ m \in Tree /\ Delta(m) \in Delta(r) - 1 .. Delta(r) /\ Loses(m, r, x)
      BY <3>4 DEF OneLess, Sound
    <3>7. AtMost(m, r, {})
      BY <2>3, <2>8, <3>6, LosingIsLess
    <3>8. Holding(G, s, l, m)
      <4> SUFFICES ASSUME NEW j \in Nat, NEW y, NEW z,
                          Under(y, l, {}, Delta(l) + 1), Under(z, m, {}, Delta(m) + 1)
                   PROVE  Built(s, j, y, z) \in G
        BY DEF Holding
      <4>1. Delta(m) + 1 \in 0 .. MaxItems /\ Delta(m) + 1 <= d
        <5>1. Delta(m) \in -1 .. MaxItems - 1
          BY <3>6, SoundDelta
        <5> QED
          BY <1>0, <2>4, <2>7, <3>6, <5>1
      <4>2. Under(y, l, {}, d) /\ Under(z, r, {}, d)
        BY <2>3, <2>7, <2>8, <3>6, <3>7, <4>1, UnderMore
      <4> QED
        BY <2>3, <2>14, <2>15, <4>2
    <3>9. Within(Settling(WithRight(s, m)), G)
      <4>1. PICK k \in Nat : k = s.depth
        BY <2>3
      <4>2. WithRight(s, m) = Built(s, k, l, m)
        BY <2>13, <4>1
      <4> QED
        BY <2>3, <3>6, <3>8, <4>2, SettlingSteps
    <3>10. ASSUME NEW v \in RemoveSteps(r, x, FALSE, str) PROVE WithRight(s, v) \in G
      <4>1. Under(v, r, {}, d)
        BY <2>3, <2>7, <2>8, <3>5, UnderMore
      <4> QED
        BY <2>3, <2>8, <2>13, <2>14, <2>15, <4>1
    <3> QED
      BY <2>9, <3>1, <3>9, <3>10 DEF Within
  <2>18. CASE x = s.item
    <3>0. ~(x < s.item) /\ ~(x > s.item)
      BY <2>6, <2>18
    <3>1. CASE s.count # 1
      <4> DEFINE q == [item |-> s.item, count |-> s.count - 1, at |-> s.at, str |-> s.str]
      <4>1. ~LastCopy(s) /\ ~every
        <5>1. Count(s, x) = s.count
          BY <2>3, <2>6, <2>18, CountIs
        <5> QED
          BY <2>3, <3>1, <5>1 DEF LastCopy
      <4>2. u \in {s} \cup Settling(CountedOff(s))
        BY <2>11, <3>0, <4>1 DEF RemoveStepsOver
      <4>3. CountedOff(s) = Built(q, s.depth, l, r)
        BY <2>3, CountsAre DEF l, r
      <4>4. Payload(q) /\ q.item = s.item /\ q.count <= s.count
        BY <2>3, <3>1 DEF Payload
      <4> HIDE DEF q
      <4>5. Holding(G, q, l, r)
        <5> SUFFICES ASSUME NEW j \in Nat, NEW y, NEW z,
                            Under(y, l, {}, Delta(l) + 1), Under(z, r, {}, Delta(r) + 1)
                     PROVE  Built(q, j, y, z) \in G
          BY DEF Holding
        <5>1. Under(y, l, {}, d) /\ Under(z, r, {}, d)
          BY <2>3, <2>7, <2>8, UnderMore
        <5> QED
          BY <2>14, <4>4, <5>1
      <4>6. Within(Settling(CountedOff(s)), G)
        <5>1. PICK k \in Nat : k = s.depth
          BY <2>3
        <5>2. CountedOff(s) = Built(q, k, l, r)
          BY <4>3, <5>1
        <5> QED
          BY <2>3, <4>5, <5>2, SettlingSteps
      <4> QED
        BY <2>8, <2>9, <4>2, <4>6 DEF Within, e
    <3>2. CASE s.count = 1 /\ ~TwoChildren(s)
      <4>1. LastCopy(s)
        BY <3>2 DEF LastCopy
      <4>2. u = s
        BY <2>11, <3>0, <3>2, <4>1 DEF RemoveStepsOver
      <4> QED
        BY <2>8, <4>2 DEF e
    <3>3. CASE s.count = 1 /\ TwoChildren(s)
      <4> DEFINE m == FindMin[r]
                 one == WithOneCopy[r]
                 o == Removed(one, m.item, TRUE, str)
                 p == [item |-> m.item, count |-> m.count, at |-> s.at, str |-> str]
                 c == [item |-> m.item, count |-> s.count, at |-> s.at, str |-> str]
                 same == Counted(s, m, str)
      <4>1. LastCopy(s)
        BY <3>3 DEF LastCopy
      <4>2. u \in {s, Copied(s, m, str), same} \cup
                  ({WithRight(same, v) : v \in RemoveSteps(one, m.item, TRUE, str)} \cup
                   Settling(WithRight(same, o)))
        BY <2>11, <3>0, <3>3, <4>1 DEF RemoveStepsOver, r
      <4>3. r # Nil
        BY <3>3 DEF TwoChildren, r
      <4>4. one \in Trees[n]
        BY <2>2, <2>3, <4>3, OneCopyTyped
      <4>5. m.item \in Items(r) /\ m.item \in Words /\ m.count = Count(r, m.item) /\ m.count \in Nat \ {0}
        BY <2>3, <4>3, MinIs, NodeParts
      <4>6. /\ Sound(one) /\ Items(one) = Items(r) /\ Delta(one) = Delta(r)
            /\ \A v \in Words : Count(one, v) = IF v = m.item THEN 1 ELSE Count(r, v)
        BY <2>3, <4>3, OneCopyIs
      <4>7. P(one)
        BY <4>4
      <4>8. /\ Copied(s, m, str) = Built(c, s.depth, l, r)
            /\ same = Built(p, s.depth, l, r)
        BY <2>3, CountsAre DEF l, r
      <4>9. /\ Payload(p) /\ p.item = m.item /\ p.count <= m.count
            /\ Payload(c) /\ c.item = m.item /\ c.count <= m.count
        BY <2>3, <3>3, <4>5 DEF Payload
      <4> HIDE DEF one, m, p, c, same, P
      <4>10. Count(one, m.item) = 1
        BY <4>5, <4>6
      <4>11. AtMost(one, r, {}) /\ one \in Tree
        <5>1. \A v \in Words : Count(r, v) \in Nat
          BY <2>3, CountAny
        <5>2. ASSUME NEW v \in Words PROVE Count(one, v) <= Count(r, v)
          BY <4>5, <4>6, <5>1
        <5> QED
          BY <4>6, <5>2 DEF AtMost, Sound
      <4>12. OneLess(o, one, m.item)
        BY <4>5, <4>6, <4>10, RemovedSound
      <4>13. \A v \in RemoveSteps(one, m.item, TRUE, str) : Under(v, one, {}, Delta(r) + 1)
        <5>1. m.item \in Items(one) /\ TRUE \in BOOLEAN
          BY <4>5, <4>6
        <5>2. \A v \in RemoveSteps(one, m.item, TRUE, str) : Under(v, one, {}, Delta(one) + 1)
          BY <4>6, <4>7, <4>10, <5>1 DEF P
        <5> QED
          BY <4>6, <5>2
      <4> HIDE DEF o
      <4>14. Sound(o) /\ o \in Tree /\ Delta(o) \in Delta(r) - 1 .. Delta(r) /\ AtMost(o, r, {})
        <5>1. Sound(o) /\ o \in Tree /\ Delta(o) \in Delta(one) - 1 .. Delta(one) /\ Loses(o, one, m.item)
          BY <4>12 DEF OneLess, Sound
        <5> QED
          BY <2>3, <4>6, <4>11, <5>1, LosingIsLess
      <4>15. ASSUME NEW q, Payload(q), q.item = m.item, q.count <= m.count, NEW j \in Nat,
                    NEW y, NEW z, Under(y, l, {}, d), Under(z, r, {}, d)
             PROVE  Built(q, j, y, z) \in G
        <5>1. /\ Under(y, s.left, {}, d) /\ Under(z, s.right, {}, d) /\ s.right # Nil
              /\ q.item = FindMin[s.right].item /\ q.count <= FindMin[s.right].count
          BY <4>3, <4>15 DEF l, r, m
        <5>2. Under(Built(q, j, y, z), s, {}, e)
          BY <2>1, <2>7, <3>3, <4>15, <5>1, AroundNext
        <5> QED
          BY <2>10, <5>2
      <4>16. Copied(s, m, str) \in G /\ same \in G
        BY <2>3, <2>8, <4>8, <4>9, <4>15
      <4>17. \A v : WithRight(same, v) = Built(p, s.depth, l, v)
        BY <4>8, BuiltIs
      <4>18. ASSUME NEW v \in RemoveSteps(one, m.item, TRUE, str) PROVE WithRight(same, v) \in G
        <5>1. Under(v, r, {}, d)
          BY <2>3, <2>7, <4>11, <4>13, UnderMore
        <5> QED
          BY <2>3, <2>8, <4>9, <4>15, <4>17, <5>1
      <4>19. Holding(G, p, l, o)
        <5> SUFFICES ASSUME NEW j \in Nat, NEW y, NEW z,
                            Under(y, l, {}, Delta(l) + 1), Under(z, o, {}, Delta(o) + 1)
                     PROVE  Built(p, j, y, z) \in G
          BY DEF Holding
        <5>1. Delta(o) + 1 \in 0 .. MaxItems /\ Delta(o) + 1 <= d
          <6>1. Delta(o) \in -1 .. MaxItems - 1
            BY <4>14, SoundDelta
          <6> QED
            BY <1>0, <2>4, <2>7, <4>14, <6>1
        <5>2. Under(y, l, {}, d) /\ Under(z, r, {}, d)
          BY <2>3, <2>7, <2>8, <4>14, <5>1, UnderMore
        <5> QED
          BY <4>9, <4>15, <5>2
      <4>20. Within(Settling(WithRight(same, o)), G)
        <5>1. PICK k \in Nat : k = s.depth
          BY <2>3
        <5>2. WithRight(same, o) = Built(p, k, l, o)
          BY <4>17, <5>1
        <5> QED
          BY <2>3, <4>14, <4>19, <5>2, SettlingSteps
      <4> QED
        BY <2>8, <2>9, <4>2, <4>16, <4>18, <4>20 DEF Within, e
    <3> QED
      BY <3>1, <3>2, <3>3
  <2> QED
    BY <2>6, <2>16, <2>17, <2>18
<1> HIDE DEF S
<1>3. MaxItems \in S
  BY <1>0, <1>1, <1>2, Upwards
<1> QED
  BY <1>0, <1>3 DEF S, Sound

-----------------------------------------------------------------------------
(* Every step keeps the invariant.                                         *)

\* There is a first word in any tree that is not empty.
LEMMA MinTyped == \A t \in Tree \ {Nil} : FindMin[t] \in Tree \ {Nil}
<1> DEFINE S == {t \in Tree : t # Nil => FindMin[t] \in Tree \ {Nil}}
<1>1. Nil \in S
  BY NilParts
<1>2. \A t \in Tree \ {Nil} : t.left \in S /\ t.right \in S => t \in S
  BY FindMinIs
<1> HIDE DEF S
<1>3. Tree \subseteq S
  BY <1>1, <1>2, OverTrees
<1> QED
  BY <1>3 DEF S

\* A word is where a search for it ends.
LEMMA FoundIs ==
    ASSUME WordInv, handle # "died", NEW w \in Words
    PROVE  /\ Find(root, w) # Nil => /\ w \in Items(root) /\ Find(root, w) \in Tree \ {Nil}
                                     /\ Count(root, w) > 0
           /\ Find(root, w) = Nil => w \notin Items(root) /\ Count(root, w) = 0
<1>1. Sound(root) /\ Nodes[root] \subseteq Tree \ {Nil}
  BY NodesTyped DEF WordInv, InOrder, Sound
<1>2. Find(root, w) = Nil <=> w \notin Items(root)
  BY <1>1, FindSound
<1>3. w \in Items(root) => Find(root, w) \in Nodes[root] /\ Count(root, w) \in Nat \ {0}
  BY <1>1, FindSound
<1>4. w \notin Items(root) => Count(root, w) = 0
  BY <1>1, FindSound
<1> QED
  BY <1>1, <1>2, <1>3, <1>4

\* The blocks that are given out are blocks, and freeing leaves a number.
LEMMA BlocksAre ==
    ASSUME WordInv
    PROVE  /\ StateBlock \in Blocks
           /\ \A w \in Words :
                /\ ~Misplaced(NodeBlock) /\ ~Misplaced(WordBlock(w))
                     => Fresh(Node(w, NodeBlock, WordBlock(w)), w)
                /\ AfterMalloc(used, NodeSize) \in Int
                /\ AfterMalloc(WordBlock(w).from, Length[w]) \in Int
           /\ \A n \in Int, t \in Tree \ {Nil} : Freed(n, t) \in Int /\ Freed(n, Victim(t)) \in Int
           /\ AfterMalloc(0, StateSize) \in Int
<1>1. /\ used \in Int /\ NodeSize \in Nat \ {0} /\ StateSize \in Nat \ {0} /\ Overhead \in Nat
      /\ \A w \in Words : Length[w] \in Nat \ {0}
  BY SCMAssumption, TreeAssumption DEF WordInv, TypeOK
<1>2. StateBlock \in Blocks
  BY <1>1, BlockIsOne DEF StateBlock
<1>3. \A n \in Int, s \in Nat \ {0} : AfterMalloc(n, s) \in Int
  BY <1>1 DEF AfterMalloc
<1>4. \A w \in Words : WordBlock(w).from \in Int
  BY <1>1, <1>3 DEF WordBlock, Block
<1>5. ASSUME NEW w \in Words, ~Misplaced(NodeBlock), ~Misplaced(WordBlock(w))
      PROVE  Fresh(Node(w, NodeBlock, WordBlock(w)), w)
  <2>1. NodeBlock \in Blocks
    BY <1>1, <1>5, BlockIsOne DEF NodeBlock
  <2>2. WordBlock(w) \in Blocks
    <3>1. AfterMalloc(used, NodeSize) \in Int
      BY <1>1, <1>3
    <3> QED
      BY <1>1, <1>5, <3>1, BlockIsOne DEF WordBlock
  <2> QED
    BY <2>1, <2>2 DEF Fresh
<1>6. \A n \in Int, b \in Blocks : AfterFree(n, b) \in Int
  BY DEF AfterFree, Blocks
<1>7. \A n \in Int, t \in Tree \ {Nil} : Freed(n, t) \in Int
  BY <1>6, NodeParts DEF Freed
<1>8. \A t \in Tree \ {Nil} : Victim(t) \in Tree \ {Nil}
  BY NodeParts DEF Victim, Child
<1> QED
  BY <1>1, <1>2, <1>3, <1>4, <1>5, <1>7, <1>8

\* The copy of the next word, whose node is then freed.
LEMMA SuccessorIs ==
    ASSUME WordInv, NEW w \in Words, RemovingInner(w)
    PROVE  /\ Successor(w) \in Tree \ {Nil} /\ Length[Successor(w).item] \in Nat \ {0}
           /\ ~Misplaced(CopyBlock(w)) => CopyBlock(w) \in Blocks
           /\ AfterMalloc(used, Length[Successor(w).item]) \in Int
           /\ Find(root, w) \in Tree \ {Nil}
<1>1. Find(root, w) \in Tree \ {Nil}
  BY FoundIs DEF RemovingInner
<1>2. Find(root, w).right \in Tree \ {Nil}
  BY <1>1, NodeParts DEF RemovingInner, TwoChildren
<1>3. Successor(w) \in Tree \ {Nil}
  BY <1>2, MinTyped DEF Successor
<1>4. Length[Successor(w).item] \in Nat \ {0}
  BY <1>3, NodeParts, TreeAssumption
<1>5. used \in Int /\ Overhead \in Nat
  BY SCMAssumption DEF WordInv, TypeOK
<1>6. ~Misplaced(CopyBlock(w)) => CopyBlock(w) \in Blocks
  BY <1>4, <1>5, BlockIsOne DEF CopyBlock
<1>7. AfterMalloc(used, Length[Successor(w).item]) \in Int
  BY <1>4, <1>5 DEF AfterMalloc
<1> QED
  BY <1>1, <1>3, <1>4, <1>6, <1>7

\* A call that is cut short.
LEMMA DyingIs ==
    ASSUME WordInv, NEW w \in Words
    PROVE  /\ InsertDies(w) => /\ handle = "open" /\ handle' = "died" /\ Under(root', root, {w}, MaxItems)
                               /\ items' = 0 /\ unique' = 0 /\ used' = 0 /\ answer' = answer
           /\ RemoveDies(w) => /\ handle = "open" /\ handle' = "died" /\ Under(root', root, {}, MaxItems)
                               /\ items' = 0 /\ unique' = 0 /\ used' = 0 /\ answer' = answer
<1>0. MaxItems \in Nat /\ MaxItems \in 0 .. MaxItems
  BY TreeAssumption
<1>1. ASSUME handle = "open" PROVE Sound(root) /\ Delta(root) \in -1 .. MaxItems - 1
  BY <1>1, SoundDelta DEF WordInv, InOrder
<1>2. ASSUME handle = "open", items < MaxItems, NEW new, Find(root, w) # Nil \/ Fresh(new, w),
             NEW u \in UpdateSteps(root, w, new)
      PROVE  Under(u, root, {w}, MaxItems)
  <2>1. Sound(root) /\ Delta(root) <= MaxItems - 2
    BY <1>2, Room
  <2>2. w \in Items(root) \/ Fresh(new, w)
    BY <1>2, FoundIs
  <2>3. Under(u, root, {w}, Delta(root) + 2)
    BY <1>2, <2>1, <2>2, UpdateStepsUnder
  <2>4. Delta(root) + 2 \in 0 .. MaxItems /\ Delta(root) + 2 <= MaxItems
    BY <1>0, <1>1, <1>2, <2>1
  <2> QED
    BY <1>0, <2>3, <2>4, TreesNest DEF Under
<1>3. ASSUME handle = "open", Find(root, w) # Nil, NEW str \in Blocks,
             NEW u \in RemoveSteps(root, w, FALSE, str)
      PROVE  Under(u, root, {}, MaxItems)
  <2>1. Sound(root) /\ w \in Items(root)
    BY <1>1, <1>3, FoundIs
  <2>2. Under(u, root, {}, Delta(root) + 1)
    BY <1>3, <2>1, RemoveStepsUnder
  <2>3. Delta(root) + 1 \in 0 .. MaxItems /\ Delta(root) + 1 <= MaxItems
    BY <1>0, <1>1, <1>3
  <2> QED
    BY <1>0, <2>2, <2>3, TreesNest DEF Under
<1>4. ASSUME InsertDies(w)
      PROVE  /\ handle = "open" /\ handle' = "died" /\ Under(root', root, {w}, MaxItems)
             /\ items' = 0 /\ unique' = 0 /\ used' = 0 /\ answer' = answer
  <2>1. CASE Find(root, w) # Nil /\ Dies(UpdateSteps(root, w, Nil)) /\ items < MaxItems
    BY <1>2, <2>1 DEF Dies
  <2>2. CASE /\ Inserting(w) /\ ~Misplaced(NodeBlock) /\ ~Misplaced(WordBlock(w))
             /\ Dies(UpdateSteps(root, w, Node(w, NodeBlock, WordBlock(w))))
    <3>1. Fresh(Node(w, NodeBlock, WordBlock(w)), w)
      BY <2>2, BlocksAre
    <3> QED
      BY <1>2, <2>2, <3>1 DEF Dies, Inserting
  <2> QED
    BY <1>4, <2>1, <2>2 DEF InsertDies
<1>5. ASSUME RemoveDies(w)
      PROVE  /\ handle = "open" /\ handle' = "died" /\ Under(root', root, {}, MaxItems)
             /\ items' = 0 /\ unique' = 0 /\ used' = 0 /\ answer' = answer
  <2>1. CASE handle = "open" /\ Find(root, w) # Nil /\ Dies(RemoveSteps(root, w, FALSE, StateBlock))
    BY <1>3, <2>1, BlocksAre DEF Dies
  <2>2. CASE /\ RemovingInner(w) /\ ~Misplaced(CopyBlock(w))
             /\ Dies(RemoveSteps(root, w, FALSE, CopyBlock(w)))
    <3>1. CopyBlock(w) \in Blocks
      BY <2>2, SuccessorIs
    <3> QED
      BY <1>3, <2>2, <3>1 DEF Dies, RemovingInner
  <2> QED
    BY <1>5, <2>1, <2>2 DEF RemoveDies
<1> QED
  BY <1>4, <1>5

\* Every step keeps the invariant.
LEMMA StepsKeep ==
    ASSUME WordInv, [Next]_vars
    PROVE  WordInv'
<1>0. /\ TypeOK /\ (handle # "died" => InOrder) /\ MaxItems \in Nat /\ 0 \in 0 .. MaxItems
  BY TreeAssumption DEF WordInv
<1>1. ASSUME UNCHANGED <<root, items, unique>>, handle' \in {"open", "closed", "clobbered", "crashed"},
             used' \in Int, answer' \in -1 .. 1, handle # "died"
      PROVE  WordInv'
  BY <1>0, <1>1 DEF WordInv, TypeOK, InOrder, CountersAgree, Sound, Local
<1>2. ASSUME root' = Nil, items' = 0, unique' = 0, used' \in Int, answer' \in -1 .. 1,
             handle' \in {"open", "closed", "clobbered", "crashed"}
      PROVE  WordInv'
  <2>1. root' \in Tree /\ InOrder'
    BY <1>2, NothingIsInOrder
  <2> QED
    BY <1>0, <1>2, <2>1 DEF WordInv, TypeOK
<1>3. ASSUME root' \in Tree, InOrder', items' \in 0 .. MaxItems, unique' \in Nat,
             used' \in Int, answer' \in -1 .. 1, handle' = handle
      PROVE  WordInv'
  BY <1>0, <1>3 DEF WordInv, TypeOK
<1>4. used \in Int /\ answer \in -1 .. 1
  BY <1>0 DEF TypeOK
<1>5. ASSUME NEW how \in {"clobbered", "crashed"}, Stop(how) PROVE WordInv'
  BY <1>2, <1>4, <1>5 DEF Stop
<1>6. ASSUME NEW truncate \in {0, 1}, Open(truncate) PROVE WordInv'
  <2> DEFINE inUse == IF truncate = 1 THEN 0 ELSE used
  <2>1. handle = "closed" /\ handle' = "open" /\ answer' = 0
    BY <1>6 DEF Open
  <2>2. CASE inUse = 0
    <3>1. root' = Nil /\ items' = 0 /\ unique' = 0 /\ used' = AfterMalloc(0, StateSize)
      BY <1>6, <2>2 DEF Open
    <3>2. used' \in Int
      BY <3>1, BlocksAre
    <3> QED
      BY <1>2, <2>1, <3>1, <3>2
  <2>3. CASE inUse # 0
    <3>1. UNCHANGED state
      BY <1>6, <2>3 DEF Open
    <3> QED
      BY <1>1, <1>4, <2>1, <3>1 DEF state
  <2> QED
    BY <2>2, <2>3
<1>7. CASE OpenForgets
  BY <1>5, <1>7 DEF OpenForgets
<1>8. CASE Close
  BY <1>1, <1>4, <1>8 DEF Close, state
<1>9. ASSUME NEW w \in Words, InsertAgain(w) PROVE WordInv'
  <2>1. root' \in Tree /\ InOrder' /\ items' \in 0 .. MaxItems /\ unique' \in Nat
    <3>1. /\ handle = "open" /\ items < MaxItems /\ Find(root, w) # Nil
          /\ root' = Updated(root, w, Nil) /\ items' = items + 1 /\ unique' = unique
      BY <1>9 DEF InsertAgain
    <3> QED
      BY <3>1, InsertKeeps
  <2> QED
    BY <1>3, <1>4, <1>9, <2>1 DEF InsertAgain
<1>10. ASSUME NEW w \in Words, InsertNew(w) PROVE WordInv'
  <2>1. root' \in Tree /\ InOrder' /\ items' \in 0 .. MaxItems /\ unique' \in Nat
    <3> DEFINE new == Node(w, NodeBlock, WordBlock(w))
    <3>1. /\ handle = "open" /\ items < MaxItems /\ Find(root, w) = Nil
          /\ root' = Updated(root, w, new) /\ items' = items + 1 /\ unique' = unique + 1
          /\ ~Misplaced(NodeBlock) /\ ~Misplaced(WordBlock(w))
      BY <1>10 DEF InsertNew, Inserting
    <3>2. Fresh(new, w)
      BY <3>1, BlocksAre
    <3> HIDE DEF new
    <3> QED
      BY <3>1, <3>2, InsertKeeps
  <2>2. used' \in Int
    BY <1>10, BlocksAre DEF InsertNew
  <2> QED
    BY <1>3, <1>10, <2>1, <2>2 DEF InsertNew
<1>11. ASSUME NEW w \in Words, InsertFails(w) PROVE WordInv'
  <2>1. used' \in Int
    BY <1>11, BlocksAre DEF InsertFails
  <2> QED
    BY <1>1, <1>11, <2>1 DEF InsertFails, Inserting
<1>12. ASSUME NEW w \in Words, InsertClobbers(w) PROVE WordInv'
  BY <1>5, <1>12 DEF InsertClobbers
<1>13. ASSUME NEW w \in Words, RemoveNothing(w) PROVE WordInv'
  BY <1>1, <1>4, <1>13 DEF RemoveNothing, state
<1>14. ASSUME NEW w \in Words, RemoveSimple(w) PROVE WordInv'
  <2>1. /\ handle = "open" /\ Find(root, w) # Nil
        /\ Forget(w, Removed(root, w, FALSE, StateBlock))
        /\ used' = IF LastCopy(Find(root, w)) THEN Freed(used, Victim(Find(root, w))) ELSE used
    BY <1>14 DEF RemoveSimple
  <2>2. root' \in Tree /\ InOrder' /\ items' \in 0 .. MaxItems /\ unique' \in Nat
    BY <2>1, BlocksAre, RemoveKeeps
  <2>3. used' \in Int
    BY <1>4, <2>1, BlocksAre, FoundIs
  <2> QED
    BY <1>3, <2>1, <2>2, <2>3 DEF Forget
<1>15. ASSUME NEW w \in Words, RemoveInner(w) PROVE WordInv'
  <2>1. /\ handle = "open" /\ Find(root, w) # Nil /\ RemovingInner(w)
        /\ Forget(w, Removed(root, w, FALSE, CopyBlock(w))) /\ ~Misplaced(CopyBlock(w))
        /\ used' = Freed(AfterFree(AfterMalloc(used, Length[Successor(w).item]), Find(root, w).str),
                         Victim(Successor(w)))
    BY <1>15 DEF RemoveInner, RemovingInner
  <2>2. root' \in Tree /\ InOrder' /\ items' \in 0 .. MaxItems /\ unique' \in Nat
    BY <2>1, SuccessorIs, RemoveKeeps
  <2>3. AfterFree(AfterMalloc(used, Length[Successor(w).item]), Find(root, w).str) \in Int
    <3>1. /\ AfterMalloc(used, Length[Successor(w).item]) \in Int
          /\ Find(root, w).str \in Blocks
      BY <2>1, SuccessorIs, NodeParts
    <3> QED
      BY <3>1 DEF AfterFree, Blocks
  <2>4. used' \in Int
    BY <2>1, <2>3, SuccessorIs, BlocksAre
  <2> QED
    BY <1>3, <2>1, <2>2, <2>4 DEF Forget
<1>16. ASSUME NEW w \in Words, RemoveClobbers(w) PROVE WordInv'
  BY <1>5, <1>16 DEF RemoveClobbers
<1>17. ASSUME NEW w \in Words, RemoveCrashes(w) PROVE WordInv'
  BY <1>5, <1>17 DEF RemoveCrashes
<1>18. ASSUME NEW w \in Words, InsertDies(w) \/ RemoveDies(w) PROVE WordInv'
  <2>1. /\ handle' = "died" /\ items' = 0 /\ unique' = 0 /\ used' = 0 /\ answer' = answer
        /\ root' \in Tree
    BY <1>18, DyingIs DEF Under, Weak
  <2> QED
    BY <1>0, <1>4, <2>1 DEF WordInv, TypeOK
<1>19. CASE UNCHANGED vars
  BY <1>0, <1>19 DEF vars, state, WordInv, TypeOK, InOrder, CountersAgree, Sound, Local
<1> QED
  BY <1>6, <1>7, <1>8, <1>9, <1>10, <1>11, <1>12, <1>13, <1>14, <1>15, <1>16, <1>17, <1>18, <1>19
     DEF Next

\* What the theorems follow from.
LEMMA Invariant == Spec => []WordInv
<1>1. Init => WordInv
  <2> SUFFICES ASSUME Init PROVE WordInv
    OBVIOUS
  <2>1. Sound(Nil) /\ Nodes[Nil] = {} /\ Copies[Nil] = 0 /\ Nil \in Tree /\ Cardinality({}) = 0
    BY NilIsSound, NilParts, FS_EmptySet
  <2> QED
    BY <2>1, TreeAssumption DEF Init, WordInv, TypeOK, InOrder, CountersAgree
<1>2. WordInv /\ [Next]_vars => WordInv'
  BY StepsKeep
<1> QED
  BY <1>1, <1>2, PTL DEF Spec

\* Every node of the tree holds a word at least once, and the counters stay in their
\* bounds, whatever was freed or failed, and wherever a call was cut short.
THEOREM TypeCorrect == Spec => []TypeOK
BY Invariant, PTL DEF WordInv

\* The rotations of update and remove_node, and the moving of the next word to an inner
\* node, leave a balanced search tree with right depths.
THEOREM SearchTree == Spec => []IsSearchTree
<1>1. WordInv => IsSearchTree
  <2> SUFFICES ASSUME Sound(root), NEW t \in Nodes[root]
               PROVE  /\ \A s \in Nodes[t.left] : s.item < t.item
                      /\ \A s \in Nodes[t.right] : s.item > t.item
                      /\ t.depth = Depth(t.left, t.right) /\ Balance(t) \in -1 .. 1
    BY DEF WordInv, InOrder, IsSearchTree
  <2>1. Local(t)
    BY DEF Sound
  <2> QED
    BY <2>1 DEF Local, Items
<1> QED
  BY <1>1, Invariant, PTL

\* avl_insert and avl_remove keep the counters of struct state right: the nodes of the
\* tree, and the sum of their counts.
THEOREM Counters == Spec => []CountersAgree
<1>1. WordInv => CountersAgree
  BY DEF WordInv, InOrder, CountersAgree
<1> QED
  BY <1>1, Invariant, PTL

-----------------------------------------------------------------------------
(* The bag of words.                                                       *)

Held == [v \in Words |-> Count(root, v)]

\* Every step of a call that returns is one of the bag's, but for lost insertions.
LEMMA StepsAreOfBag ==
    ASSUME WordInv, Next, handle' \in {"open", "closed"}
    PROVE  Bag!Next \/ \E w \in Words : LostUnheard(w)
<1>0. /\ \A v \in Words : Held[v] = Count(root, v)
      /\ \A v \in Words : Held'[v] = Count(root, v)'
      /\ Held = [v \in Words |-> Held[v]] /\ Held' = [v \in Words |-> Held'[v]]
  BY DEF Held
<1>1. ASSUME UNCHANGED root PROVE Held' = Held
  BY <1>1 DEF Held
<1>2. ASSUME root' = Nil PROVE Held' = Bag!Empty
  <2>1. \A v \in Words : Count(Nil, v) = 0
    BY CountIs
  <2> QED
    BY <1>2, <2>1 DEF Held, Bag!Empty
<1>3. ASSUME NEW how \in {"clobbered", "crashed"}, Stop(how) PROVE FALSE
  BY <1>3 DEF Stop
<1>4. ASSUME NEW w \in Words, \A v \in Words : Count(root, v)' = IF v = w THEN Count(root, v) + 1
                                                                 ELSE Count(root, v),
             answer' = 0
      PROVE  Bag!Insert(w)
  <2>1. Held' = [Held EXCEPT ![w] = @ + 1]
    BY <1>4 DEF Held
  <2> QED
    BY <1>4, <2>1 DEF Held, Bag!Insert
<1>5. ASSUME NEW w \in Words, \A v \in Words : Count(root, v)' = IF v = w THEN Count(root, v) - 1
                                                                 ELSE Count(root, v),
             Count(root, w) > 0, answer' = 0
      PROVE  Bag!Remove(w)
  <2>1. Held' = [Held EXCEPT ![w] = @ - 1]
    BY <1>5 DEF Held
  <2>2. Held[w] > 0
    BY <1>0, <1>5
  <2> QED
    BY <1>5, <2>1, <2>2 DEF Held, Bag!Remove
<1>6. ASSUME NEW truncate \in {0, 1}, Open(truncate) PROVE Bag!Open
  <2> DEFINE inUse == IF truncate = 1 THEN 0 ELSE used
  <2>1. answer' = 0 /\ (inUse # 0 \/ truncate = 1 \/ root = Nil)
    BY <1>6 DEF Open
  <2>2. Held' = IF truncate = 1 THEN Bag!Empty ELSE Held
    <3>1. CASE inUse = 0
      <4>1. root' = Nil
        BY <1>6, <3>1 DEF Open
      <4>2. truncate # 1 => root = Nil
        BY <2>1, <3>1
      <4> QED
        BY <1>1, <1>2, <4>1, <4>2
    <3>2. CASE inUse # 0
      <4>1. UNCHANGED root /\ truncate # 1
        BY <1>6, <3>2 DEF Open, state
      <4> QED
        BY <1>1, <4>1
    <3> QED
      BY <3>1, <3>2
  <2> QED
    BY <2>1, <2>2 DEF Bag!Open, Held
<1>7. ASSUME OpenForgets PROVE FALSE
  BY <1>3, <1>7 DEF OpenForgets
<1>8. ASSUME Close PROVE Bag!Close
  <2>1. answer' = 0 /\ Held' = Held
    BY <1>1, <1>8 DEF Close, state
  <2> QED
    BY <2>1 DEF Bag!Close, Held
<1>9. ASSUME NEW w \in Words, InsertAgain(w) PROVE Bag!Insert(w)
  <2>1. /\ handle = "open" /\ items < MaxItems /\ Find(root, w) # Nil
        /\ root' = Updated(root, w, Nil) /\ items' = items + 1 /\ unique' = unique /\ answer' = 0
    BY <1>9 DEF InsertAgain
  <2>2. \A v \in Words : Count(root', v) = IF v = w THEN Count(root, v) + 1 ELSE Count(root, v)
    BY <2>1, InsertKeeps
  <2>3. \A v \in Words : Count(root, v)' = Count(root', v)
    BY DEF Count, Find
  <2> QED
    BY <1>4, <2>1, <2>2, <2>3
<1>10. ASSUME NEW w \in Words, InsertNew(w) PROVE Bag!Insert(w)
  <2> DEFINE new == Node(w, NodeBlock, WordBlock(w))
  <2>1. /\ handle = "open" /\ items < MaxItems /\ Find(root, w) = Nil
        /\ root' = Updated(root, w, new) /\ items' = items + 1 /\ unique' = unique + 1
        /\ ~Misplaced(NodeBlock) /\ ~Misplaced(WordBlock(w)) /\ answer' = 0
    BY <1>10 DEF InsertNew, Inserting
  <2>2. Fresh(new, w)
    BY <2>1, BlocksAre
  <2> HIDE DEF new
  <2>3. \A v \in Words : Count(root', v) = IF v = w THEN Count(root, v) + 1 ELSE Count(root, v)
    BY <2>1, <2>2, InsertKeeps
  <2>4. \A v \in Words : Count(root, v)' = Count(root', v)
    BY DEF Count, Find
  <2> QED
    BY <1>4, <2>1, <2>3, <2>4
<1>11. ASSUME NEW w \in Words, InsertFails(w) PROVE Bag!InsertFails(w) \/ LostUnheard(w)
  <2>1. /\ ~WordFits(w) /\ Find(root, w) = Nil /\ handle = "open"
        /\ root' = root /\ answer' = IF root = Nil THEN -1 ELSE 0
    BY <1>11 DEF InsertFails, Inserting
  <2>2. Count(root, w) = 0 /\ Held' = Held
    BY <1>1, <2>1, FoundIs
  <2>3. CASE root = Nil
    <3>1. w \in {v \in Words : ~WordFits(v)} /\ answer' = -1 /\ Held[w] = 0
      BY <1>0, <2>1, <2>2, <2>3
    <3> QED
      BY <2>2, <3>1 DEF Bag!InsertFails, Held
  <2>4. CASE root # Nil
    <3>1. \A v \in Words : Count(root', v) = Count(root, v)
      BY <2>1
    <3> QED
      BY <2>1, <2>2, <2>4, <3>1 DEF LostUnheard
  <2> QED
    BY <2>3, <2>4
<1>12. ASSUME NEW w \in Words, InsertClobbers(w) PROVE FALSE
  BY <1>3, <1>12 DEF InsertClobbers
<1>13. ASSUME NEW w \in Words, RemoveNothing(w) PROVE Bag!RemoveNothing(w)
  <2>1. handle = "open" /\ Find(root, w) = Nil /\ answer' = 1 /\ UNCHANGED root
    BY <1>13 DEF RemoveNothing, state
  <2>2. Held[w] = 0 /\ Held' = Held
    BY <1>0, <1>1, <2>1, FoundIs
  <2> QED
    BY <2>1, <2>2 DEF Bag!RemoveNothing, Held
<1>14. ASSUME NEW w \in Words, handle = "open", Find(root, w) # Nil, NEW str \in Blocks,
              Forget(w, Removed(root, w, FALSE, str))
       PROVE  Bag!Remove(w)
  <2>1. /\ \A v \in Words : Count(root', v) = IF v = w THEN Count(root, v) - 1 ELSE Count(root, v)
        /\ Count(root, w) > 0
    BY <1>14, RemoveKeeps
  <2>2. \A v \in Words : Count(root, v)' = Count(root', v)
    BY DEF Count, Find
  <2>3. answer' = 0
    BY <1>14 DEF Forget
  <2> QED
    BY <1>5, <2>1, <2>2, <2>3
<1>15. ASSUME NEW w \in Words, RemoveSimple(w) PROVE Bag!Remove(w)
  BY <1>14, <1>15, BlocksAre DEF RemoveSimple
<1>16. ASSUME NEW w \in Words, RemoveInner(w) PROVE Bag!Remove(w)
  <2>1. CopyBlock(w) \in Blocks
    BY <1>16, SuccessorIs DEF RemoveInner
  <2> QED
    BY <1>14, <1>16, <2>1 DEF RemoveInner, RemovingInner
<1>17. ASSUME NEW w \in Words, RemoveClobbers(w) \/ RemoveCrashes(w) PROVE FALSE
  BY <1>3, <1>17 DEF RemoveClobbers, RemoveCrashes
<1>18. ASSUME NEW w \in Words, InsertDies(w) \/ RemoveDies(w) PROVE FALSE
  BY <1>18, DyingIs
<1> QED
  BY <1>6, <1>7, <1>8, <1>9, <1>10, <1>11, <1>12, <1>13, <1>15, <1>16, <1>17, <1>18
     DEF Next, Bag!Next

\* Every call of p3/avl.c does to the words, and answers, what WordBag says, until
\* scm_malloc has given away memory in use or a NULL word is compared.  The exception
\* is named in the property: an insertion into a tree with words that finds no memory
\* changes nothing, but answers 0.
THEOREM TreeIsBag == Spec => RefinesWordBag
<1>1. Init => Bag!Init
  <2> SUFFICES ASSUME Init PROVE Bag!Init
    OBVIOUS
  <2>1. \A v \in Words : Count(Nil, v) = 0
    BY CountIs
  <2>2. root = Nil /\ answer = 0
    BY DEF Init
  <2> QED
    BY <2>1, <2>2 DEF Bag!Init, Bag!Empty
<1>2. WordInv /\ [Next]_vars => [handle' \in {"open", "closed"} =>
                                        Bag!Next \/ \E w \in Words : LostUnheard(w)]_<<vars>>
  BY StepsAreOfBag
<1> QED
  BY <1>1, <1>2, Invariant, PTL DEF Spec, RefinesWordBag

\* A process killed in avl_insert or avl_remove, with a rotation or the copying of the
\* next word under way, leaves a tree that is in order, in which a search finds no word
\* more often than before, but for the one inserted, once more.
THEOREM DeathIsOrderly == Spec => DeathLeavesOrder
<1> DEFINE More == {w \in Words : Count(root', w) > Count(root, w)}
           Orderly == /\ \A t \in Nodes[root'] :
                           /\ \A s \in Nodes[t.left]  : s.item < t.item
                           /\ \A s \in Nodes[t.right] : s.item >= t.item
                      /\ Cardinality(More) <= 1
                      /\ \A w \in More : Count(root', w) = Count(root, w) + 1
<1>1. ASSUME WordInv, [Next]_vars, Dying PROVE Orderly
  <2>1. PICK w \in Words : InsertDies(w) \/ RemoveDies(w)
    <3>1. Next
      BY <1>1 DEF Dying, vars
    <3>2. \A how \in {"clobbered", "crashed"} : ~Stop(how)
      BY <1>1 DEF Dying, Stop
    <3> QED
      BY <1>1, <3>1, <3>2
         DEF Next, Dying, Open, OpenForgets, Close, InsertAgain, InsertNew, InsertFails,
             InsertClobbers, RemoveNothing, RemoveSimple, RemoveInner, Forget, RemoveClobbers,
             RemoveCrashes
  <2>2. PICK W \in SUBSET {w} : Under(root', root, W, MaxItems)
    BY <2>1, <1>1, DyingIs
  <2>3. Weak(root') /\ AtMost(root', root, W) /\ root' \in Tree /\ root \in Tree
    BY <1>1, <2>2 DEF Under, Weak, WordInv, TypeOK
  <2>4. \A t \in Nodes[root'] : /\ \A s \in Nodes[t.left]  : s.item < t.item
                                /\ \A s \in Nodes[t.right] : s.item >= t.item
    BY <2>3 DEF Weak, Items
  <2>5. \A v \in Words : Count(root', v) \in Nat /\ Count(root, v) \in Nat
    BY <2>3, CountAny
  <2>6. ASSUME NEW v \in More PROVE v = w /\ Count(root', v) = Count(root, v) + 1
    <3>1. Count(root', v) <= IF v \in W THEN Count(root, v) + 1 ELSE Count(root, v)
      BY <2>3 DEF AtMost
    <3> QED
      BY <2>2, <2>5, <3>1
  <2>7. Cardinality(More) <= 1
    <3>1. More = {} \/ More = {w}
      BY <2>6
    <3>2. Cardinality({}) = 0 /\ Cardinality({w}) = 1
      BY FS_EmptySet, FS_Singleton
    <3> QED
      BY <3>1, <3>2
  <2> QED
    BY <2>4, <2>6, <2>7
<1>2. WordInv /\ [Next]_vars => [Dying => Orderly]_vars
  BY <1>1
<1> QED
  BY <1>2, Invariant, PTL DEF Spec, DeathLeavesOrder

=============================================================================
