------------------------------ MODULE WordTree ------------------------------
(***************************************************************************)
(* p3/avl.c over p3/scm.c: an AVL tree of words with counts in a mapped    *)
(* file.                                                                   *)
(*                                                                         *)
(* Words are numbers, in the order of strcmp.  A tree is a value, Nil or a *)
(* node with its subtrees, because no node is in two places.  Each node    *)
(* has the block it is in and the block of its string: freeing does not    *)
(* touch a block's contents, so a tree that uses a freed block is as good  *)
(* as before until scm_malloc gives the block away.  Then the run is over: *)
(* handle = "clobbered".                                                   *)
(*                                                                         *)
(* The program is sequential: a call is an action.  But the mapping keeps  *)
(* every write, so a process killed in a call leaves the tree of that      *)
(* moment (handle = "died").  Writes are taken in the order of the source, *)
(* and only those matter that the root leads to.                           *)
(***************************************************************************)
EXTENDS SCM, FiniteSets

CONSTANTS Words,
          Length,      \* bytes of each word with its NUL
          NodeSize,    \* sizeof (struct node)
          StateSize,   \* sizeof (struct state)
          MaxItems     \* bound: insertions not removed again

ASSUME TreeAssumption ==
  /\ Words \subseteq Nat /\ IsFiniteSet(Words) /\ Length \in [Words -> Nat \ {0}]
  /\ NodeSize \in Nat \ {0} /\ StateSize \in Nat \ {0}
  /\ Overhead + StateSize <= Capacity
  /\ MaxItems \in Nat

VARIABLES handle,      \* "open", "closed", "clobbered", "crashed", "died"
          root, items, unique, \* struct state
          used,        \* size.utilized
          answer       \* what the last call returned

state == <<root, items, unique, used>>
vars  == <<handle, state, answer>>

Nil == <<>>

Blocks == [from : Nat, size : Nat \ {0}]

\* Trees of at most n levels, and those that the bound leaves room for.
Trees[n \in 0 .. MaxItems] ==
  IF n = 0 THEN {Nil}
  ELSE {Nil} \cup [item : Words, count : Nat \ {0}, depth : Nat,
                   left : Trees[n - 1], right : Trees[n - 1],
                   at : Blocks, str : Blocks]

Tree == Trees[MaxItems]

\* Mutant: the count that memset leaves.
NodeUncounted(w, at, str) == [item |-> w, count |-> 0, depth |-> 0, left |-> Nil, right |-> Nil,
                              at |-> at, str |-> str]

Node(w, at, str) == [item |-> w, count |-> 1, depth |-> 0, left |-> Nil, right |-> Nil,
                     at |-> at, str |-> str]

-----------------------------------------------------------------------------
(* Depths and rotations.                                                   *)

Delta(t)   == IF t = Nil THEN -1 ELSE t.depth
Balance(t) == Delta(t.left) - Delta(t.right)
Depth(a, b) == IF Delta(a) > Delta(b) THEN Delta(a) + 1 ELSE Delta(b) + 1
WithDepth(t) == [t EXCEPT !.depth = Depth(t.left, t.right)]

RotateRight(t) ==
  WithDepth([t.left EXCEPT !.right = WithDepth([t EXCEPT !.left = t.left.right])])

RotateLeft(t) ==
  WithDepth([t.right EXCEPT !.left = WithDepth([t EXCEPT !.right = t.right.left])])

RotateLeftRightOnce(t) == RotateRight(t)

RotateLeftRight(t) == RotateRight([t EXCEPT !.left = RotateLeft(@)])
RotateRightLeft(t) == RotateLeft([t EXCEPT !.right = RotateRight(@)])

-----------------------------------------------------------------------------
(* Searching.                                                              *)

Nodes[t \in Tree] ==
  IF t = Nil THEN {} ELSE {t} \cup Nodes[t.left] \cup Nodes[t.right]

\* The node of w that avl_exists comes to, or Nil.
Find(t, w) ==
  LET F[s \in Tree] == IF s = Nil \/ w = s.item THEN s
                       ELSE F[IF w < s.item THEN s.left ELSE s.right]
  IN F[t]

\* avl_exists.
Count(t, w) == IF Find(t, w) = Nil THEN 0 ELSE Find(t, w).count

FindMin[t \in Tree \ {Nil}] == IF t.left = Nil THEN t ELSE FindMin[t.left]

-----------------------------------------------------------------------------
(* update: the tree with w once more; new is the node for it, or Nil.      *)

Updated(tree, w, new) ==
  LET U[t \in Tree] ==
        IF t = Nil THEN new
        ELSE IF w = t.item THEN WithDepth([t EXCEPT !.count = @ + 1])
        ELSE IF w < t.item
          THEN LET s == [t EXCEPT !.left = U[@]]
               IN WithDepth(IF Balance(s) \in -1 .. 1 THEN s
                            ELSE IF w < s.left.item THEN RotateRight(s) ELSE RotateLeftRight(s))
          ELSE LET s == [t EXCEPT !.right = U[@]]
               IN WithDepth(IF Balance(s) \in -1 .. 1 THEN s
                            ELSE IF w > s.right.item THEN RotateLeft(s) ELSE RotateRightLeft(s))
  IN U[tree]

-----------------------------------------------------------------------------
(* remove_node.                                                            *)

LastCopy(t) == t.count <= 1

TwoChildren(t) == t.left # Nil /\ t.right # Nil

\* The child that takes the place of a node with at most one.
Child(t) == IF t.left # Nil THEN t.left ELSE t.right

CountKept(t, min) == t.count

CountMoved(t, min) == min.count

Rebalanced(t) ==
  IF Balance(t) > 1 THEN IF Balance(t.left) >= 0 THEN RotateRight(t) ELSE RotateLeftRight(t)
  ELSE IF Balance(t) < -1 THEN IF Balance(t.right) <= 0 THEN RotateLeft(t) ELSE RotateRightLeft(t)
  ELSE t

\* temp->count = 1, so that the node goes although remove_node is told to remove
\* only one wherever it is further down.
WithOneCopy[t \in Tree \ {Nil}] ==
  IF t.left = Nil THEN [t EXCEPT !.count = 1] ELSE [t EXCEPT !.left = WithOneCopy[@]]

\* The tree without one w, or, if all, without any; str is where a string that
\* moves is copied to.
Removed(tree, word, every, str) ==
  LET R[t \in Tree] == [w \in Words |-> [all \in BOOLEAN |->
        IF t = Nil THEN Nil
        ELSE LET s == IF w < t.item THEN [t EXCEPT !.left = R[@][w][FALSE]]
                      ELSE IF w > t.item THEN [t EXCEPT !.right = R[@][w][FALSE]]
                      ELSE IF ~LastCopy(t) /\ ~all THEN [t EXCEPT !.count = @ - 1]
                      ELSE IF ~TwoChildren(t) THEN Child(t)
                      ELSE LET min == FindMin[t.right]
                           IN [t EXCEPT !.item = min.item, !.str = str,
                                        !.count = CountMoved(t, min),
                                        !.right = R[WithOneCopy[t.right]][min.item][TRUE]]
             IN IF s = Nil THEN Nil ELSE Rebalanced(WithDepth(s))]]
  IN R[tree][word][every]

-----------------------------------------------------------------------------
(* The trees that the same call shows on its way, from the old one on, in  *)
(* the order of its writes.  A subtree's new root is linked when its       *)
(* function has returned; what it wrote before into the old one shows.     *)

\* Mutant: root->right is written first, and leads back to the node.
RightStepsCyclic(t) ==
  LET twice == [t EXCEPT !.left.right = WithDepth([t EXCEPT !.left = t.left.right])]
  IN  {t, twice}

RotateRightSteps(t) ==
  LET cut == [t EXCEPT !.left = t.left.right] IN {t, cut, WithDepth(cut)}

RotateLeftSteps(t) ==
  LET cut == [t EXCEPT !.right = t.right.left] IN {t, cut, WithDepth(cut)}

RotateLeftRightSteps(t) ==
  {[t EXCEPT !.left = s] : s \in RotateLeftSteps(t.left)}
    \cup RotateRightSteps([t EXCEPT !.left = RotateLeft(@)])

RotateRightLeftSteps(t) ==
  {[t EXCEPT !.right = s] : s \in RotateRightSteps(t.right)}
    \cup RotateLeftSteps([t EXCEPT !.right = RotateRight(@)])

UpdateSteps(tree, w, new) ==
  LET S[t \in Tree] ==
        IF t = Nil THEN {Nil}
        ELSE IF w = t.item THEN {t, [t EXCEPT !.count = @ + 1]}
        ELSE IF w < t.item
          THEN LET s == [t EXCEPT !.left = Updated(@, w, new)]
               IN {[t EXCEPT !.left = u] : u \in S[t.left]} \cup
                  (IF Balance(s) \in -1 .. 1 THEN {s, WithDepth(s)}
                   ELSE IF w < s.left.item THEN RotateRightSteps(s) ELSE RotateLeftRightSteps(s))
          ELSE LET s == [t EXCEPT !.right = Updated(@, w, new)]
               IN {[t EXCEPT !.right = u] : u \in S[t.right]} \cup
                  (IF Balance(s) \in -1 .. 1 THEN {s, WithDepth(s)}
                   ELSE IF w > s.right.item THEN RotateLeftSteps(s) ELSE RotateRightLeftSteps(s))
  IN S[tree]

RebalanceSteps(t) ==
  {t} \cup
  (IF Balance(t) > 1
     THEN IF Balance(t.left) >= 0 THEN RotateRightSteps(t) ELSE RotateLeftRightSteps(t)
   ELSE IF Balance(t) < -1
     THEN IF Balance(t.right) <= 0 THEN RotateLeftSteps(t) ELSE RotateRightLeftSteps(t)
   ELSE {})

\* A node with one child shows nothing: it is by-passed by its parent in the end.
RemoveSteps(tree, word, every, str) ==
  LET S[t \in Tree] == [w \in Words |-> [all \in BOOLEAN |->
        IF t = Nil THEN {Nil}
        ELSE LET After(s) == {s} \cup RebalanceSteps(WithDepth(s))
                 OnLeft(u, v)  == {[t EXCEPT !.left = x] : x \in u} \cup After([t EXCEPT !.left = v])
                 OnRight(b, u, v) == {[b EXCEPT !.right = x] : x \in u} \cup After([b EXCEPT !.right = v])
             IN IF w < t.item
                  THEN OnLeft(S[t.left][w][FALSE], Removed(t.left, w, FALSE, str))
                ELSE IF w > t.item
                  THEN OnRight(t, S[t.right][w][FALSE], Removed(t.right, w, FALSE, str))
                ELSE IF ~LastCopy(t) /\ ~all THEN {t} \cup After([t EXCEPT !.count = @ - 1])
                ELSE IF ~TwoChildren(t) THEN {t}
                ELSE LET min  == FindMin[t.right]
                         copy == [t EXCEPT !.item = min.item, !.str = str]
                         same == [copy EXCEPT !.count = CountMoved(t, min)]
                         one  == WithOneCopy[t.right]
                     IN {t, copy, same} \cup
                        OnRight(same, S[one][min.item][TRUE], Removed(one, min.item, TRUE, str))]]
  IN S[tree][word][every]

-----------------------------------------------------------------------------
(* Memory.                                                                 *)

StateBlock == Block(0, StateSize)

\* What may not be given away: the state, the nodes and the words in the tree.
Live == {StateBlock} \cup UNION {{t.at, t.str} : t \in Nodes[root]}

Misplaced(b) == ~InFile(b) \/ \E c \in Live : Overlap(b, c)

\* The node whose blocks are freed for t: the child, not t, if there is one.
Victim(t) == IF Child(t) = Nil THEN t ELSE Child(t)

Freed(n, t) == AfterFree(AfterFree(n, t.str), t.at)

\* What is in the file then is not followed any more.
Stop(how) == /\ handle' = how
             /\ root' = Nil /\ items' = 0 /\ unique' = 0 /\ used' = 0
             /\ UNCHANGED answer

-----------------------------------------------------------------------------
(* The calls.                                                              *)

Init ==
  /\ handle = "closed"
  /\ root = Nil /\ items = 0 /\ unique = 0 /\ used = 0
  /\ answer = 0

\* With no byte in use, as in a new file or if told so, a new state is made.
Open(truncate) ==
  LET inUse == IF truncate = 1 THEN 0 ELSE used
  IN /\ handle = "closed"
     /\ inUse # 0 \/ truncate = 1 \/ root = Nil
     /\ handle' = "open" /\ answer' = 0
     /\ IF inUse = 0
          THEN root' = Nil /\ items' = 0 /\ unique' = 0 /\ used' = AfterMalloc(0, StateSize)
          ELSE UNCHANGED state

\* So many bytes were freed, some twice, that none seems to be in use.
OpenForgets == handle = "closed" /\ used = 0 /\ root # Nil /\ Stop("clobbered")

Close ==
  /\ handle = "open"
  /\ handle' = "closed" /\ answer' = 0
  /\ UNCHANGED state

InsertAgain(w) ==
  /\ handle = "open" /\ Find(root, w) # Nil /\ items < MaxItems
  /\ root' = Updated(root, w, Nil) /\ items' = items + 1
  /\ answer' = 0
  /\ UNCHANGED <<handle, unique, used>>

\* The blocks that a new node and its word get, as far as there is room.
NodeBlock    == Block(used, NodeSize)
WordBlock(w) == Block(AfterMalloc(used, NodeSize), Length[w])
NodeFits     == Fits(used, NodeSize)
WordFits(w)  == NodeFits /\ Fits(AfterMalloc(used, NodeSize), Length[w])

Inserting(w) == handle = "open" /\ Find(root, w) = Nil /\ items < MaxItems

InsertNew(w) ==
  /\ Inserting(w) /\ WordFits(w)
  /\ ~Misplaced(NodeBlock) /\ ~Misplaced(WordBlock(w))
  /\ root' = Updated(root, w, Node(w, NodeBlock, WordBlock(w)))
  /\ items' = items + 1 /\ unique' = unique + 1
  /\ used' = AfterMalloc(WordBlock(w).from, Length[w])
  /\ answer' = 0
  /\ UNCHANGED handle

\* update returns NULL, which avl_insert notices only if the tree was empty.  A
\* node that got its block keeps it.
InsertFails(w) ==
  /\ Inserting(w) /\ ~WordFits(w)
  /\ NodeFits => ~Misplaced(NodeBlock)
  /\ used' = AfterMalloc(used, NodeSize)
  /\ answer' = IF root = Nil THEN -1 ELSE 0
  /\ UNCHANGED <<handle, root, items, unique>>

\* What scm_malloc gives is in use, or is not in the file.
InsertClobbers(w) ==
  /\ Inserting(w)
  /\ \/ NodeFits /\ Misplaced(NodeBlock)
     \/ WordFits(w) /\ Misplaced(WordBlock(w))
  /\ Stop("clobbered")

RemoveNothing(w) ==
  /\ handle = "open" /\ Find(root, w) = Nil
  /\ answer' = 1
  /\ UNCHANGED <<handle, state>>

UniqueAlwaysLess(w, tree) == unique - 1

UniqueAfter(w, tree) == IF Find(tree, w) = Nil THEN unique - 1 ELSE unique

\* The end of avl_remove.
Forget(w, tree) ==
  /\ root' = tree /\ items' = items - 1 /\ unique' = UniqueAfter(w, tree)
  /\ answer' = 0
  /\ UNCHANGED handle

RemoveSimple(w) ==
  LET t == Find(root, w)
  IN /\ handle = "open" /\ t # Nil
     /\ ~LastCopy(t) \/ ~TwoChildren(t)
     /\ Forget(w, Removed(root, w, FALSE, StateBlock))
     /\ used' = IF LastCopy(t) THEN Freed(used, Victim(t)) ELSE used

RemovingInner(w) == /\ handle = "open" /\ Find(root, w) # Nil
                    /\ LastCopy(Find(root, w)) /\ TwoChildren(Find(root, w))

Successor(w) == FindMin[Find(root, w).right]
CopyFits(w)  == Fits(used, Length[Successor(w).item])
CopyBlock(w) == Block(used, Length[Successor(w).item])

\* The node gets a copy of the next word, whose own node is removed.
RemoveInner(w) ==
  /\ RemovingInner(w) /\ CopyFits(w) /\ ~Misplaced(CopyBlock(w))
  /\ Forget(w, Removed(root, w, FALSE, CopyBlock(w)))
  /\ used' = Freed(AfterFree(AfterMalloc(used, Length[Successor(w).item]), Find(root, w).str),
                   Victim(Successor(w)))

RemoveClobbers(w) == /\ RemovingInner(w) /\ CopyFits(w) /\ Misplaced(CopyBlock(w))
                     /\ Stop("clobbered")

\* No room for the copy: the node's word is NULL, and avl_exists compares with it.
RemoveCrashes(w) == RemovingInner(w) /\ ~CopyFits(w) /\ Stop("crashed")

\* The process is killed in a call that changes the tree; the last write, of
\* state->root, makes the tree the new one.
Dies(steps) ==
  /\ handle = "open" /\ handle' = "died"
  /\ root' \in steps
  /\ items' = 0 /\ unique' = 0 /\ used' = 0
  /\ UNCHANGED answer

InsertDies(w) ==
  /\ items < MaxItems
  /\ \/ Find(root, w) # Nil /\ Dies(UpdateSteps(root, w, Nil))
     \/ /\ Inserting(w) /\ WordFits(w)
        /\ ~Misplaced(NodeBlock) /\ ~Misplaced(WordBlock(w))
        /\ Dies(UpdateSteps(root, w, Node(w, NodeBlock, WordBlock(w))))

RemoveDies(w) ==
  \/ /\ handle = "open" /\ Find(root, w) # Nil
     /\ ~LastCopy(Find(root, w)) \/ ~TwoChildren(Find(root, w))
     /\ Dies(RemoveSteps(root, w, FALSE, StateBlock))
  \/ /\ RemovingInner(w) /\ CopyFits(w) /\ ~Misplaced(CopyBlock(w))
     /\ Dies(RemoveSteps(root, w, FALSE, CopyBlock(w)))

Next ==
  \/ \E truncate \in {0, 1} : Open(truncate)
  \/ OpenForgets \/ Close
  \/ \E w \in Words :
       \/ InsertAgain(w) \/ InsertNew(w) \/ InsertFails(w) \/ InsertClobbers(w)
       \/ RemoveNothing(w) \/ RemoveSimple(w) \/ RemoveInner(w)
       \/ RemoveClobbers(w) \/ RemoveCrashes(w)
       \/ InsertDies(w) \/ RemoveDies(w)

Spec == Init /\ [][Next]_vars

-----------------------------------------------------------------------------
(* Properties.                                                             *)

\* Every node of the tree holds a word at least once, and the counters stay in
\* their bounds, whatever was freed or failed.
TypeOK ==
  /\ handle \in {"open", "closed", "clobbered", "crashed", "died"}
  /\ root \in Tree
  /\ items \in 0 .. MaxItems /\ unique \in Nat /\ used \in Int
  /\ answer \in -1 .. 1

\* After any insertions and removals, those of inner nodes and of the last copy
\* among them, every node parts the words of its subtrees, and depths are right
\* and differ by one at most: strcmp leads to each word, soon.
IsSearchTree ==
  handle # "died" => \A t \in Nodes[root] :
    /\ \A s \in Nodes[t.left] : s.item < t.item
    /\ \A s \in Nodes[t.right] : s.item > t.item
    /\ t.depth = Depth(t.left, t.right) /\ Balance(t) \in -1 .. 1

\* How many words are in a tree, each counted as often as it was inserted.
Copies[t \in Tree] ==
  IF t = Nil THEN 0 ELSE t.count + Copies[t.left] + Copies[t.right]

\* The counters of the state say what is in the tree, also when an allocation
\* failed on the way and when the file was closed and opened.
CountersAgree == handle # "died" =>
  /\ unique = Cardinality(Nodes[root])
  /\ items = Copies[root]

Dying == handle = "open" /\ handle' = "died"

\* Killed anywhere in a call, rotations and the copying of a successor among the
\* places (avl.c:53-56, 285-291), the program leaves a tree without a cycle in
\* which the words are in order: a search comes to each of them, and finds it no
\* more often than before, but for the one inserted.  Words may be gone, with the
\* subtree that a rotation had in hand, and the copied one may be listed twice.
DeathLeavesOrder ==
  [][Dying =>
       /\ \A t \in Nodes[root'] :
            /\ \A s \in Nodes[t.left]  : s.item < t.item
            /\ \A s \in Nodes[t.right] : s.item >= t.item
       /\ LET More == {w \in Words : Count(root', w) > Count(root, w)}
          IN  /\ Cardinality(More) <= 1
              /\ \A w \in More : Count(root', w) = Count(root, w) + 1]_vars

Bag == INSTANCE WordBag WITH
         bag  <- [w \in Words |-> Count(root, w)],
         full <- {w \in Words : ~WordFits(w)}

\* What is not as it should be: an insertion into a tree that has words finds no
\* memory, and answers 0 as if it had been made (avl.c:216-222).
LostUnheard(w) ==
  /\ root # Nil /\ Count(root, w) = 0 /\ ~WordFits(w)
  /\ \A v \in Words : Count(root', v) = Count(root, v)
  /\ answer' = 0

\* Every call does to the words, and answers, what it should, but for insertions that
\* are LostUnheard, until scm_malloc has given away memory in use or a NULL word is
\* compared.  A removal never loses another word, and a failed insertion none.
RefinesWordBag ==
  Bag!Init /\ [][handle' \in {"open", "closed"} =>
                    Bag!Next \/ \E w \in Words : LostUnheard(w)]_<<vars>>

-----------------------------------------------------------------------------
(* What the comments of scm.c say, and the code does not do.               *)

\* scm_malloc is "Analogous to the standard C malloc function", scm.c:189: what it
\* gives nobody else has.
BlocksAreApart == handle # "clobbered"
=============================================================================
