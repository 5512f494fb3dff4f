------------------------------- MODULE LocHeap -------------------------------
(***************************************************************************)
(* The heap of gps/utils/LocHeap.cpp: a binary tree in which a parent never*)
(* ranks lower than its children, kept balanced on push only.  It holds    *)
(* the running timers; rank[d] is the time d has left, and a smaller time  *)
(* ranks higher (LocTimerDelegate::ranks).                                 *)
(*                                                                         *)
(* The operators recurse like the code does.                               *)
(***************************************************************************)
EXTENDS Integers

NoTree == <<>>

Leaf(d) == [data |-> d, left |-> NoTree, right |-> NoTree, size |-> 1]

\* mSize of a node; no node has 0.
Size(tree) == IF tree = NoTree THEN 0 ELSE tree.size

RanksHigher(d, e, rank) == rank[d] < rank[e]

\* LocHeapNode::push: the lower of the two goes down, into the smaller subtree.
RECURSIVE Push(_, _, _)
Push(tree, d, rank) ==
  IF tree = NoTree THEN Leaf(d)
  ELSE LET ahead == RanksHigher(d, tree.data, rank)
           stays == IF ahead THEN d ELSE tree.data
           goes  == IF ahead THEN tree.data ELSE d
           grown == [tree EXCEPT !.data = stays, !.size = @ + 1]
       IN IF Size(tree.left) <= Size(tree.right)
          THEN [grown EXCEPT !.left = Push(@, goes, rank)]
          ELSE [grown EXCEPT !.right = Push(@, goes, rank)]

\* LocHeapNode::pop: what is left when the data of the top has been taken out
\* and the higher of its children has moved up, all the way down.
RECURSIVE Pop(_, _)
Pop(tree, rank) ==
  IF tree.left = NoTree /\ tree.right = NoTree THEN NoTree
  ELSE LET goLeft == \/ tree.right = NoTree
                     \/ /\ tree.left # NoTree
                        /\ RanksHigher(tree.left.data, tree.right.data, rank)
       IN IF goLeft
          THEN [tree EXCEPT !.data = tree.left.data, !.left = Pop(@, rank), !.size = @ - 1]
          ELSE [tree EXCEPT !.data = tree.right.data, !.right = Pop(@, rank), !.size = @ - 1]

\* LocHeapNode::remove: searches the subtrees whose top d does not outrank,
\* and changes nothing when d is not there.
RECURSIVE Remove(_, _, _)
Remove(tree, d, rank) ==
  IF tree = NoTree THEN NoTree
  ELSE IF tree.data = d THEN Pop(tree, rank)
  ELSE IF RanksHigher(d, tree.data, rank) THEN tree
  ELSE LET left  == Remove(tree.left, d, rank)
           right == Remove(tree.right, d, rank)
       IN IF left # tree.left THEN [tree EXCEPT !.left = left, !.size = @ - 1]
          ELSE IF right # tree.right THEN [tree EXCEPT !.right = right, !.size = @ - 1]
          ELSE tree

RECURSIVE Data(_)
Data(tree) ==
  IF tree = NoTree THEN {}
  ELSE {tree.data} \cup Data(tree.left) \cup Data(tree.right)

\* LocHeapNode::checkNodes, which the unit test of the code calls.
RECURSIVE CheckTree(_, _)
CheckTree(tree, rank) ==
  IF tree = NoTree THEN TRUE
  ELSE /\ \A child \in {tree.left, tree.right} \ {NoTree} :
            ~ RanksHigher(child.data, tree.data, rank) /\ CheckTree(child, rank)
       /\ tree.size = 1 + Size(tree.left) + Size(tree.right)
=============================================================================
