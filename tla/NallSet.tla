------------------------------ MODULE NallSet -------------------------------
(***************************************************************************)
(* nall::set, a red-black tree whose insert() and remove() go down by      *)
(* recursion and repair the tree on the way back, and its iterator, which  *)
(* keeps the path to a node on a stack.  nall::map, and with it the button *)
(* maps of the web platform, and the attributes of nodes are such sets.    *)
(*                                                                         *)
(* A recursive function of the code is one of TLA+ here, which needs a     *)
(* domain: f[n] is the function for trees of n levels at most.  A set of   *)
(* as many nodes has no more levels, so f[nodes] is for the whole tree.    *)
(***************************************************************************)
EXTENDS Integers, Sequences, FiniteSets

CONSTANT Value   \* a set of numbers

VARIABLES
  root, nodes,
  position, stack, \* an iterator: at the end, unless the program goes over the set
  contents         \* what a set that was changed by the same calls would hold

iteratorVars == <<position, stack>>
setVars == <<root, nodes, iteratorVars, contents>>

ASSUME ValueAssumption == Value \subseteq Int

\* nullptr
Leaf == <<>>
Tree[n \in Nat] ==
  IF n = 0 THEN {Leaf}
  ELSE {Leaf} \cup [value : Value, red : BOOLEAN, link : [0..1 -> Tree[n - 1]]]

Node(value) == [value |-> value, red |-> TRUE, link |-> [d \in 0..1 |-> Leaf]]

Red(node) == node # Leaf /\ node.red

\* link[node->value < value], and the other side.
Dir(node, value) == IF node.value < value THEN 1 ELSE 0
Painted(node, red) == [node EXCEPT !.red = red]

Find[n \in Nat] ==
  [node \in Tree[n] |-> [value \in Value |->
    node # Leaf /\ (node.value = value \/ Find[n - 1][node.link[Dir(node, value)]][value])]]

-----------------------------------------------------------------------------

Rotate(a, dir) ==
  LET b == a.link[1 - dir] IN
  [b EXCEPT !.red = FALSE,
            !.link[dir] = [a EXCEPT !.red = TRUE, !.link[1 - dir] = b.link[dir]]]

RotateTwice(node, dir) ==
  Rotate([node EXCEPT !.link[1 - dir] = Rotate(@, 1 - dir)], dir)

\* The way back of insert(), whose child in this direction may have become red.
Repair_OuterOnly(node, dir) ==
  LET child == node.link[dir] IN
  CASE ~Red(child) -> node
    [] Red(child) /\ Red(node.link[1 - dir]) ->
         [node EXCEPT !.red = TRUE, !.link = [d \in 0..1 |-> Painted(@[d], FALSE)]]
    [] Red(child) /\ ~Red(node.link[1 - dir]) /\ Red(child.link[dir]) -> Rotate(node, 1 - dir)
    [] OTHER -> node
Repair(node, dir) ==
  LET child == node.link[dir] IN
  CASE ~Red(child) -> node
    [] Red(child) /\ Red(node.link[1 - dir]) ->
         [node EXCEPT !.red = TRUE, !.link = [d \in 0..1 |-> Painted(@[d], FALSE)]]
    [] Red(child) /\ ~Red(node.link[1 - dir]) ->
         CASE Red(child.link[dir]) -> Rotate(node, 1 - dir)
           [] ~Red(child.link[dir]) /\ Red(child.link[1 - dir]) -> RotateTwice(node, 1 - dir)
           [] OTHER -> node

Inserted[n \in Nat] ==
  [node \in Tree[n] |-> [value \in Value |->
    IF node = Leaf THEN Node(value)
    ELSE IF node.value = value THEN node
    ELSE LET dir == Dir(node, value)
         IN Repair([node EXCEPT !.link[dir] = Inserted[n - 1][@][value]], dir)]]

\* balance() below a red sibling, which is rotated up first, or at once.
BalanceAt(p, dir) ==
  LET s == p.link[1 - dir]
      top == IF Red(s.link[1 - dir]) THEN Rotate(p, dir) ELSE RotateTwice(p, dir)
  IN IF ~Red(s.link[0]) /\ ~Red(s.link[1])
     THEN [tree |-> [p EXCEPT !.red = FALSE, !.link[1 - dir] = Painted(@, TRUE)],
           done |-> p.red]
     ELSE [tree |-> [top EXCEPT !.red = p.red, !.link = [d \in 0..1 |-> Painted(@[d], FALSE)]],
           done |-> TRUE]

Balance(node, dir) ==
  LET s == node.link[1 - dir]
      up == Rotate(node, dir)
      below == BalanceAt(up.link[dir], dir)
  IN CASE s = Leaf -> [tree |-> node, done |-> FALSE]
       [] s # Leaf /\ Red(s) -> [tree |-> [up EXCEPT !.link[dir] = below.tree], done |-> below.done]
       [] OTHER -> BalanceAt(node, dir)

\* The nodes from one down along its links in a direction.
Spine[n \in Nat] ==
  [node \in Tree[n] |-> [dir \in 0..1 |->
    IF node = Leaf THEN <<>> ELSE <<node>> \o Spine[n - 1][node.link[dir]][dir]]]

Top(nodeStack) == nodeStack[Len(nodeStack)]

\* A node with one child at most is replaced by it; whether the path is then one black
\* node short is what "done" says.
Unlinked(node) ==
  LET save == IF node.link[0] = Leaf THEN node.link[1] ELSE node.link[0]
  IN [tree |-> IF ~node.red /\ Red(save) THEN Painted(save, FALSE) ELSE save,
      done |-> node.red \/ Red(save)]

\* A node with two takes the value of its heir, which is removed instead.
Removed[n \in Nat] ==
  [node \in Tree[n] |-> [value \in Value |->
    IF node = Leaf THEN [tree |-> Leaf, done |-> TRUE]
    ELSE IF node.value = value /\ \E d \in 0..1 : node.link[d] = Leaf THEN Unlinked(node)
    ELSE LET found == node.value = value
             heir == IF found THEN Top(Spine[n - 1][node.link[0]][1]).value ELSE value
             dir == IF found THEN 0 ELSE Dir(node, value)
             below == Removed[n - 1][node.link[dir]][heir]
             tree == [node EXCEPT !.value = IF found THEN heir ELSE @, !.link[dir] = below.tree]
         IN IF below.done THEN [tree |-> tree, done |-> TRUE] ELSE Balance(tree, dir)]]

-----------------------------------------------------------------------------

\* An iterator points to nodes: none is used any more after a change.
EndIterators == position' = nodes' /\ stack' = <<>>

Insert(value) ==
  /\ root' = Painted(Inserted[nodes][root][value], FALSE)
  /\ nodes' = IF Find[nodes][root][value] THEN nodes ELSE nodes + 1
  /\ contents' = contents \cup {value}
  /\ EndIterators

Remove(value) ==
  /\ LET tree == Removed[nodes][root][value].tree
     IN root' = IF tree = Leaf THEN Leaf ELSE Painted(tree, FALSE)
  /\ nodes' = IF Find[nodes][root][value] THEN nodes - 1 ELSE nodes
  /\ contents' = contents \ {value}
  /\ EndIterators

ResetSet == root' = Leaf /\ nodes' = 0 /\ contents' = {} /\ EndIterators

-----------------------------------------------------------------------------
(* The iterator: a stack of nodes, the current one on top.                 *)

Begin ==
  /\ position' = 0 /\ stack' = Spine[nodes][root][0]
  /\ UNCHANGED <<root, nodes, contents>>

\* The stack is popped down to the first node that was left to the left.
IsLeftOf(k) == stack[k + 1] # stack[k].link[1]
Ascended_Parent == SubSeq(stack, 1, Len(stack) - 1)
Ascended ==
  SubSeq(stack, 1, CHOOSE k \in 1..Len(stack) - 1 :
                     IsLeftOf(k) /\ \A l \in k + 1..Len(stack) - 1 : ~IsLeftOf(l))

Increment ==
  /\ position < nodes
  /\ position' = position + 1
  /\ stack' = IF position + 1 = nodes THEN stack
              ELSE IF Top(stack).link[1] = Leaf THEN Ascended
              ELSE stack \o Spine[nodes][Top(stack).link[1]][0]
  /\ UNCHANGED <<root, nodes, contents>>

-----------------------------------------------------------------------------

SetInit == root = Leaf /\ nodes = 0 /\ contents = {} /\ position = 0 /\ stack = <<>>
SetNext ==
  \/ ResetSet \/ Begin \/ Increment
  \/ \E value \in Value : Insert(value) \/ Remove(value)

SetSpec == SetInit /\ [][SetNext]_setVars

-----------------------------------------------------------------------------

\* The values on one side of another.
Side(values, value, d) == { v \in values : IF d = 0 THEN v < value ELSE value < v }

\* The black nodes on a path that are below its first.
Below(red, height) == IF red THEN height ELSE height - 1

\* node is a red-black tree with as many black nodes on every path to a leaf, no red node
\* below a red one, and these values, the lesser ones to the left of the greater.
RedBlackTree[n \in Nat] ==
  [node \in Tree[n] |-> [height \in Int |-> [values \in SUBSET Value |->
    IF node = Leaf THEN height = 0 /\ values = {}
    ELSE /\ node.value \in values
         /\ \A d \in 0..1 :
              /\ ~(node.red /\ Red(node.link[d]))
              /\ RedBlackTree[n - 1][node.link[d]][Below(node.red, height)][Side(values, node.value, d)]]]]

\* The promise in set.hpp, O(log n): what holds the contents is a red-black tree, after
\* any calls.
RedBlack == ~Red(root) /\ \E height \in 0..nodes : RedBlackTree[nodes][root][height][contents]

\* An iteration goes over the set once and in ascending order: at each of its positions,
\* the element has as many below it.
InOrder ==
  position < nodes => /\ Top(stack).value \in contents
                      /\ Cardinality({ v \in contents : v < Top(stack).value }) = position

\* To its users it is a set: size(), find() and an iteration tell what is in it.
IsSet ==
  /\ nodes = Cardinality(contents)
  /\ \A value \in Value : Find[nodes][root][value] <=> value \in contents
  /\ InOrder
=============================================================================
