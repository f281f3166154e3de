----------------------------- MODULE SetProofs ------------------------------
(***************************************************************************)
(* Proofs about nall::set, for any values and any calls.  What insert()    *)
(* and remove() leave is a red-black tree that holds what was inserted and *)
(* not removed, and an iterator goes over it once and in ascending order.  *)
(*                                                                         *)
(* The functions of the module are recursive.  A proof by induction takes  *)
(* the least depth of tree that its claim is wrong for (LeastNumber) and   *)
(* finds it wrong for a tree that is less deep.  That there are functions  *)
(* with the equations by which they are defined is proved the same way     *)
(* first.                                                                  *)
(***************************************************************************)
EXTENDS NallSet, FiniteSetTheorems, SequenceTheorems, WellFoundedInduction, TLAPS

-----------------------------------------------------------------------------
(* The recursive functions exist.  Each f[n] is fAt(f[n - 1], n).          *)

\* Some number is the least that something is wrong for.
LEMMA LeastNumber ==
  ASSUME NEW Bad \in SUBSET Nat, Bad # {}
  PROVE  \E n \in Bad : \A i \in Nat : i < n => i \notin Bad
<1>1. IsWellFoundedOn(OpToRel(<, Nat), Nat)
  BY NatLessThanWellFounded
<1>2. PICK n \in Bad : \A i \in Bad : <<i, n>> \notin OpToRel(<, Nat)
  BY <1>1, WFMin
<1> QED BY <1>2 DEF OpToRel

TreeAt(below, n) ==
  IF n = 0 THEN {Leaf}
  ELSE {Leaf} \cup [value : Value, red : BOOLEAN, link : [0..1 -> below]]

\* The trees of each depth are made of those of the depth before.
LEMMA TreeStep == Tree = [n \in Nat |-> TreeAt(Tree[n - 1], n)]
<1> DEFINE P(g, k) == g = [i \in 0..k |-> TreeAt(g[i - 1], i)]
<1>1. ASSUME NEW g, NEW h, NEW n \in Nat, n > 0 => g[n - 1] = h[n - 1]
      PROVE  TreeAt(g[n - 1], n) = TreeAt(h[n - 1], n)
  BY <1>1 DEF TreeAt
<1>2. ASSUME NEW k \in Nat PROVE \E g : P(g, k)
  <2> DEFINE Bad == {n \in Nat : ~\E g : P(g, n)}
  <2>1. SUFFICES ASSUME Bad # {} PROVE FALSE
    OBVIOUS
  <2>2. PICK n \in Bad : \A i \in Nat : i < n => i \notin Bad
    <3> HIDE DEF P
    <3> QED BY <2>1, LeastNumber
  <2>3. n \in Nat /\ ~\E g : P(g, n)
    OBVIOUS
  <2>4. CASE n = 0
    <3> DEFINE none == [i \in Nat |-> i]
               g == [i \in 0..0 |-> TreeAt(none[i - 1], i)]
    <3>1. TreeAt(g[0 - 1], 0) = TreeAt(none[0 - 1], 0)
      <4> HIDE DEF g, none
      <4> QED BY <1>1
    <3>2. P(g, 0)
      <4> HIDE DEF none
      <4> QED BY <3>1
    <3> QED BY <2>3, <2>4, <3>2
  <2>5. CASE n # 0
    <3>1. PICK g : P(g, n - 1)
      BY <2>2, <2>3, <2>5
    <3> DEFINE h == [i \in 0..n |-> TreeAt(g[i - 1], i)]
    <3>2. ASSUME NEW i \in 0..n PROVE TreeAt(h[i - 1], i) = TreeAt(g[i - 1], i)
      <4>1. i > 0 => h[i - 1] = g[i - 1]
        BY <3>1, <2>3
      <4> HIDE DEF h, P
      <4> QED BY <4>1, <1>1
    <3>3. P(h, n)
      <4>1. h = [i \in 0..n |-> TreeAt(h[i - 1], i)]
        <5>1. \A i \in 0..n : TreeAt(g[i - 1], i) = TreeAt(h[i - 1], i)
          <6> HIDE DEF h, P
          <6> QED BY <3>2
        <5> QED BY <5>1, Zenon
      <4> QED BY <4>1
    <3> HIDE DEF h
    <3> QED BY <2>3, <3>3
  <2> QED BY <2>4, <2>5
<1>3. ASSUME NEW g, NEW h, NEW k \in Nat, NEW l \in Nat, P(g, k), P(h, l)
      PROVE  \A i \in Nat : i <= k /\ i <= l => g[i] = h[i]
  <2> DEFINE Bad == {i \in Nat : i <= k /\ i <= l /\ g[i] # h[i]}
  <2>1. SUFFICES ASSUME Bad # {} PROVE FALSE
    OBVIOUS
  <2>2. PICK n \in Bad : \A i \in Nat : i < n => i \notin Bad
    <3> HIDE DEF P
    <3> QED BY <2>1, LeastNumber
  <2>3. n > 0 => g[n - 1] = h[n - 1]
    <3> HIDE DEF P
    <3> QED BY <2>2
  <2>4. g[n] = TreeAt(g[n - 1], n) /\ h[n] = TreeAt(h[n - 1], n)
    BY <1>3
  <2>5. TreeAt(g[n - 1], n) = TreeAt(h[n - 1], n)
    <3> HIDE DEF P
    <3> QED BY <2>3, <1>1
  <2> QED BY <2>4, <2>5
<1> DEFINE G(k) == CHOOSE g : P(g, k)
           f == [n \in Nat |-> G(n)[n]]
<1>4. ASSUME NEW k \in Nat PROVE P(G(k), k)
  <2> HIDE DEF P
  <2> QED BY <1>2
<1>5. ASSUME NEW n \in Nat PROVE f[n] = TreeAt(f[n - 1], n)
  <2>1. f[n] = TreeAt(G(n)[n - 1], n)
    <3>1. P(G(n), n)
      BY <1>4
    <3> HIDE DEF G
    <3> QED BY <3>1
  <2>2. n > 0 => G(n)[n - 1] = f[n - 1]
    <3>1. n > 0 => P(G(n), n) /\ P(G(n - 1), n - 1)
      <4> HIDE DEF P, G
      <4> QED BY <1>4
    <3> HIDE DEF P, G
    <3> QED BY <3>1, <1>3
  <2> HIDE DEF f, G, P
  <2> QED BY <2>1, <2>2, <1>1
<1>6. f = [n \in Nat |-> TreeAt(f[n - 1], n)]
  <2>1. \A n \in Nat : G(n)[n] = TreeAt(f[n - 1], n)
    <3> HIDE DEF P, G
    <3> QED BY <1>5
  <2> HIDE DEF P, G
  <2> QED BY <2>1, Zenon
<1> HIDE DEF f
<1> QED BY <1>6, Zenon DEF Tree, TreeAt

FindAt(below, n) ==
  [node \in Tree[n] |-> [value \in Value |->
    node # Leaf /\ (node.value = value \/ below[node.link[Dir(node, value)]][value])]]

SpineAt(below, n) ==
  [node \in Tree[n] |-> [dir \in 0..1 |->
    IF node = Leaf THEN <<>> ELSE <<node>> \o below[node.link[dir]][dir]]]

InsertedAt(below, n) ==
  [node \in Tree[n] |-> [value \in Value |->
    IF node = Leaf THEN Node(value)
    ELSE IF node.value = value THEN node
    ELSE LET dir == Dir(node, value)
         IN Repair([node EXCEPT !.link[dir] = below[@][value]], dir)]]

RemovedAt(below, n) ==
  [node \in Tree[n] |-> [value \in Value |->
    IF node = Leaf THEN [tree |-> Leaf, done |-> TRUE]
    ELSE IF node.value = value /\ \E d \in 0..1 : node.link[d] = Leaf THEN Unlinked(node)
    ELSE LET found == node.value = value
             heir == IF found THEN Top(Spine[n - 1][node.link[0]][1]).value ELSE value
             dir == IF found THEN 0 ELSE Dir(node, value)
             under == below[node.link[dir]][heir]
             tree == [node EXCEPT !.value = IF found THEN heir ELSE @, !.link[dir] = under.tree]
         IN IF under.done THEN [tree |-> tree, done |-> TRUE] ELSE Balance(tree, dir)]]

RedBlackTreeAt(below, n) ==
  [node \in Tree[n] |-> [height \in Int |-> [values \in SUBSET Value |->
    IF node = Leaf THEN height = 0 /\ values = {}
    ELSE /\ node.value \in values
         /\ \A d \in 0..1 :
              /\ ~(node.red /\ Red(node.link[d]))
              /\ below[node.link[d]][Below(node.red, height)][Side(values, node.value, d)]]]]

\* All of them at once.
FunctionsAt(below, n) ==
  [find |-> FindAt(below.find, n), spine |-> SpineAt(below.spine, n),
   inserted |-> InsertedAt(below.inserted, n), removed |-> RemovedAt(below.removed, n),
   redBlackTree |-> RedBlackTreeAt(below.redBlackTree, n)]

\* None of the functions below asks for a depth before 0.
LEMMA AtZero ==
  ASSUME NEW x, NEW y
  PROVE  /\ FindAt(x, 0) = FindAt(y, 0) /\ SpineAt(x, 0) = SpineAt(y, 0)
         /\ InsertedAt(x, 0) = InsertedAt(y, 0) /\ RemovedAt(x, 0) = RemovedAt(y, 0)
         /\ RedBlackTreeAt(x, 0) = RedBlackTreeAt(y, 0)
<1>1. Tree[0] = {Leaf}
  BY TreeStep DEF TreeAt
<1>2. FindAt(x, 0) = FindAt(y, 0)
  BY <1>1 DEF FindAt
<1>3. SpineAt(x, 0) = SpineAt(y, 0)
  BY <1>1 DEF SpineAt
<1>4. InsertedAt(x, 0) = InsertedAt(y, 0)
  BY <1>1 DEF InsertedAt
<1>5. RemovedAt(x, 0) = RemovedAt(y, 0)
  BY <1>1 DEF RemovedAt
<1>6. RedBlackTreeAt(x, 0) = RedBlackTreeAt(y, 0)
  BY <1>1 DEF RedBlackTreeAt
<1> QED BY <1>2, <1>3, <1>4, <1>5, <1>6

\* There are such functions: finite parts of them, which agree, are put together.
LEMMA FunctionsExist == \E f : f = [n \in Nat |-> FunctionsAt(f[n - 1], n)]
<1> DEFINE P(g, k) == g = [i \in 0..k |-> FunctionsAt(g[i - 1], i)]
<1>1. ASSUME NEW g, NEW h, NEW n \in Nat, n > 0 => g[n - 1] = h[n - 1]
      PROVE  FunctionsAt(g[n - 1], n) = FunctionsAt(h[n - 1], n)
  <2>1. CASE n = 0
    BY <2>1, AtZero DEF FunctionsAt
  <2> QED BY <1>1, <2>1
<1>2. ASSUME NEW k \in Nat PROVE \E g : P(g, k)
  <2> DEFINE Bad == {n \in Nat : ~\E g : P(g, n)}
  <2>1. SUFFICES ASSUME Bad # {} PROVE FALSE
    OBVIOUS
  <2>2. PICK n \in Bad : \A i \in Nat : i < n => i \notin Bad
    <3> HIDE DEF P
    <3> QED BY <2>1, LeastNumber
  <2>3. n \in Nat /\ ~\E g : P(g, n)
    OBVIOUS
  <2>4. CASE n = 0
    <3> DEFINE none == [i \in Nat |-> i]
               g == [i \in 0..0 |-> FunctionsAt(none[i - 1], i)]
    <3>1. FunctionsAt(g[0 - 1], 0) = FunctionsAt(none[0 - 1], 0)
      <4> HIDE DEF g, none
      <4> QED BY <1>1
    <3>2. P(g, 0)
      <4> HIDE DEF none
      <4> QED BY <3>1
    <3> QED BY <2>3, <2>4, <3>2
  <2>5. CASE n # 0
    <3>1. PICK g : P(g, n - 1)
      BY <2>2, <2>3, <2>5
    <3> DEFINE h == [i \in 0..n |-> FunctionsAt(g[i - 1], i)]
    <3>2. ASSUME NEW i \in 0..n PROVE FunctionsAt(h[i - 1], i) = FunctionsAt(g[i - 1], i)
      <4>1. i > 0 => h[i - 1] = g[i - 1]
        BY <3>1, <2>3
      <4> HIDE DEF h, P
      <4> QED BY <4>1, <1>1
    <3>3. P(h, n)
      <4>1. h = [i \in 0..n |-> FunctionsAt(h[i - 1], i)]
        <5>1. \A i \in 0..n : FunctionsAt(g[i - 1], i) = FunctionsAt(h[i - 1], i)
          <6> HIDE DEF h, P
          <6> QED BY <3>2
        <5> QED BY <5>1, Zenon
      <4> QED BY <4>1
    <3> HIDE DEF h
    <3> QED BY <2>3, <3>3
  <2> QED BY <2>4, <2>5
<1>3. ASSUME NEW g, NEW h, NEW k \in Nat, NEW l \in Nat, P(g, k), P(h, l)
      PROVE  \A i \in Nat : i <= k /\ i <= l => g[i] = h[i]
  <2> DEFINE Bad == {i \in Nat : i <= k /\ i <= l /\ g[i] # h[i]}
  <2>1. SUFFICES ASSUME Bad # {} PROVE FALSE
    OBVIOUS
  <2>2. PICK n \in Bad : \A i \in Nat : i < n => i \notin Bad
    <3> HIDE DEF P
    <3> QED BY <2>1, LeastNumber
  <2>3. n > 0 => g[n - 1] = h[n - 1]
    <3> HIDE DEF P
    <3> QED BY <2>2
  <2>4. g[n] = FunctionsAt(g[n - 1], n) /\ h[n] = FunctionsAt(h[n - 1], n)
    BY <1>3
  <2>5. FunctionsAt(g[n - 1], n) = FunctionsAt(h[n - 1], n)
    <3> HIDE DEF P
    <3> QED BY <2>3, <1>1
  <2> QED BY <2>4, <2>5
<1> DEFINE G(k) == CHOOSE g : P(g, k)
           f == [n \in Nat |-> G(n)[n]]
<1>4. ASSUME NEW k \in Nat PROVE P(G(k), k)
  <2> HIDE DEF P
  <2> QED BY <1>2
<1>5. ASSUME NEW n \in Nat PROVE f[n] = FunctionsAt(f[n - 1], n)
  <2>1. f[n] = FunctionsAt(G(n)[n - 1], n)
    <3>1. P(G(n), n)
      BY <1>4
    <3> HIDE DEF G
    <3> QED BY <3>1
  <2>2. n > 0 => G(n)[n - 1] = f[n - 1]
    <3>1. n > 0 => P(G(n), n) /\ P(G(n - 1), n - 1)
      <4> HIDE DEF P, G
      <4> QED BY <1>4
    <3> HIDE DEF P, G
    <3> QED BY <3>1, <1>3
  <2> HIDE DEF f, G, P
  <2> QED BY <2>1, <2>2, <1>1
<1>6. f = [n \in Nat |-> FunctionsAt(f[n - 1], n)]
  <2>1. \A n \in Nat : G(n)[n] = FunctionsAt(f[n - 1], n)
    <3> HIDE DEF P, G
    <3> QED BY <1>5
  <2> HIDE DEF P, G
  <2> QED BY <2>1, Zenon
<1> HIDE DEF f
<1> QED BY <1>6, Zenon

\* What find() does of a tree of some depth is what it does of less deep ones.
LEMMA FindStep == Find = [n \in Nat |-> FindAt(Find[n - 1], n)]
<1>1. PICK f : f = [n \in Nat |-> FunctionsAt(f[n - 1], n)]
  BY FunctionsExist
<1> DEFINE g == [n \in Nat |-> f[n].find]
<1>2. ASSUME NEW n \in Nat PROVE f[n].find = FindAt(g[n - 1], n)
  <2>1. f[n].find = FindAt(f[n - 1].find, n)
    BY <1>1 DEF FunctionsAt
  <2>2. CASE n = 0
    <3> HIDE DEF g
    <3> QED BY <2>1, <2>2, AtZero
  <2>3. CASE n # 0
    <3>1. g[n - 1] = f[n - 1].find
      BY <2>3
    <3> HIDE DEF g
    <3> QED BY <2>1, <3>1
  <2> QED BY <2>2, <2>3
<1>3. g = [n \in Nat |-> FindAt(g[n - 1], n)]
  BY <1>2, Zenon
<1> HIDE DEF g
<1> QED BY <1>3, Zenon DEF Find, FindAt

\* So does the path to an end ...
LEMMA SpineStep == Spine = [n \in Nat |-> SpineAt(Spine[n - 1], n)]
<1>1. PICK f : f = [n \in Nat |-> FunctionsAt(f[n - 1], n)]
  BY FunctionsExist
<1> DEFINE g == [n \in Nat |-> f[n].spine]
<1>2. ASSUME NEW n \in Nat PROVE f[n].spine = SpineAt(g[n - 1], n)
  <2>1. f[n].spine = SpineAt(f[n - 1].spine, n)
    BY <1>1 DEF FunctionsAt
  <2>2. CASE n = 0
    <3> HIDE DEF g
    <3> QED BY <2>1, <2>2, AtZero
  <2>3. CASE n # 0
    <3>1. g[n - 1] = f[n - 1].spine
      BY <2>3
    <3> HIDE DEF g
    <3> QED BY <2>1, <3>1
  <2> QED BY <2>2, <2>3
<1>3. g = [n \in Nat |-> SpineAt(g[n - 1], n)]
  BY <1>2, Zenon
<1> HIDE DEF g
<1> QED BY <1>3, Zenon DEF Spine, SpineAt

\* ... and insert() ...
LEMMA InsertedStep == Inserted = [n \in Nat |-> InsertedAt(Inserted[n - 1], n)]
<1>1. PICK f : f = [n \in Nat |-> FunctionsAt(f[n - 1], n)]
  BY FunctionsExist
<1> DEFINE g == [n \in Nat |-> f[n].inserted]
<1>2. ASSUME NEW n \in Nat PROVE f[n].inserted = InsertedAt(g[n - 1], n)
  <2>1. f[n].inserted = InsertedAt(f[n - 1].inserted, n)
    BY <1>1 DEF FunctionsAt
  <2>2. CASE n = 0
    <3> HIDE DEF g
    <3> QED BY <2>1, <2>2, AtZero
  <2>3. CASE n # 0
    <3>1. g[n - 1] = f[n - 1].inserted
      BY <2>3
    <3> HIDE DEF g
    <3> QED BY <2>1, <3>1
  <2> QED BY <2>2, <2>3
<1>3. g = [n \in Nat |-> InsertedAt(g[n - 1], n)]
  BY <1>2, Zenon
<1> HIDE DEF g
<1> QED BY <1>3, Zenon DEF Inserted, InsertedAt

\* ... and remove() ...
LEMMA RemovedStep == Removed = [n \in Nat |-> RemovedAt(Removed[n - 1], n)]
<1>1. PICK f : f = [n \in Nat |-> FunctionsAt(f[n - 1], n)]
  BY FunctionsExist
<1> DEFINE g == [n \in Nat |-> f[n].removed]
<1>2. ASSUME NEW n \in Nat PROVE f[n].removed = RemovedAt(g[n - 1], n)
  <2>1. f[n].removed = RemovedAt(f[n - 1].removed, n)
    BY <1>1 DEF FunctionsAt
  <2>2. CASE n = 0
    <3> HIDE DEF g
    <3> QED BY <2>1, <2>2, AtZero
  <2>3. CASE n # 0
    <3>1. g[n - 1] = f[n - 1].removed
      BY <2>3
    <3> HIDE DEF g
    <3> QED BY <2>1, <3>1
  <2> QED BY <2>2, <2>3
<1>3. g = [n \in Nat |-> RemovedAt(g[n - 1], n)]
  BY <1>2, Zenon
<1> HIDE DEF g
<1> QED BY <1>3, Zenon DEF Removed, RemovedAt

\* ... and what it is to be a red-black tree.
LEMMA RedBlackTreeStep == RedBlackTree = [n \in Nat |-> RedBlackTreeAt(RedBlackTree[n - 1], n)]
<1>1. PICK f : f = [n \in Nat |-> FunctionsAt(f[n - 1], n)]
  BY FunctionsExist
<1> DEFINE g == [n \in Nat |-> f[n].redBlackTree]
<1>2. ASSUME NEW n \in Nat PROVE f[n].redBlackTree = RedBlackTreeAt(g[n - 1], n)
  <2>1. f[n].redBlackTree = RedBlackTreeAt(f[n - 1].redBlackTree, n)
    BY <1>1 DEF FunctionsAt
  <2>2. CASE n = 0
    <3> HIDE DEF g
    <3> QED BY <2>1, <2>2, AtZero
  <2>3. CASE n # 0
    <3>1. g[n - 1] = f[n - 1].redBlackTree
      BY <2>3
    <3> HIDE DEF g
    <3> QED BY <2>1, <3>1
  <2> QED BY <2>2, <2>3
<1>3. g = [n \in Nat |-> RedBlackTreeAt(g[n - 1], n)]
  BY <1>2, Zenon
<1> HIDE DEF g
<1> QED BY <1>3, Zenon DEF RedBlackTree, RedBlackTreeAt

-----------------------------------------------------------------------------
(* Trees.                                                                  *)

\* The trees of each depth.
LEMMA TreeIs ==
  /\ Tree[0] = {Leaf}
  /\ \A n \in Nat : Tree[n + 1] = {Leaf} \cup [value : Value, red : BOOLEAN, link : [0..1 -> Tree[n]]]
  /\ \A n \in Nat : Leaf \in Tree[n]
<1>1. \A n \in Nat : Tree[n] = TreeAt(Tree[n - 1], n)
  BY TreeStep
<1>2. ASSUME NEW n \in Nat
      PROVE  Tree[n + 1] = {Leaf} \cup [value : Value, red : BOOLEAN, link : [0..1 -> Tree[n]]]
  <2>1. n + 1 \in Nat /\ n + 1 # 0 /\ (n + 1) - 1 = n
    OBVIOUS
  <2>2. Tree[n + 1] = TreeAt(Tree[n], n + 1)
    BY <1>1, <2>1
  <2>3. TreeAt(Tree[n], n + 1)
          = {Leaf} \cup [value : Value, red : BOOLEAN, link : [0..1 -> Tree[n]]]
    BY <2>1 DEF TreeAt
  <2> QED BY <2>2, <2>3
<1>3. Tree[0] = {Leaf}
  BY <1>1 DEF TreeAt
<1>4. \A n \in Nat : Leaf \in Tree[n]
  <2>1. \A n \in Nat : Leaf \in TreeAt(Tree[n - 1], n)
    BY DEF TreeAt
  <2> QED BY <1>1, <2>1
<1> QED BY <1>2, <1>3, <1>4

\* What a direction is, or how many black nodes a node is.
Bit == 0..1

\* There are two of them.
LEMMA BitIs == /\ 0 \in Bit /\ 1 \in Bit /\ 0 # 1
               /\ \A d \in Bit : d \in Int /\ (d = 0 \/ d = 1)
BY DEF Bit

\* A node of a tree, and how deep its links may be.
LEMMA NodeIs ==
  ASSUME NEW n \in Nat, NEW node \in Tree[n], node # Leaf
  PROVE  /\ n - 1 \in Nat
         /\ node \in [value : Value, red : BOOLEAN, link : [0..1 -> Tree[n - 1]]]
         /\ node.value \in Value /\ node.value \in Int /\ node.red \in BOOLEAN
         /\ node.link \in [0..1 -> Tree[n - 1]]
         /\ \A d \in Bit : node.link[d] \in Tree[n - 1]
<1> USE DEF Bit
<1>1. n # 0
  BY TreeIs
<1>2. n - 1 \in Nat /\ n = (n - 1) + 1
  BY <1>1
<1>3. Tree[n] = {Leaf} \cup [value : Value, red : BOOLEAN, link : [0..1 -> Tree[n - 1]]]
  BY <1>2, TreeIs
<1>4. node \in [value : Value, red : BOOLEAN, link : [0..1 -> Tree[n - 1]]]
  BY <1>3
<1>5. node.value \in Value /\ node.red \in BOOLEAN /\ node.link \in [0..1 -> Tree[n - 1]]
  BY <1>4
<1> QED BY <1>2, <1>4, <1>5, ValueAssumption

\* How many black nodes a node is.
Black(node) == IF node.red THEN 0 ELSE 1

\* A node, red if b = 0, with a tree in one direction and a tree in the other.
Made(value, b, d, x, y) ==
  [value |-> value, red |-> b = 0, link |-> [e \in 0..1 |-> IF e = d THEN x ELSE y]]

\* The parts of such a node.
LEMMA MadeIs ==
  ASSUME NEW v, NEW b \in Bit, NEW d \in Bit, NEW x, NEW y
  PROVE  /\ Made(v, b, d, x, y).value = v /\ (Made(v, b, d, x, y).red <=> b = 0)
         /\ Made(v, b, d, x, y).red \in BOOLEAN
         /\ Made(v, b, d, x, y).link[d] = x
         /\ Made(v, b, d, x, y) # Leaf
         /\ (Red(Made(v, b, d, x, y)) <=> b = 0)
<1> USE DEF Bit
<1>3. Made(v, b, d, x, y) # Leaf
  BY DEF Made, Leaf
<1>4. Made(v, b, d, x, y).link[d] = x
  BY DEF Made
<1>5. /\ Made(v, b, d, x, y).value = v /\ (Made(v, b, d, x, y).red <=> b = 0)
      /\ Made(v, b, d, x, y).red \in BOOLEAN
  BY DEF Made
<1> QED BY <1>3, <1>4, <1>5 DEF Red

\* Its other link.
LEMMA MadeOther ==
  ASSUME NEW v, NEW b \in Bit, NEW d \in Bit, NEW e \in Bit, d # e, NEW x, NEW y
  PROVE  Made(v, b, d, x, y).link[e] = y
BY DEF Made, Bit

\* It can be looked at from the other direction.
LEMMA MadeTurned ==
  ASSUME NEW v, NEW b \in Bit, NEW d \in Bit, NEW e \in Bit, d # e, NEW x, NEW y
  PROVE  Made(v, b, d, x, y) = Made(v, b, e, y, x)
<1> USE DEF Bit
<1>1. [i \in 0..1 |-> IF i = d THEN x ELSE y] = [i \in 0..1 |-> IF i = e THEN y ELSE x]
  <2>1. \A i \in 0..1 : (i = d) = (i # e)
    OBVIOUS
  <2> QED BY <2>1
<1> QED BY <1>1 DEF Made

\* Every node is one.
LEMMA MadeOf ==
  ASSUME NEW n \in Nat, NEW node \in Tree[n], node # Leaf, NEW d \in Bit
  PROVE  /\ node = Made(node.value, Black(node), d, node.link[d], node.link[1 - d])
         /\ Black(node) \in Bit /\ (node.red <=> Black(node) = 0)
<1> USE DEF Bit
<1>1. node \in [value : Value, red : BOOLEAN, link : [0..1 -> Tree[n - 1]]]
  BY NodeIs
<1>2. node = [value |-> node.value, red |-> node.red, link |-> node.link]
  BY <1>1
<1>3. node.link = [e \in 0..1 |-> IF e = d THEN node.link[d] ELSE node.link[1 - d]]
  <2>1. node.link = [e \in 0..1 |-> node.link[e]]
    BY <1>1
  <2>2. \A e \in 0..1 : e = d \/ e = 1 - d
    OBVIOUS
  <2>3. \A e \in 0..1 : node.link[e] = IF e = d THEN node.link[d] ELSE node.link[1 - d]
    BY <2>2
  <2> QED BY <2>1, <2>3
<1>4. Black(node) \in Bit /\ (node.red <=> Black(node) = 0)
  BY DEF Black
<1>5. node.red = (Black(node) = 0)
  BY <1>1 DEF Black
<1> QED BY <1>2, <1>3, <1>4, <1>5 DEF Made

\* It is one level deeper than its links may be.
LEMMA MadeInTree ==
  ASSUME NEW n \in Nat, NEW v \in Value, NEW b \in Bit, NEW d \in Bit,
         NEW x \in Tree[n], NEW y \in Tree[n]
  PROVE  Made(v, b, d, x, y) \in Tree[n + 1]
<1> USE DEF Bit
<1>1. [e \in 0..1 |-> IF e = d THEN x ELSE y] \in [0..1 -> Tree[n]]
  OBVIOUS
<1>2. Made(v, b, d, x, y) \in [value : Value, red : BOOLEAN, link : [0..1 -> Tree[n]]]
  BY <1>1 DEF Made
<1> QED BY <1>2, TreeIs

\* Changing a node.
Linked(node, d, z) == [node EXCEPT !.link[d] = z]
Blackened(node) == Painted(node, FALSE)
Reddened(node) == Painted(node, TRUE)

\* The other direction.
LEMMA Turn == ASSUME NEW d \in Bit
              PROVE  \E e \in Bit : d # e /\ e = 1 - d /\ d = 1 - e
BY DEF Bit

\* Painting a node, in terms of its fields.
LEMMA PaintedIs ==
  ASSUME NEW v, NEW r \in BOOLEAN, NEW link, NEW q \in BOOLEAN
  PROVE  Painted([value |-> v, red |-> r, link |-> link], q) = [value |-> v, red |-> q, link |-> link]
BY DEF Painted

\* Painting it leaves the rest of it.
LEMMA MadePainted ==
  ASSUME NEW v, NEW b \in Bit, NEW d \in Bit, NEW x, NEW y
  PROVE  /\ Blackened(Made(v, b, d, x, y)) = Made(v, 1, d, x, y)
         /\ Reddened(Made(v, b, d, x, y)) = Made(v, 0, d, x, y)
<1> USE DEF Bit
<1> DEFINE link == [e \in 0..1 |-> IF e = d THEN x ELSE y]
<1>1. /\ Made(v, b, d, x, y) = [value |-> v, red |-> b = 0, link |-> link]
      /\ Made(v, 1, d, x, y) = [value |-> v, red |-> 1 = 0, link |-> link]
      /\ Made(v, 0, d, x, y) = [value |-> v, red |-> 0 = 0, link |-> link]
  BY DEF Made
<1> HIDE DEF link
<1>2. (1 = 0) = FALSE /\ (0 = 0) = TRUE
  OBVIOUS
<1>3. (b = 0) \in BOOLEAN /\ FALSE \in BOOLEAN /\ TRUE \in BOOLEAN
  OBVIOUS
<1>4. Painted([value |-> v, red |-> b = 0, link |-> link], FALSE)
        = [value |-> v, red |-> FALSE, link |-> link]
  BY <1>3, PaintedIs, Zenon
<1>5. Painted([value |-> v, red |-> b = 0, link |-> link], TRUE)
        = [value |-> v, red |-> TRUE, link |-> link]
  BY <1>3, PaintedIs, Zenon
<1>6. Made(v, 1, d, x, y) = [value |-> v, red |-> FALSE, link |-> link]
  BY <1>1, <1>2, Zenon
<1>7. Made(v, 0, d, x, y) = [value |-> v, red |-> TRUE, link |-> link]
  BY <1>1, <1>2, Zenon
<1>8. Blackened(Made(v, b, d, x, y)) = Made(v, 1, d, x, y)
  BY <1>1, <1>4, <1>6, Zenon DEF Blackened
<1>9. Reddened(Made(v, b, d, x, y)) = Made(v, 0, d, x, y)
  BY <1>1, <1>5, <1>7, Zenon DEF Reddened
<1> QED BY <1>8, <1>9

\* A new link in a direction.
LEMMA MadeLinked ==
  ASSUME NEW v, NEW b \in Bit, NEW d \in Bit, NEW x, NEW y, NEW z
  PROVE  Linked(Made(v, b, d, x, y), d, z) = Made(v, b, d, z, y)
<1> USE DEF Bit
<1> DEFINE link == [e \in 0..1 |-> IF e = d THEN x ELSE y]
<1>1. [link EXCEPT ![d] = z] = [e \in 0..1 |-> IF e = d THEN z ELSE y]
  OBVIOUS
<1>3. Made(v, b, d, x, y) = [value |-> v, red |-> b = 0, link |-> link]
  BY DEF Made
<1> HIDE DEF link
<1>4. [[value |-> v, red |-> b = 0, link |-> link] EXCEPT !.link[d] = z]
        = [value |-> v, red |-> b = 0, link |-> [link EXCEPT ![d] = z]]
  OBVIOUS
<1> QED BY <1>1, <1>3, <1>4 DEF Made, Linked

\* A new link in the other direction.
LEMMA MadeLinkedOther ==
  ASSUME NEW v, NEW b \in Bit, NEW d \in Bit, NEW e \in Bit, d # e, NEW x, NEW y, NEW z
  PROVE  Linked(Made(v, b, d, x, y), e, z) = Made(v, b, d, x, z)
<1>1. Made(v, b, d, x, y) = Made(v, b, e, y, x)
  BY MadeTurned
<1>2. Made(v, b, d, x, z) = Made(v, b, e, z, x)
  BY MadeTurned
<1>3. Linked(Made(v, b, e, y, x), e, z) = Made(v, b, e, z, x)
  BY MadeLinked
<1> QED BY <1>1, <1>2, <1>3

\* A rotation as changes of two nodes.
LEMMA RotateOf ==
  ASSUME NEW a, NEW d, NEW e, e = 1 - d
  PROVE  Rotate(a, d) = Linked(Blackened(a.link[e]), d, Linked(Reddened(a), e, a.link[e].link[d]))
<1>1. Rotate(a, d) =
           Linked(Blackened(a.link[1 - d]), d, Linked(Reddened(a), 1 - d, a.link[1 - d].link[d]))
  BY Zenon DEF Rotate, Linked, Blackened, Reddened, Painted
<1> QED BY <1>1, Zenon

\* Two rotations, the first of a link.
LEMMA RotateTwiceOf ==
  ASSUME NEW a, NEW d, NEW e, e = 1 - d
  PROVE  RotateTwice(a, d) = Rotate(Linked(a, e, Rotate(a.link[e], e)), d)
BY Zenon DEF RotateTwice, Linked

\* A node painted, with both of its links.
Recolored(node, red) ==
  [node EXCEPT !.red = red, !.link = [i \in 0..1 |-> Painted(@[i], FALSE)]]
RecoloredRed(node) == Recolored(node, TRUE)
RecoloredBlack(node) == Recolored(node, FALSE)
Relinked(node, link) == [node EXCEPT !.link = link]

\* A node painted, with its two links made black.
LEMMA RecoloredIs ==
  ASSUME NEW v, NEW b \in Bit, NEW d \in Bit, NEW x, NEW y
  PROVE  /\ RecoloredRed(Made(v, b, d, x, y)) = Made(v, 0, d, Blackened(x), Blackened(y))
         /\ RecoloredBlack(Made(v, b, d, x, y)) = Made(v, 1, d, Blackened(x), Blackened(y))
<1> DEFINE node == Made(v, b, d, x, y)
           bx == Blackened(x)
           by == Blackened(y)
           link == [i \in 0..1 |-> IF i = d THEN x ELSE y]
           black == [i \in 0..1 |-> IF i = d THEN bx ELSE by]
<1>1. node = [value |-> v, red |-> b = 0, link |-> link]
  BY DEF Made
<1>2. node.link = link
  BY <1>1
<1>3. /\ Made(v, 0, d, bx, by) = [value |-> v, red |-> 0 = 0, link |-> black]
      /\ Made(v, 1, d, bx, by) = [value |-> v, red |-> 1 = 0, link |-> black]
  BY DEF Made
<1>4. \A i \in 0..1 : Painted(link[i], FALSE) = IF i = d THEN bx ELSE by
  BY DEF Blackened
<1>5. [i \in 0..1 |-> Painted(link[i], FALSE)] = black
  <2> HIDE DEF link, bx, by
  <2> QED BY <1>4, Zenon
<1>6. ASSUME NEW red \in BOOLEAN
      PROVE  Recolored(node, red) = [value |-> v, red |-> red, link |-> black]
  <2>1. Painted(node, red).link = node.link
    <3> HIDE DEF node
    <3> QED BY <1>1 DEF Painted
  <2>2. Recolored(node, red)
        = Relinked(Painted(node, red), [i \in 0..1 |-> Painted(node.link[i], FALSE)])
    <3> HIDE DEF node
    <3> QED BY <2>1, Zenon DEF Recolored, Relinked, Painted
  <2> HIDE DEF node, link, black, bx, by
  <2>3. Painted(node, red) = [value |-> v, red |-> red, link |-> link]
    <3>1. red \in BOOLEAN /\ (b = 0) \in BOOLEAN
      OBVIOUS
    <3> QED BY <1>1, <3>1, PaintedIs, Zenon
  <2>4. Relinked([value |-> v, red |-> red, link |-> link], black)
          = [value |-> v, red |-> red, link |-> black]
    BY DEF Relinked
  <2> QED BY <1>2, <1>5, <2>2, <2>3, <2>4, Zenon
<1> HIDE DEF node, link, black, bx, by
<1>7. TRUE \in BOOLEAN /\ FALSE \in BOOLEAN /\ (0 = 0) = TRUE /\ (1 = 0) = FALSE
  OBVIOUS
<1>8. Recolored(node, TRUE) = Made(v, 0, d, bx, by)
  BY <1>3, <1>6, <1>7, Zenon
<1>9. Recolored(node, FALSE) = Made(v, 1, d, bx, by)
  BY <1>3, <1>6, <1>7, Zenon
<1> QED BY <1>8, <1>9, Zenon DEF node, bx, by, RecoloredRed, RecoloredBlack

\* What may be deeper need not be.
LEMMA TreeGrows ==
  ASSUME NEW n \in Nat
  PROVE  Tree[n] \subseteq Tree[n + 1]
<1> DEFINE Bad == {k \in Nat : ~(Tree[k] \subseteq Tree[k + 1])}
<1>1. SUFFICES ASSUME Bad # {} PROVE FALSE
  OBVIOUS
<1>2. PICK k \in Bad : \A i \in Nat : i < k => i \notin Bad
  BY <1>1, LeastNumber
<1>3. CASE k = 0
  BY <1>2, <1>3, TreeIs
<1>4. CASE k # 0
  <2>1. k - 1 \in Nat /\ (k - 1) + 1 = k /\ Tree[k - 1] \subseteq Tree[k]
    BY <1>2, <1>4
  <2>2. [0..1 -> Tree[k - 1]] \subseteq [0..1 -> Tree[k]]
    BY <2>1
  <2>3. [value : Value, red : BOOLEAN, link : [0..1 -> Tree[k - 1]]]
          \subseteq [value : Value, red : BOOLEAN, link : [0..1 -> Tree[k]]]
    BY <2>2
  <2>4. Tree[k] = {Leaf} \cup [value : Value, red : BOOLEAN, link : [0..1 -> Tree[k - 1]]]
    BY <2>1, TreeIs
  <2> QED BY <1>2, <2>3, <2>4, TreeIs
<1> QED BY <1>3, <1>4

\* The trees of some depth are among those of any greater one.
LEMMA TreeMonotone ==
  ASSUME NEW m \in Nat, NEW n \in Nat, m <= n
  PROVE  Tree[m] \subseteq Tree[n]
<1> DEFINE Bad == {k \in Nat : ~(Tree[m] \subseteq Tree[m + k])}
<1>1. Bad = {}
  <2>1. SUFFICES ASSUME Bad # {} PROVE FALSE
    OBVIOUS
  <2>2. PICK k \in Bad : \A i \in Nat : i < k => i \notin Bad
    BY <2>1, LeastNumber
  <2>3. k # 0
    BY <2>2
  <2>4. k - 1 \in Nat /\ k - 1 < k
    BY <2>3
  <2>5. Tree[m] \subseteq Tree[m + (k - 1)]
    BY <2>2, <2>4
  <2>6. m + (k - 1) \in Nat /\ (m + (k - 1)) + 1 = m + k
    BY <2>4
  <2>7. Tree[m + (k - 1)] \subseteq Tree[m + k]
    BY <2>6, TreeGrows
  <2> QED BY <2>2, <2>5, <2>7
<1>2. n - m \in Nat /\ m + (n - m) = n
  OBVIOUS
<1> QED BY <1>1, <1>2

-----------------------------------------------------------------------------
(* Red-black trees, of any depth.                                          *)

Is(node, h, S) == \E n \in Nat : node \in Tree[n] /\ RedBlackTree[n][node][h][S]

\* The definition of a red-black tree, for one node.
LEMMA RedBlackIs ==
  ASSUME NEW n \in Nat, NEW node \in Tree[n], NEW h \in Int, NEW S \in SUBSET Value
  PROVE  RedBlackTree[n][node][h][S] <=>
           IF node = Leaf THEN h = 0 /\ S = {}
           ELSE /\ node.value \in S
                /\ \A d \in 0..1 :
                     /\ ~(node.red /\ Red(node.link[d]))
                     /\ RedBlackTree[n - 1][node.link[d]][Below(node.red, h)][Side(S, node.value, d)]
<1> USE DEF Bit
<1>1. RedBlackTree[n] = RedBlackTreeAt(RedBlackTree[n - 1], n)
  BY RedBlackTreeStep
<1> DEFINE below == RedBlackTree[n - 1]
<1> HIDE DEF below
<1>2. RedBlackTreeAt(below, n)[node][h][S] =
           IF node = Leaf THEN h = 0 /\ S = {}
           ELSE /\ node.value \in S
                /\ \A d \in 0..1 :
                     /\ ~(node.red /\ Red(node.link[d]))
                     /\ below[node.link[d]][Below(node.red, h)][Side(S, node.value, d)]
  BY DEF RedBlackTreeAt, Below
<1> QED BY <1>1, <1>2 DEF below

\* How deep a tree may be makes no difference to what it is.
LEMMA DepthIsFree ==
  ASSUME NEW m \in Nat, NEW n \in Nat, NEW node \in Tree[m], node \in Tree[n],
         NEW h \in Int, NEW S \in SUBSET Value
  PROVE  RedBlackTree[m][node][h][S] <=> RedBlackTree[n][node][h][S]
<1> USE DEF Bit
<1> DEFINE Same(k) == \A l \in Nat : \A t \in Tree[k] \cap Tree[l] : \A i \in Int, T \in SUBSET Value :
                        RedBlackTree[k][t][i][T] <=> RedBlackTree[l][t][i][T]
           Bad == {k \in Nat : ~Same(k)}
<1>1. Bad = {}
  <2>1. SUFFICES ASSUME Bad # {} PROVE FALSE
    OBVIOUS
  <2>2. PICK k \in Bad : \A i \in Nat : i < k => i \notin Bad
    <3> HIDE DEF Same
    <3> QED BY <2>1, LeastNumber
  <2>3. PICK l \in Nat : \E t \in Tree[k] \cap Tree[l] : \E i \in Int, T \in SUBSET Value :
          ~(RedBlackTree[k][t][i][T] <=> RedBlackTree[l][t][i][T])
    BY <2>2
  <2>4. PICK t \in Tree[k] \cap Tree[l], i \in Int, T \in SUBSET Value :
          ~(RedBlackTree[k][t][i][T] <=> RedBlackTree[l][t][i][T])
    BY <2>3
  <2>5. CASE t = Leaf
    <3>1. RedBlackTree[k][t][i][T] <=> i = 0 /\ T = {}
      BY <2>5, <2>4, <2>2, RedBlackIs
    <3>2. RedBlackTree[l][t][i][T] <=> i = 0 /\ T = {}
      BY <2>5, <2>4, RedBlackIs
    <3> QED BY <2>4, <3>1, <3>2
  <2>6. CASE t # Leaf
    <3>1. k - 1 \in Nat /\ \A d \in 0..1 : t.link[d] \in Tree[k - 1]
      BY <2>2, <2>4, <2>6, NodeIs
    <3>2. l - 1 \in Nat /\ \A d \in 0..1 : t.link[d] \in Tree[l - 1]
      BY <2>4, <2>6, NodeIs
    <3>3. t.red \in BOOLEAN /\ Below(t.red, i) \in Int
      BY <2>4, <2>6, NodeIs DEF Below
    <3>4. \A d \in 0..1 : Side(T, t.value, d) \in SUBSET Value
      BY DEF Side
    <3>5. Same(k - 1)
      <4> HIDE DEF Same
      <4> QED BY <2>2, <3>1
    <3>6. \A d \in 0..1 :
            RedBlackTree[k - 1][t.link[d]][Below(t.red, i)][Side(T, t.value, d)]
              <=> RedBlackTree[l - 1][t.link[d]][Below(t.red, i)][Side(T, t.value, d)]
      BY <3>1, <3>2, <3>3, <3>4, <3>5
    <3>7. RedBlackTree[k][t][i][T] <=>
            /\ t.value \in T
            /\ \A d \in 0..1 :
                 /\ ~(t.red /\ Red(t.link[d]))
                 /\ RedBlackTree[k - 1][t.link[d]][Below(t.red, i)][Side(T, t.value, d)]
      BY <2>2, <2>4, <2>6, RedBlackIs
    <3>8. RedBlackTree[l][t][i][T] <=>
            /\ t.value \in T
            /\ \A d \in 0..1 :
                 /\ ~(t.red /\ Red(t.link[d]))
                 /\ RedBlackTree[l - 1][t.link[d]][Below(t.red, i)][Side(T, t.value, d)]
      BY <2>4, <2>6, RedBlackIs
    <3> QED BY <2>4, <3>6, <3>7, <3>8
  <2> QED BY <2>5, <2>6
<1>2. Same(m)
  <2> HIDE DEF Same
  <2> QED BY <1>1
<1> QED BY <1>2

\* Being a red-black tree, for the depth at hand.
LEMMA IsInTree ==
  ASSUME NEW n \in Nat, NEW node \in Tree[n], NEW h \in Int, NEW S \in SUBSET Value
  PROVE  Is(node, h, S) <=> RedBlackTree[n][node][h][S]
BY DepthIsFree DEF Is

\* A leaf is the tree of nothing.
LEMMA IsLeaf ==
  ASSUME NEW h \in Int, NEW S \in SUBSET Value
  PROVE  Is(Leaf, h, S) <=> h = 0 /\ S = {}
<1>1. Leaf \in Tree[0] /\ 0 \in Nat
  BY TreeIs
<1>2. Is(Leaf, h, S) <=> RedBlackTree[0][Leaf][h][S]
  BY <1>1, IsInTree
<1> QED BY <1>1, <1>2, RedBlackIs

Before(a, b, d) == IF d = 0 THEN a < b ELSE b < a
\* One set of values before one and another behind it, in a direction.
Parted(A, v, B, d) == (\A a \in A : Before(a, v, d)) /\ (\A b \in B : Before(v, b, d))

\* Being before, in either direction, is an order.
LEMMA BeforeIs ==
  ASSUME NEW d \in Bit
  PROVE  /\ \A a, b, c \in Int : Before(a, b, d) /\ Before(b, c, d) => Before(a, c, d)
         /\ \A a, b \in Int : Before(a, b, d) => ~Before(b, a, d) /\ a # b
         /\ \A a, b \in Int : Before(a, b, d) \/ a = b \/ Before(b, a, d)
         /\ \A a, b \in Int : Before(a, b, 1 - d) <=> Before(b, a, d)
         /\ 1 - d \in Bit
BY DEF Before, Bit

\* The two sides of a value part a set.
LEMMA SideIs ==
  ASSUME NEW d \in Bit, NEW S \in SUBSET Value, NEW v \in Value
  PROVE  /\ Side(S, v, d) = {u \in S : Before(u, v, d)}
         /\ Side(S, v, 1 - d) = {u \in S : Before(v, u, d)}
         /\ Side(S, v, d) \in SUBSET Value /\ Side(S, v, 1 - d) \in SUBSET Value
         /\ v \in S => S = Side(S, v, d) \cup Side(S, v, 1 - d) \cup {v}
         /\ Parted(Side(S, v, d), v, Side(S, v, 1 - d), d)
<1> USE DEF Bit
<1>1. v \in Int /\ S \subseteq Int
  BY ValueAssumption
<1>2. Side(S, v, d) = {u \in S : Before(u, v, d)}
  BY <1>1 DEF Side, Before
<1>3. Side(S, v, 1 - d) = {u \in S : Before(v, u, d)}
  BY <1>1 DEF Side, Before
<1>4. v \in S => S = Side(S, v, d) \cup Side(S, v, 1 - d) \cup {v}
  BY <1>1, <1>2, <1>3, BeforeIs
<1>5. Parted(Side(S, v, d), v, Side(S, v, 1 - d), d)
  BY <1>2, <1>3 DEF Parted
<1> QED BY <1>2, <1>3, <1>4, <1>5

\* What a node makes of the trees in its two directions ...
LEMMA MakeTree ==
  ASSUME NEW v \in Value, NEW b \in Bit, NEW d \in Bit, NEW x, NEW y, NEW k \in Int,
         NEW A \in SUBSET Value, NEW B \in SUBSET Value,
         Is(x, k, A), Is(y, k, B), b = 0 => ~Red(x) /\ ~Red(y),
         Parted(A, v, B, d)
  PROVE  Is(Made(v, b, d, x, y), k + b, A \cup B \cup {v})
<1> USE DEF Bit
<1> DEFINE node == Made(v, b, d, x, y)
           S == A \cup B \cup {v}
           h == k + b
<1>1. PICK m \in Nat : x \in Tree[m] /\ RedBlackTree[m][x][k][A]
  BY DEF Is
<1>2. PICK n \in Nat : y \in Tree[n] /\ RedBlackTree[n][y][k][B]
  BY DEF Is
<1>3. PICK l \in Nat : m <= l /\ n <= l
  <2>1. m <= m + n /\ n <= m + n /\ m + n \in Nat
    OBVIOUS
  <2> QED BY <2>1
<1>4. x \in Tree[l] /\ y \in Tree[l]
  BY <1>1, <1>2, <1>3, TreeMonotone
<1>5. RedBlackTree[l][x][k][A] /\ RedBlackTree[l][y][k][B]
  BY <1>1, <1>2, <1>4, DepthIsFree
<1>6. node \in Tree[l + 1] /\ l + 1 \in Nat /\ (l + 1) - 1 = l
  BY <1>4, MadeInTree
<1>7. /\ node.value = v /\ (node.red <=> b = 0) /\ node.red \in BOOLEAN /\ node.link[d] = x /\ node.link[1 - d] = y
      /\ node # Leaf /\ \A e \in 0..1 : e = d \/ e = 1 - d
  <2>1. PICK e \in 0..1 : d # e /\ e = 1 - d
    BY Turn
  <2>2. /\ node.value = v /\ (node.red <=> b = 0) /\ node.red \in BOOLEAN
        /\ node.link[d] = x /\ node.link[e] = y /\ node # Leaf
    BY <2>1, MadeIs, MadeOther
  <2> HIDE DEF node
  <2> QED BY <2>1, <2>2
<1>8. S \in SUBSET Value /\ h \in Int /\ Below(node.red, h) = k /\ v \in S
  <2>1. Below(node.red, h) = k
    <3> HIDE DEF node
    <3> QED BY <1>7 DEF Below
  <2> HIDE DEF node
  <2> QED BY <2>1
<1>9. Side(S, v, d) = A /\ Side(S, v, 1 - d) = B
  <2>1. A \subseteq Int /\ B \subseteq Int /\ v \in Int
    BY ValueAssumption
  <2>2. (\A a \in A : Before(a, v, d)) /\ (\A a \in B : Before(v, a, d))
    BY DEF Parted
  <2>3. \A u \in S : (Before(u, v, d) <=> u \in A) /\ (Before(v, u, d) <=> u \in B)
    BY <2>1, <2>2, BeforeIs
  <2>4. Side(S, v, d) = {u \in S : Before(u, v, d)} /\ Side(S, v, 1 - d) = {u \in S : Before(v, u, d)}
    <3>1. S \in SUBSET Value
      BY <1>8
    <3> HIDE DEF S
    <3> QED BY <3>1, SideIs
  <2> QED BY <2>3, <2>4
<1> HIDE DEF node, S, h
<1>10. \A e \in 0..1 :
         /\ ~(node.red /\ Red(node.link[e]))
         /\ RedBlackTree[l][node.link[e]][Below(node.red, h)][Side(S, node.value, e)]
  BY <1>5, <1>7, <1>8, <1>9
<1>11. RedBlackTree[l + 1][node][h][S]
  BY <1>6, <1>7, <1>8, <1>10, RedBlackIs
<1>12. Is(node, h, S)
  BY <1>6, <1>11 DEF Is
<1> QED BY <1>12 DEF node, S, h

\* ... and back.
LEMMA TakeApart ==
  ASSUME NEW node, NEW h \in Int, NEW S \in SUBSET Value, NEW d \in Bit,
         Is(node, h, S), node # Leaf
  PROVE  /\ node.value \in S /\ node.value \in Int /\ node.red \in BOOLEAN
         /\ node.red => ~Red(node.link[d]) /\ ~Red(node.link[1 - d])
         /\ Is(node.link[d], Below(node.red, h), Side(S, node.value, d))
         /\ Is(node.link[1 - d], Below(node.red, h), Side(S, node.value, 1 - d))
         /\ Below(node.red, h) \in Int
<1> USE DEF Bit
<1>1. PICK n \in Nat : node \in Tree[n] /\ RedBlackTree[n][node][h][S]
  BY DEF Is
<1>3. /\ node.value \in Int /\ node.red \in BOOLEAN /\ n - 1 \in Nat
      /\ node.link[d] \in Tree[n - 1] /\ node.link[1 - d] \in Tree[n - 1] /\ 1 - d \in Bit
  BY <1>1, NodeIs
<1>4. /\ node.value \in S
      /\ \A e \in 0..1 :
           /\ ~(node.red /\ Red(node.link[e]))
           /\ RedBlackTree[n - 1][node.link[e]][Below(node.red, h)][Side(S, node.value, e)]
  BY <1>1, RedBlackIs
<1>5. Below(node.red, h) \in Int
  BY <1>3 DEF Below
<1> QED BY <1>3, <1>4, <1>5 DEF Is

\* find(), one level of it.
LEMMA FindIs ==
  ASSUME NEW n \in Nat, NEW node \in Tree[n], NEW v \in Value
  PROVE  Find[n][node][v] <=>
           node # Leaf /\ (node.value = v \/ Find[n - 1][node.link[Dir(node, v)]][v])
<1>1. Find[n] = FindAt(Find[n - 1], n)
  BY FindStep
<1> DEFINE below == Find[n - 1]
<1> HIDE DEF below
<1>2. FindAt(below, n)[node][v] =
           (node # Leaf /\ (node.value = v \/ below[node.link[Dir(node, v)]][v]))
  BY DEF FindAt
<1> QED BY <1>1, <1>2 DEF below

\* As many black nodes are on the paths of a tree as a number says, and not none from a
\* black node.
LEMMA HeightIsNat ==
  ASSUME NEW node, NEW h \in Int, NEW S \in SUBSET Value, Is(node, h, S)
  PROVE  h \in Nat /\ (node # Leaf /\ ~Red(node) => h > 0)
<1> USE DEF Bit
<1> DEFINE Fine(t) == \A i \in Int, T \in SUBSET Value : Is(t, i, T) => i \in Nat
           Bad == {k \in Nat : ~\A t \in Tree[k] : Fine(t)}
<1>1. Bad = {}
  <2>1. SUFFICES ASSUME Bad # {} PROVE FALSE
    OBVIOUS
  <2>2. PICK k \in Bad : \A i \in Nat : i < k => i \notin Bad
    <3> HIDE DEF Fine
    <3> QED BY <2>1, LeastNumber
  <2>3. PICK t \in Tree[k], i \in Int, T \in SUBSET Value : Is(t, i, T) /\ i \notin Nat
    BY <2>2
  <2>4. t # Leaf
    BY <2>3, IsLeaf
  <2>5. k - 1 \in Nat /\ t.link[0] \in Tree[k - 1]
    BY <2>2, <2>3, <2>4, NodeIs
  <2>6. Is(t.link[0], Below(t.red, i), Side(T, t.value, 0)) /\ Below(t.red, i) \in Int
    BY <2>3, <2>4, TakeApart
  <2>7. Side(T, t.value, 0) \in SUBSET Value
    BY DEF Side
  <2>8. Fine(t.link[0])
    <3> HIDE DEF Fine
    <3> QED BY <2>2, <2>5
  <2>9. Below(t.red, i) \in Nat
    BY <2>6, <2>7, <2>8
  <2> QED BY <2>3, <2>9 DEF Below
<1>2. \A t : \A i \in Int, T \in SUBSET Value : Is(t, i, T) => i \in Nat
  <2>1. ASSUME NEW t, NEW i \in Int, NEW T \in SUBSET Value, Is(t, i, T) PROVE i \in Nat
    <3>1. PICK n \in Nat : t \in Tree[n]
      BY <2>1 DEF Is
    <3> QED BY <1>1, <2>1, <3>1
  <2> QED BY <2>1
<1>3. node # Leaf /\ ~Red(node) => h > 0
  <2>1. SUFFICES ASSUME node # Leaf, ~Red(node) PROVE h > 0
    BY <1>2
  <2>2. Is(node.link[0], Below(node.red, h), Side(S, node.value, 0)) /\ Below(node.red, h) \in Int
    BY <2>1, TakeApart
  <2>3. Side(S, node.value, 0) \in SUBSET Value
    BY DEF Side
  <2>4. Below(node.red, h) \in Nat
    BY <1>2, <2>2, <2>3
  <2> QED BY <2>1, <2>4 DEF Below, Red
<1> QED BY <1>2, <1>3

\* What find() tells is what the tree holds.
LEMMA FindTells ==
  ASSUME NEW n \in Nat, NEW node \in Tree[n], NEW h \in Int, NEW S \in SUBSET Value, Is(node, h, S),
         NEW v \in Value
  PROVE  Find[n][node][v] <=> v \in S
<1> USE DEF Bit
<1> DEFINE Fine(k) == \A t \in Tree[k] : \A i \in Int, T \in SUBSET Value :
                        Is(t, i, T) => (Find[k][t][v] <=> v \in T)
           Bad == {k \in Nat : ~Fine(k)}
<1>1. Bad = {}
  <2>1. SUFFICES ASSUME Bad # {} PROVE FALSE
    OBVIOUS
  <2>2. PICK k \in Bad : \A i \in Nat : i < k => i \notin Bad
    <3> HIDE DEF Fine
    <3> QED BY <2>1, LeastNumber
  <2>3. PICK t \in Tree[k], i \in Int, T \in SUBSET Value :
          Is(t, i, T) /\ ~(Find[k][t][v] <=> v \in T)
    BY <2>2
  <2>4. CASE t = Leaf
    BY <2>2, <2>3, <2>4, IsLeaf, FindIs
  <2>5. CASE t # Leaf
    <3> DEFINE d == Dir(t, v)
    <3>1. k - 1 \in Nat /\ d \in 0..1 /\ t.value \in Int /\ v \in Int
      BY <2>2, <2>3, <2>5, NodeIs, ValueAssumption DEF Dir
    <3>2. t.link[d] \in Tree[k - 1]
      <4> HIDE DEF d
      <4> QED BY <2>2, <2>3, <2>5, <3>1, NodeIs
    <3>3. /\ Is(t.link[d], Below(t.red, i), Side(T, t.value, d)) /\ Below(t.red, i) \in Int
          /\ t.value \in T
      <4> HIDE DEF d
      <4> QED BY <2>3, <2>5, <3>1, TakeApart
    <3>4. Side(T, t.value, d) \in SUBSET Value
      BY DEF Side
    <3>5. Fine(k - 1)
      <4> HIDE DEF Fine
      <4> QED BY <2>2, <3>1
    <3>6. Find[k - 1][t.link[d]][v] <=> v \in Side(T, t.value, d)
      <4> HIDE DEF d
      <4> QED BY <3>2, <3>3, <3>4, <3>5
    <3>7. Find[k][t][v] <=> t.value = v \/ Find[k - 1][t.link[d]][v]
      BY <2>2, <2>3, <2>5, FindIs
    <3>8. v # t.value => (v \in Side(T, t.value, d) <=> v \in T)
      BY <3>1 DEF Side, Dir
    <3> HIDE DEF d
    <3> QED BY <2>3, <3>3, <3>6, <3>7, <3>8
  <2> QED BY <2>4, <2>5
<1>2. Fine(n)
  <2> HIDE DEF Fine
  <2> QED BY <1>1
<1> QED BY <1>2

\* A tree has no more levels, and no more black nodes on a path, than it has nodes.
LEMMA DepthIs ==
  ASSUME NEW node, NEW h \in Int, NEW S \in SUBSET Value, Is(node, h, S), IsFiniteSet(S)
  PROVE  Cardinality(S) \in Nat /\ node \in Tree[Cardinality(S)] /\ h \in 0..Cardinality(S)
<1> USE DEF Bit
<1> DEFINE Fine(t) == \A i \in Int, T \in SUBSET Value : Is(t, i, T) /\ IsFiniteSet(T) =>
                        t \in Tree[Cardinality(T)] /\ i <= Cardinality(T)
           Bad == {k \in Nat : ~\A t \in Tree[k] : Fine(t)}
<1>1. Bad = {}
  <2>1. SUFFICES ASSUME Bad # {} PROVE FALSE
    OBVIOUS
  <2>2. PICK k \in Bad : \A i \in Nat : i < k => i \notin Bad
    <3> HIDE DEF Fine
    <3> QED BY <2>1, LeastNumber
  <2>3. PICK t \in Tree[k], i \in Int, T \in SUBSET Value :
          Is(t, i, T) /\ IsFiniteSet(T) /\ ~(t \in Tree[Cardinality(T)] /\ i <= Cardinality(T))
    BY <2>2
  <2>4. Cardinality(T) \in Nat
    BY <2>3, FS_CardinalityType
  <2>5. CASE t = Leaf
    BY <2>3, <2>4, <2>5, IsLeaf, TreeIs
  <2>6. CASE t # Leaf
    <3>1. k - 1 \in Nat /\ t.value \in Value /\ t.red \in BOOLEAN /\ t.value \in Int
          /\ \A d \in 0..1 : t.link[d] \in Tree[k - 1]
      BY <2>2, <2>3, <2>6, NodeIs
    <3>2. t.value \in T /\ Below(t.red, i) \in Int
          /\ \A d \in 0..1 : Is(t.link[d], Below(t.red, i), Side(T, t.value, d))
      BY <2>3, <2>6, TakeApart
    <3>3. ASSUME NEW d \in 0..1
          PROVE  t.link[d] \in Tree[Cardinality(T) - 1] /\ Below(t.red, i) <= Cardinality(T) - 1
                 /\ Cardinality(T) - 1 \in Nat
      <4> DEFINE P == Side(T, t.value, d)
      <4>1. P \in SUBSET Value /\ P \subseteq T \ {t.value}
        <5>1. P \subseteq T
          BY DEF Side
        <5>2. ~(t.value < t.value)
          BY <3>1
        <5>3. t.value \notin P
          BY <5>2 DEF Side
        <5> HIDE DEF P
        <5> QED BY <5>1, <5>3
      <4>2. IsFiniteSet(T \ {t.value}) /\ Cardinality(T \ {t.value}) = Cardinality(T) - 1
        BY <2>3, <3>2, FS_RemoveElement
      <4>3. IsFiniteSet(P) /\ Cardinality(P) <= Cardinality(T) - 1
        BY <4>1, <4>2, FS_Subset
      <4>4. Cardinality(P) \in Nat /\ Cardinality(T) - 1 \in Nat
        BY <2>4, <4>3, FS_CardinalityType
      <4>5. Fine(t.link[d])
        <5> HIDE DEF Fine
        <5> QED BY <2>2, <3>1
      <4>6. t.link[d] \in Tree[Cardinality(P)] /\ Below(t.red, i) <= Cardinality(P)
        <5>1. Is(t.link[d], Below(t.red, i), P)
          BY <3>2
        <5> HIDE DEF P
        <5> QED BY <3>2, <4>1, <4>3, <4>5, <5>1
      <4>7. Tree[Cardinality(P)] \subseteq Tree[Cardinality(T) - 1]
        BY <4>3, <4>4, TreeMonotone
      <4> QED BY <3>2, <4>3, <4>4, <4>6, <4>7
    <3>4. t = Made(t.value, Black(t), 0, t.link[0], t.link[1]) /\ Black(t) \in Bit
      <4>1. t = Made(t.value, Black(t), 0, t.link[0], t.link[1 - 0]) /\ Black(t) \in Bit
        BY <2>2, <2>3, <2>6, MadeOf
      <4> QED BY <4>1
    <3>5. Made(t.value, Black(t), 0, t.link[0], t.link[1]) \in Tree[(Cardinality(T) - 1) + 1]
      BY <3>1, <3>3, <3>4, MadeInTree
    <3>6. (Cardinality(T) - 1) + 1 = Cardinality(T)
      BY <2>4
    <3>7. i <= Cardinality(T)
      BY <2>4, <3>3 DEF Below
    <3> QED BY <2>3, <3>4, <3>5, <3>6, <3>7
  <2> QED BY <2>5, <2>6
<1>2. PICK n \in Nat : node \in Tree[n]
  BY DEF Is
<1>3. Fine(node)
  <2> HIDE DEF Fine
  <2> QED BY <1>1, <1>2
<1>4. Cardinality(S) \in Nat
  BY FS_CardinalityType
<1>5. node \in Tree[Cardinality(S)] /\ h <= Cardinality(S)
  BY <1>3
<1>6. h \in Nat
  BY HeightIsNat
<1> QED BY <1>4, <1>5, <1>6

-----------------------------------------------------------------------------
(* insert().                                                               *)

\* A red-black tree, but for a red link of a red root.
Almost(node, h, S) ==
  \E v \in Value, b \in Bit, d \in Bit, k \in Int : \E A, B \in SUBSET Value : \E x, y :
    /\ node = Made(v, b, d, x, y)
    /\ Is(x, k, A) /\ Is(y, k, B) /\ Parted(A, v, B, d)
    /\ S = A \cup B \cup {v} /\ h = k + b
    /\ b = 0 => ~Red(y)

\* A tree, taken apart in a direction.
Apart(node, h, S, d, v, b, k, A, B, x, y) ==
  /\ node = Made(v, b, d, x, y)
  /\ Is(x, k, A) /\ Is(y, k, B) /\ Parted(A, v, B, d)
  /\ S = A \cup B \cup {v} /\ h = k + b
  /\ b = 0 => ~Red(x) /\ ~Red(y)

\* Every red-black tree but a leaf comes apart in either direction.
LEMMA IsApart ==
  ASSUME NEW node, NEW h \in Int, NEW S \in SUBSET Value, NEW d \in Bit,
         Is(node, h, S), node # Leaf
  PROVE  \E v \in Value, b \in Bit, k \in Int : \E A, B \in SUBSET Value : \E x, y :
           Apart(node, h, S, d, v, b, k, A, B, x, y)
<1> DEFINE v == node.value
           b == Black(node)
           k == Below(node.red, h)
           A == Side(S, v, d)
           B == Side(S, v, 1 - d)
           x == node.link[d]
           y == node.link[1 - d]
<1>1. PICK n \in Nat : node \in Tree[n]
  BY DEF Is
<1>2. node = Made(v, b, d, x, y) /\ b \in Bit /\ (node.red <=> b = 0)
  BY <1>1, MadeOf
<1>3. /\ v \in S /\ k \in Int
      /\ Is(x, k, A) /\ Is(y, k, B)
      /\ node.red => ~Red(x) /\ ~Red(y)
  BY TakeApart
<1>4. v \in Value
  BY <1>3
<1>5. /\ A \in SUBSET Value /\ B \in SUBSET Value
      /\ Parted(A, v, B, d) /\ S = A \cup B \cup {v}
  <2> HIDE DEF v
  <2> QED BY <1>3, <1>4, SideIs
<1>6. h = k + b
  BY DEF Below, Black
<1>7. Apart(node, h, S, d, v, b, k, A, B, x, y)
  BY <1>2, <1>3, <1>5, <1>6 DEF Apart
<1> HIDE DEF v, b, k, A, B, x, y
<1> QED BY <1>2, <1>3, <1>4, <1>5, <1>7

\* A red-black tree is nearly one ...
LEMMA IsAlmost ==
  ASSUME NEW node, NEW h \in Int, NEW S \in SUBSET Value, Is(node, h, S), node # Leaf
  PROVE  Almost(node, h, S)
<1>1. 0 \in Bit
  BY DEF Bit
<1>2. PICK v \in Value, b \in Bit, k \in Int : \E A, B \in SUBSET Value : \E x, y :
           Apart(node, h, S, 0, v, b, k, A, B, x, y)
  BY <1>1, IsApart
<1> QED BY <1>1, <1>2 DEF Almost, Apart

\* ... and a near one is one once its root is black.
LEMMA AlmostPainted ==
  ASSUME NEW node, NEW h \in Int, NEW S \in SUBSET Value, Almost(node, h, S)
  PROVE  /\ \E i \in Int : Is(Blackened(node), i, S)
         /\ Red(node) => Is(Blackened(node), h + 1, S)
         /\ ~Red(node) => Is(node, h, S)
         /\ node # Leaf /\ ~Red(Blackened(node)) /\ Blackened(node) # Leaf
<1>1. PICK v \in Value, b \in Bit, d \in Bit, k \in Int : \E A, B \in SUBSET Value : \E x, y :
        /\ node = Made(v, b, d, x, y)
        /\ Is(x, k, A) /\ Is(y, k, B) /\ Parted(A, v, B, d)
        /\ S = A \cup B \cup {v} /\ h = k + b
  BY DEF Almost
<1>2. PICK A \in SUBSET Value, B \in SUBSET Value : \E x, y :
        /\ node = Made(v, b, d, x, y)
        /\ Is(x, k, A) /\ Is(y, k, B) /\ Parted(A, v, B, d)
        /\ S = A \cup B \cup {v} /\ h = k + b
  BY <1>1
<1>3. PICK x, y :
        /\ node = Made(v, b, d, x, y)
        /\ Is(x, k, A) /\ Is(y, k, B) /\ Parted(A, v, B, d)
        /\ S = A \cup B \cup {v} /\ h = k + b
  BY <1>2
<1>4. Blackened(node) = Made(v, 1, d, x, y)
  BY <1>3, MadePainted
<1>5. Is(Made(v, 1, d, x, y), k + 1, S)
  BY <1>3, MakeTree, BitIs
<1>6. /\ ~Red(Made(v, 1, d, x, y)) /\ Made(v, 1, d, x, y) # Leaf
      /\ node # Leaf /\ (Red(node) <=> b = 0)
  <2>1. PICK e \in Bit : d # e
    BY Turn
  <2> QED BY <1>3, <2>1, MadeIs, MadeOther, BitIs
<1> QED BY <1>3, <1>4, <1>5, <1>6, BitIs

\* A rotation, of nodes that are known: the link comes up and is black.
LEMMA RotateIs ==
  ASSUME NEW v, NEW b \in Bit, NEW d \in Bit, NEW e \in Bit, d # e,
         NEW w, NEW q \in Bit, NEW x, NEW y, NEW z
  PROVE  Rotate(Made(v, b, d, Made(w, q, d, x, y), z), e) = Made(w, 1, d, x, Made(v, 0, d, y, z))
<1> DEFINE below == Made(w, q, d, x, y)
           a == Made(v, b, d, below, z)
<1>1. a.link[d] = below
  <2> HIDE DEF below
  <2> QED BY MadeIs, MadeOther, BitIs
<1>2. below.link[e] = y
  BY MadeIs, MadeOther, BitIs
<1>3. Reddened(a) = Made(v, 0, d, below, z)
  <2> HIDE DEF below
  <2> QED BY MadePainted, BitIs
<1>4. Linked(Made(v, 0, d, below, z), d, y) = Made(v, 0, d, y, z)
  <2> HIDE DEF below
  <2> QED BY MadeLinked, BitIs
<1>5. Blackened(below) = Made(w, 1, d, x, y)
  BY MadePainted, BitIs
<1>6. ASSUME NEW u PROVE Linked(Made(w, 1, d, x, y), e, u) = Made(w, 1, d, x, u)
  BY MadeLinkedOther, BitIs
<1>7. d = 1 - e
  BY DEF Bit
<1> HIDE DEF a, below
<1>8. Rotate(a, e) = Linked(Blackened(below), e, Linked(Reddened(a), d, y))
  BY <1>1, <1>2, <1>7, RotateOf
<1>9. Rotate(a, e) = Linked(Made(w, 1, d, x, y), e, Made(v, 0, d, y, z))
  BY <1>3, <1>4, <1>5, <1>8
<1> QED BY <1>6, <1>9 DEF a, below

\* Two rotations: the link's link comes up and is black.
LEMMA RotateTwiceIs ==
  ASSUME NEW v, NEW b \in Bit, NEW d \in Bit, NEW e \in Bit, d # e, NEW w, NEW q \in Bit,
         NEW u, NEW p \in Bit, NEW x, NEW y1, NEW y2, NEW z
  PROVE  RotateTwice(Made(v, b, d, Made(w, q, d, x, Made(u, p, d, y1, y2)), z), e)
           = Made(u, 1, d, Made(w, 0, d, x, y1), Made(v, 0, d, y2, z))
<1> DEFINE inner == Made(u, p, d, y1, y2)
           c == Made(w, q, d, x, inner)
           a == Made(v, b, d, c, z)
           low == Made(w, 0, d, x, y1)
           top == Made(u, 1, d, low, y2)
<1>1. d = 1 - e
  BY DEF Bit
<1>2. c = Made(w, q, e, Made(u, p, e, y2, y1), x)
  <2>1. inner = Made(u, p, e, y2, y1)
    BY MadeTurned, BitIs
  <2>2. c = Made(w, q, e, inner, x)
    <3> HIDE DEF inner
    <3> QED BY MadeTurned, BitIs
  <2> HIDE DEF c, inner
  <2> QED BY <2>1, <2>2
<1>3. Rotate(c, d) = Made(u, 1, e, y2, Made(w, 0, e, y1, x))
  <2> HIDE DEF c
  <2>1. Rotate(Made(w, q, e, Made(u, p, e, y2, y1), x), d)
           = Made(u, 1, e, y2, Made(w, 0, e, y1, x))
    BY RotateIs, BitIs
  <2> QED BY <1>2, <2>1
<1>4. Rotate(c, d) = top
  <2>1. low = Made(w, 0, e, y1, x)
    BY MadeTurned, BitIs
  <2>2. top = Made(u, 1, e, y2, low)
    <3> HIDE DEF low
    <3> QED BY MadeTurned, BitIs
  <2> HIDE DEF c, top, low
  <2> QED BY <1>3, <2>1, <2>2
<1>5. a.link[d] = c
  <2> HIDE DEF c
  <2> QED BY MadeIs, MadeOther, BitIs
<1>6. Linked(a, d, top) = Made(v, b, d, top, z)
  <2> HIDE DEF c, top
  <2> QED BY MadeLinked
<1>7. RotateTwice(a, e) = Rotate(Linked(a, d, Rotate(c, d)), e)
  <2> HIDE DEF a, c
  <2> QED BY <1>1, <1>5, RotateTwiceOf
<1>8. Rotate(Made(v, b, d, top, z), e) = Made(u, 1, d, low, Made(v, 0, d, y2, z))
  <2> HIDE DEF low
  <2> QED BY RotateIs, BitIs DEF top
<1>9. RotateTwice(a, e) = Made(u, 1, d, low, Made(v, 0, d, y2, z))
  <2> HIDE DEF a, c, top, low
  <2> QED BY <1>4, <1>6, <1>7, <1>8
<1> QED BY <1>9

\* The order in a tree, as a node moves down on one side and up on the other.
LEMMA PartedTurned ==
  ASSUME NEW d \in Bit, NEW e \in Bit, d # e, NEW A \in SUBSET Value, NEW B \in SUBSET Value,
         NEW v \in Value, Parted(A, v, B, d)
  PROVE  Parted(B, v, A, e)
<1>1. A \subseteq Int /\ B \subseteq Int /\ v \in Int /\ e = 1 - d
  BY ValueAssumption DEF Bit
<1>2. \A a, b \in Int : Before(a, b, e) <=> Before(b, a, d)
  BY <1>1, BeforeIs
<1> QED BY <1>1, <1>2 DEF Parted

\* ... when a node moves down on the far side ...
LEMMA PartedRight ==
  ASSUME NEW d \in Bit, NEW A1 \in SUBSET Value, NEW A2 \in SUBSET Value, NEW B \in SUBSET Value,
         NEW v \in Value, NEW w \in Value,
         Parted(A1 \cup A2 \cup {w}, v, B, d), Parted(A1, w, A2, d)
  PROVE  Parted(A2, v, B, d) /\ Parted(A1, w, A2 \cup B \cup {v}, d)
<1>1. A1 \subseteq Int /\ A2 \subseteq Int /\ B \subseteq Int /\ v \in Int /\ w \in Int
  BY ValueAssumption
<1>2. \A a, b, c \in Int : Before(a, b, d) /\ Before(b, c, d) => Before(a, c, d)
  BY BeforeIs
<1> QED BY <1>1, <1>2 DEF Parted

\* ... or on the near side.
LEMMA PartedLeft ==
  ASSUME NEW d \in Bit, NEW A \in SUBSET Value, NEW B1 \in SUBSET Value, NEW B2 \in SUBSET Value,
         NEW v \in Value, NEW w \in Value,
         Parted(A, w, B1 \cup B2 \cup {v}, d), Parted(B1, v, B2, d)
  PROVE  Parted(A, w, B1, d) /\ Parted(A \cup B1 \cup {w}, v, B2, d)
<1>1. A \subseteq Int /\ B1 \subseteq Int /\ B2 \subseteq Int /\ v \in Int /\ w \in Int
  BY ValueAssumption
<1>2. \A a, b, c \in Int : Before(a, b, d) /\ Before(b, c, d) => Before(a, c, d)
  BY BeforeIs
<1> QED BY <1>1, <1>2 DEF Parted

\* The four outcomes of Repair().
LEMMA RepairOf ==
  ASSUME NEW v, NEW b \in Bit, NEW d \in Bit, NEW e \in Bit, d # e, NEW c, NEW y
  PROVE  LET node == Made(v, b, d, c, y)
         IN /\ ~Red(c) => Repair(node, d) = node
            /\ Red(c) /\ Red(y) => Repair(node, d) = Made(v, 0, d, Blackened(c), Blackened(y))
            /\ Red(c) /\ ~Red(y) =>
                 /\ Red(c.link[d]) => Repair(node, d) = Rotate(node, e)
                 /\ ~Red(c.link[d]) /\ Red(c.link[e]) => Repair(node, d) = RotateTwice(node, e)
                 /\ ~Red(c.link[d]) /\ ~Red(c.link[e]) => Repair(node, d) = node
<1> DEFINE node == Made(v, b, d, c, y)
<1>1. node.link[d] = c /\ node.link[e] = y /\ e = 1 - d
  BY MadeIs, MadeOther DEF Bit
<1>2. RecoloredRed(node) = Made(v, 0, d, Blackened(c), Blackened(y))
  BY RecoloredIs
<1> HIDE DEF node
<1>3. ~Red(c) => Repair(node, d) = node
  BY <1>1 DEF Repair
<1>4. Red(c) /\ Red(y) => Repair(node, d) = Made(v, 0, d, Blackened(c), Blackened(y))
  BY <1>1, <1>2, Zenon DEF Repair, Recolored, RecoloredRed
<1>5. Red(c) /\ ~Red(y) =>
        /\ Red(c.link[d]) => Repair(node, d) = Rotate(node, e)
        /\ ~Red(c.link[d]) /\ Red(c.link[e]) => Repair(node, d) = RotateTwice(node, e)
        /\ ~Red(c.link[d]) /\ ~Red(c.link[e]) => Repair(node, d) = node
  BY <1>1, Zenon DEF Repair
<1> QED BY <1>3, <1>4, <1>5 DEF node

\* The way back of insert() makes a red-black tree of a black node, and all but one of a
\* red node, whose child was black.
LEMMA RepairIs ==
  ASSUME NEW v \in Value, NEW b \in Bit, NEW d \in Bit, NEW c, NEW y, NEW k \in Int,
         NEW A \in SUBSET Value, NEW B \in SUBSET Value,
         Almost(c, k, A), Is(y, k, B), Parted(A, v, B, d),
         b = 0 => Is(c, k, A) /\ ~Red(y)
  PROVE  /\ Almost(Repair(Made(v, b, d, c, y), d), k + b, A \cup B \cup {v})
         /\ b = 1 => Is(Repair(Made(v, b, d, c, y), d), k + b, A \cup B \cup {v})
<1> DEFINE node == Made(v, b, d, c, y)
           S == A \cup B \cup {v}
<1>1. PICK e \in Bit : d # e /\ e = 1 - d /\ d = 1 - e
  BY Turn
<1>2. S \in SUBSET Value /\ k + b \in Int
  BY BitIs
<1>3. /\ ~Red(c) => Repair(node, d) = node
      /\ Red(c) /\ Red(y) => Repair(node, d) = Made(v, 0, d, Blackened(c), Blackened(y))
      /\ Red(c) /\ ~Red(y) =>
           /\ Red(c.link[d]) => Repair(node, d) = Rotate(node, e)
           /\ ~Red(c.link[d]) /\ Red(c.link[e]) => Repair(node, d) = RotateTwice(node, e)
           /\ ~Red(c.link[d]) /\ ~Red(c.link[e]) => Repair(node, d) = node
  BY <1>1, RepairOf
<1>4. Red(c) => c # Leaf
  BY DEF Red
<1>5. ASSUME Is(c, k, A), Red(c) PROVE ~Red(c.link[d]) /\ ~Red(c.link[e])
  <2>1. c.red
    BY <1>5 DEF Red
  <2> QED BY <1>1, <1>4, <1>5, <2>1, TakeApart
<1>6. ASSUME NEW t, Is(t, k + b, S), t # Leaf
      PROVE  Almost(t, k + b, S)
  BY <1>2, <1>6, IsAlmost
<1>7. CASE b = 0
  <2>1. Repair(node, d) = node
    BY <1>3, <1>5, <1>7
  <2>2. Almost(node, k + b, S)
    BY <1>7 DEF Almost
  <2> QED BY <1>7, <2>1, <2>2, BitIs
<1>8. CASE b = 1
  <2>1. SUFFICES Is(Repair(node, d), k + 1, S) /\ Repair(node, d) # Leaf
    BY <1>6, <1>8
  <2>2. CASE ~Red(c) \/ (~Red(y) /\ Is(c, k, A))
    <3>1. Is(c, k, A)
      BY <2>2, AlmostPainted
    <3>2. Repair(node, d) = node
      BY <1>3, <1>5, <2>2
    <3>3. Is(node, k + 1, S)
      BY <1>8, <3>1, MakeTree, BitIs
    <3>4. node # Leaf
      BY <1>1, MadeIs, MadeOther
    <3> QED BY <3>2, <3>3, <3>4
  <2>3. CASE Red(c) /\ Red(y)
    <3>1. Is(Blackened(c), k + 1, A) /\ ~Red(Blackened(c))
      BY <2>3, AlmostPainted
    <3>2. Almost(y, k, B)
      BY <2>3, IsAlmost DEF Red
    <3>3. Is(Blackened(y), k + 1, B) /\ ~Red(Blackened(y))
      BY <2>3, <3>2, AlmostPainted
    <3>4. Is(Made(v, 0, d, Blackened(c), Blackened(y)), k + 1, S)
      <4>1. k + 1 \in Int /\ (k + 1) + 0 = k + 1
        OBVIOUS
      <4>2. Is(Made(v, 0, d, Blackened(c), Blackened(y)), (k + 1) + 0, S)
        BY <3>1, <3>3, <4>1, MakeTree, BitIs
      <4> QED BY <4>1, <4>2
    <3>5. Made(v, 0, d, Blackened(c), Blackened(y)) # Leaf
      BY <1>1, MadeIs, MadeOther, BitIs
    <3> QED BY <1>3, <2>3, <3>4, <3>5
  <2>4. CASE Red(c) /\ ~Red(y) /\ ~Is(c, k, A)
    <3>1. PICK w \in Value, q \in Bit, g \in Bit, i \in Int : \E A1, A2 \in SUBSET Value : \E x1, x2 :
            /\ c = Made(w, q, g, x1, x2)
            /\ Is(x1, i, A1) /\ Is(x2, i, A2) /\ Parted(A1, w, A2, g)
            /\ A = A1 \cup A2 \cup {w} /\ k = i + q
            /\ q = 0 => ~Red(x2)
      BY DEF Almost
    <3>2. PICK A1 \in SUBSET Value, A2 \in SUBSET Value : \E x1, x2 :
            /\ c = Made(w, q, g, x1, x2)
            /\ Is(x1, i, A1) /\ Is(x2, i, A2) /\ Parted(A1, w, A2, g)
            /\ A = A1 \cup A2 \cup {w} /\ k = i + q
            /\ q = 0 => ~Red(x2)
      BY <3>1
    <3>3. PICK x1, x2 :
            /\ c = Made(w, q, g, x1, x2)
            /\ Is(x1, i, A1) /\ Is(x2, i, A2) /\ Parted(A1, w, A2, g)
            /\ A = A1 \cup A2 \cup {w} /\ k = i + q
            /\ q = 0 => ~Red(x2)
      BY <3>2
    <3>4. q = 0 /\ i = k
      <4>1. PICK f \in Bit : g # f
        BY Turn
      <4>2. q = 0
        BY <2>4, <3>3, <4>1, MadeIs, MadeOther
      <4> QED BY <3>3, <4>2
    <3>5. Red(x1)
      <4>1. SUFFICES ASSUME ~Red(x1) PROVE Is(c, k, A)
        BY <2>4
      <4>2. Is(Made(w, q, g, x1, x2), i + q, A1 \cup A2 \cup {w})
        BY <3>3, <4>1, MakeTree
      <4> QED BY <3>3, <4>2
    <3>6. CASE g = d
      <4>1. c = Made(w, 0, d, x1, x2) /\ Is(x1, k, A1) /\ Is(x2, k, A2)
            /\ Parted(A1, w, A2, d) /\ ~Red(x2)
        BY <3>3, <3>4, <3>6
      <4>2. Red(c.link[d])
        BY <1>1, <3>5, <4>1, MadeIs, MadeOther, BitIs
      <4>3. Repair(node, d) = Rotate(node, e)
        BY <1>3, <2>4, <4>2
      <4> DEFINE low == Made(v, 0, d, x2, y)
                 B1 == A2 \cup B \cup {v}
      <4>4. Rotate(node, e) = Made(w, 1, d, x1, low)
        BY <1>1, <4>1, RotateIs, BitIs
      <4>5. Parted(A2, v, B, d) /\ Parted(A1, w, A2 \cup B \cup {v}, d)
        <5>1. Parted(A1 \cup A2 \cup {w}, v, B, d)
          BY <3>3
        <5> QED BY <4>1, <5>1, PartedRight
      <4>6. Is(low, k, B1) /\ B1 \in SUBSET Value
        <5>1. Is(Made(v, 0, d, x2, y), k + 0, A2 \cup B \cup {v})
          BY <2>4, <4>1, <4>5, MakeTree, BitIs
        <5> QED BY <5>1
      <4>7. Is(Made(w, 1, d, x1, low), k + 1, A1 \cup B1 \cup {w})
        <5>1. Parted(A1, w, B1, d)
          BY <4>5
        <5> HIDE DEF low, B1
        <5> QED BY <4>1, <4>6, <5>1, MakeTree, BitIs
      <4>8. A1 \cup B1 \cup {w} = S
        BY <3>3
      <4>9. Made(w, 1, d, x1, low) # Leaf
        <5> HIDE DEF low
        <5> QED BY <1>1, MadeIs, MadeOther, BitIs
      <4> QED BY <4>3, <4>4, <4>7, <4>8, <4>9
    <3>7. CASE g # d
      <4>1. g = e
        BY <1>1, <3>7, BitIs
      <4>2. /\ c = Made(w, 0, d, x2, x1) /\ Is(x1, k, A1) /\ Is(x2, k, A2) /\ ~Red(x2)
            /\ Parted(A2, w, A1, d)
        <5>1. c = Made(w, 0, e, x1, x2) /\ Parted(A1, w, A2, e)
          BY <3>3, <3>4, <4>1
        <5>2. Made(w, 0, e, x1, x2) = Made(w, 0, d, x2, x1)
          BY <1>1, MadeTurned, BitIs
        <5>3. Parted(A2, w, A1, d)
          BY <1>1, <5>1, PartedTurned
        <5> QED BY <3>3, <3>4, <5>1, <5>2, <5>3
      <4>3. ~Red(c.link[d]) /\ Red(c.link[e])
        BY <1>1, <3>5, <4>2, MadeIs, MadeOther, BitIs
      <4>4. Repair(node, d) = RotateTwice(node, e)
        BY <1>3, <2>4, <4>3
      <4>5. x1 # Leaf /\ x1.red
        BY <3>5 DEF Red
      <4>6. PICK u \in Value, p \in Bit, j \in Int : \E C1, C2 \in SUBSET Value : \E y1, y2 :
              Apart(x1, k, A1, d, u, p, j, C1, C2, y1, y2)
        BY <4>2, <4>5, IsApart
      <4>7. PICK C1 \in SUBSET Value, C2 \in SUBSET Value : \E y1, y2 :
              Apart(x1, k, A1, d, u, p, j, C1, C2, y1, y2)
        BY <4>6
      <4>8. PICK y1, y2 :
           /\ x1 = Made(u, p, d, y1, y2)
           /\ Is(y1, j, C1) /\ Is(y2, j, C2) /\ Parted(C1, u, C2, d)
           /\ A1 = C1 \cup C2 \cup {u} /\ k = j + p
           /\ p = 0 => ~Red(y1) /\ ~Red(y2)
        BY <4>7 DEF Apart
      <4>9. p = 0 /\ j = k
        <5>1. p = 0
          BY <1>1, <3>5, <4>8, MadeIs, MadeOther
        <5> QED BY <4>8, <5>1
      <4>10. /\ x1 = Made(u, 0, d, y1, y2)
             /\ Is(y1, k, C1) /\ Is(y2, k, C2) /\ Parted(C1, u, C2, d) /\ A1 = C1 \cup C2 \cup {u}
             /\ ~Red(y1) /\ ~Red(y2)
        BY <4>8, <4>9
      <4> DEFINE left == Made(w, 0, d, x2, y1)
                 right == Made(v, 0, d, y2, y)
                 L == A2 \cup C1 \cup {w}
                 R == C2 \cup B \cup {v}
      <4>11. RotateTwice(node, e) = Made(u, 1, d, left, right)
        BY <1>1, <4>2, <4>10, RotateTwiceIs, BitIs
      <4>12. Parted(A2, w, C1, d) /\ Parted(L, u, C2, d)
        BY <4>2, <4>10, PartedLeft
      <4>13. Parted(C2, v, B, d) /\ Parted(L, u, R, d)
        <5>1. L \cup C2 \cup {u} = A /\ L \in SUBSET Value
          BY <3>3, <4>10
        <5>2. Parted(L \cup C2 \cup {u}, v, B, d)
          BY <5>1
        <5> HIDE DEF L
        <5> QED BY <4>12, <5>1, <5>2, PartedRight
      <4>14. Is(left, k, L) /\ L \in SUBSET Value
        <5>1. Is(left, k + 0, L)
          BY <4>2, <4>10, <4>12, MakeTree, BitIs
        <5> QED BY <5>1
      <4>15. Is(right, k, R) /\ R \in SUBSET Value
        <5>1. Is(right, k + 0, R)
          BY <2>4, <4>10, <4>13, MakeTree, BitIs
        <5> QED BY <5>1
      <4>16. Is(Made(u, 1, d, left, right), k + 1, L \cup R \cup {u})
        <5> HIDE DEF left, right, L, R
        <5> QED BY <4>13, <4>14, <4>15, MakeTree, BitIs
      <4>17. L \cup R \cup {u} = S
        BY <3>3, <4>10
      <4>18. Made(u, 1, d, left, right) # Leaf
        <5> HIDE DEF left, right
        <5> QED BY <1>1, MadeIs, MadeOther, BitIs
      <4> QED BY <4>4, <4>11, <4>16, <4>17, <4>18
    <3> QED BY <3>6, <3>7
  <2> QED BY <2>2, <2>3, <2>4
<1> QED BY <1>7, <1>8, BitIs

\* insert(), one level of it.
LEMMA InsertedIs ==
  ASSUME NEW n \in Nat, NEW node \in Tree[n], NEW value \in Value
  PROVE  /\ node = Leaf => Inserted[n][node][value] = Node(value)
         /\ node # Leaf /\ node.value = value => Inserted[n][node][value] = node
         /\ node # Leaf /\ node.value # value =>
              Inserted[n][node][value] =
                Repair(Linked(node, Dir(node, value),
                              Inserted[n - 1][node.link[Dir(node, value)]][value]),
                       Dir(node, value))
<1> DEFINE below == Inserted[n - 1]
           d == Dir(node, value)
<1>1. Inserted[n] = InsertedAt(below, n)
  BY InsertedStep
<1> HIDE DEF below
<1>2. InsertedAt(below, n)[node][value] =
         IF node = Leaf THEN Node(value)
         ELSE IF node.value = value THEN node
         ELSE Repair([node EXCEPT !.link[d] = below[@][value]], d)
  BY DEF InsertedAt
<1>3. [node EXCEPT !.link[d] = below[@][value]] = Linked(node, d, below[node.link[d]][value])
  BY Zenon DEF Linked
<1> HIDE DEF d
<1>4. Inserted[n][node][value] =
         IF node = Leaf THEN Node(value)
         ELSE IF node.value = value THEN node
         ELSE Repair(Linked(node, d, below[node.link[d]][value]), d)
  BY <1>1, <1>2, <1>3, Zenon
<1> QED BY <1>4, Zenon DEF below, d

\* Inserting a value, by induction on how deep a tree may be.
LEMMA InsertIs ==
  ASSUME NEW n \in Nat, NEW node \in Tree[n], NEW h \in Int, NEW S \in SUBSET Value,
         Is(node, h, S), NEW v \in Value
  PROVE  /\ Almost(Inserted[n][node][v], h, S \cup {v})
         /\ ~Red(node) => Is(Inserted[n][node][v], h, S \cup {v})
<1> DEFINE Fine(k, t, i, T) == /\ Almost(Inserted[k][t][v], i, T \cup {v})
                               /\ ~Red(t) => Is(Inserted[k][t][v], i, T \cup {v})
           AllFine(k) == \A t \in Tree[k], i \in Int, T \in SUBSET Value : Is(t, i, T) => Fine(k, t, i, T)
           Bad == {k \in Nat : ~AllFine(k)}
<1>1. Bad = {}
  <2>1. SUFFICES ASSUME Bad # {} PROVE FALSE
    OBVIOUS
  <2>2. PICK k \in Bad : \A i \in Nat : i < k => i \notin Bad
    <3> HIDE DEF AllFine
    <3> QED BY <2>1, LeastNumber
  <2>3. PICK t \in Tree[k], h2 \in Int, T \in SUBSET Value : Is(t, h2, T) /\ ~Fine(k, t, h2, T)
    <3> HIDE DEF Fine
    <3> QED BY <2>2
  <2>4. k \in Nat
    OBVIOUS
  <2>5. T \cup {v} \in SUBSET Value
    OBVIOUS
  <2>6. CASE t = Leaf
    <3>1. h2 = 0 /\ T = {}
      BY <2>3, <2>6, IsLeaf
    <3>2. Node(v) = Made(v, 0, 0, Leaf, Leaf)
      <4>1. Node(v) = [value |-> v, red |-> TRUE, link |-> [e \in 0..1 |-> Leaf]]
        BY Zenon DEF Node
      <4>2. Made(v, 0, 0, Leaf, Leaf)
              = [value |-> v, red |-> 0 = 0, link |-> [e \in 0..1 |-> IF e = 0 THEN Leaf ELSE Leaf]]
        BY Zenon DEF Made
      <4>3. (0 = 0) = TRUE
        OBVIOUS
      <4>4. [e \in 0..1 |-> IF e = 0 THEN Leaf ELSE Leaf] = [e \in 0..1 |-> Leaf]
        OBVIOUS
      <4> QED BY <4>1, <4>2, <4>3, <4>4, Zenon
    <3>3. Is(Leaf, 0, {}) /\ ~Red(Leaf)
      BY IsLeaf DEF Red
    <3>4. Is(Made(v, 0, 0, Leaf, Leaf), 0, T \cup {v})
      <4>1. {} \in SUBSET Value /\ Parted({}, v, {}, 0)
        BY DEF Parted
      <4>2. Is(Made(v, 0, 0, Leaf, Leaf), 0 + 0, {} \cup {} \cup {v})
        BY <3>3, <4>1, MakeTree, BitIs
      <4> QED BY <3>1, <4>2
    <3>5. Inserted[k][t][v] = Made(v, 0, 0, Leaf, Leaf)
      BY <2>4, <2>6, <3>2, InsertedIs
    <3>6. Made(v, 0, 0, Leaf, Leaf) # Leaf
      BY MadeIs, BitIs
    <3>7. Almost(Made(v, 0, 0, Leaf, Leaf), 0, T \cup {v})
      BY <2>5, <3>4, <3>6, IsAlmost
    <3> QED BY <2>3, <3>1, <3>4, <3>5, <3>7
  <2>7. CASE t # Leaf /\ t.value = v
    <3>1. Inserted[k][t][v] = t
      BY <2>4, <2>7, InsertedIs
    <3>2. v \in T
      BY <2>3, <2>7, TakeApart, BitIs
    <3>3. T \cup {v} = T
      BY <3>2
    <3>4. Almost(t, h2, T)
      BY <2>3, <2>7, IsAlmost
    <3> QED BY <2>3, <3>1, <3>3, <3>4
  <2>8. CASE t # Leaf /\ t.value # v
    <3> DEFINE d == Dir(t, v)
    <3>1. d \in Bit
      BY DEF Dir, Bit
    <3>2. PICK w \in Value, b \in Bit, i \in Int : \E A, B \in SUBSET Value : \E x, y :
            Apart(t, h2, T, d, w, b, i, A, B, x, y)
      <4> HIDE DEF d
      <4> QED BY <2>3, <2>8, <3>1, IsApart
    <3>3. PICK A \in SUBSET Value, B \in SUBSET Value : \E x, y :
            Apart(t, h2, T, d, w, b, i, A, B, x, y)
      BY <3>2
    <3>4. PICK x, y : Apart(t, h2, T, d, w, b, i, A, B, x, y)
      BY <3>3
    <3>5. /\ t = Made(w, b, d, x, y)
          /\ Is(x, i, A) /\ Is(y, i, B) /\ Parted(A, w, B, d)
          /\ T = A \cup B \cup {w} /\ h2 = i + b
          /\ b = 0 => ~Red(x) /\ ~Red(y)
      <4> HIDE DEF d
      <4> QED BY <3>4 DEF Apart
    <3>6. t.value = w /\ t.link[d] = x /\ (Red(t) <=> b = 0)
      <4> HIDE DEF d
      <4> QED BY <3>1, <3>5, MadeIs
    <3>7. k - 1 \in Nat /\ k - 1 < k /\ x \in Tree[k - 1]
      <4>1. k - 1 \in Nat /\ t.link[d] \in Tree[k - 1]
        <5> HIDE DEF d
        <5> QED BY <2>3, <2>4, <2>8, <3>1, NodeIs
      <4> HIDE DEF d
      <4> QED BY <3>6, <4>1
    <3> DEFINE R == Inserted[k - 1][x][v]
    <3>8. Almost(R, i, A \cup {v}) /\ (~Red(x) => Is(R, i, A \cup {v}))
      <4>1. AllFine(k - 1)
        <5> HIDE DEF AllFine
        <5> QED BY <2>2, <3>7
      <4> QED BY <3>5, <3>7, <4>1
    <3>9. Parted(A \cup {v}, w, B, d)
      <4>1. v \in Int /\ w \in Int /\ v # w
        BY <2>8, <3>6, ValueAssumption
      <4>2. d = IF w < v THEN 1 ELSE 0
        BY <3>6 DEF Dir
      <4>3. Before(v, w, d)
        BY <4>1, <4>2 DEF Before
      <4> HIDE DEF d
      <4> QED BY <3>5, <4>3 DEF Parted
    <3>10. Inserted[k][t][v] = Repair(Made(w, b, d, R, y), d)
      <4>1. Inserted[k][t][v] = Repair(Linked(t, d, Inserted[k - 1][t.link[d]][v]), d)
        BY <2>4, <2>8, InsertedIs, Zenon
      <4> HIDE DEF d, R
      <4>2. Linked(t, d, R) = Made(w, b, d, R, y)
        BY <3>1, <3>5, MadeLinked
      <4>3. Inserted[k - 1][t.link[d]][v] = R
        BY <3>6 DEF R
      <4> QED BY <4>1, <4>2, <4>3, Zenon
    <3> DEFINE A2 == A \cup {v}
    <3>11. /\ Almost(Repair(Made(w, b, d, R, y), d), i + b, A2 \cup B \cup {w})
           /\ b = 1 => Is(Repair(Made(w, b, d, R, y), d), i + b, A2 \cup B \cup {w})
      <4>1. A2 \in SUBSET Value /\ Parted(A2, w, B, d) /\ Almost(R, i, A2)
            /\ (b = 0 => Is(R, i, A2) /\ ~Red(y))
        BY <3>5, <3>8, <3>9
      <4> HIDE DEF d, R, A2
      <4> QED BY <3>1, <3>5, <4>1, RepairIs
    <3>12. A2 \cup B \cup {w} = T \cup {v}
      BY <3>5
    <3>13. ~Red(t) => b = 1
      BY <3>6, BitIs
    <3> HIDE DEF d, R, A2
    <3> QED BY <2>3, <3>5, <3>10, <3>11, <3>12, <3>13
  <2> QED BY <2>6, <2>7, <2>8
<1>2. AllFine(n)
  <2> HIDE DEF AllFine
  <2> QED BY <1>1
<1> QED BY <1>2

-----------------------------------------------------------------------------
(* remove().                                                               *)

\* What remains of a node of this height after a removal: a tree of its height, red only if
\* the node was, or, if that is not done, a black one of a height one less.
Remains(result, h, S, b) ==
  /\ result.done => Is(result.tree, h, S) /\ (Red(result.tree) => b = 0)
  /\ ~result.done => Is(result.tree, h - 1, S) /\ ~Red(result.tree) /\ b = 1

\* The outcomes of BalanceAt().
LEMMA BalanceAtOf ==
  ASSUME NEW v, NEW b \in Bit, NEW d \in Bit, NEW e \in Bit, d # e, NEW s, NEW x
  PROVE  LET p == Made(v, b, d, s, x)
             top == IF Red(s.link[d]) THEN Rotate(p, e) ELSE RotateTwice(p, e)
         IN /\ ~Red(s.link[d]) /\ ~Red(s.link[e]) =>
                 /\ BalanceAt(p, e).tree = Made(v, 1, d, Reddened(s), x)
                 /\ BalanceAt(p, e).done <=> b = 0
            /\ Red(s.link[d]) \/ Red(s.link[e]) =>
                 /\ b = 0 => BalanceAt(p, e).tree = RecoloredRed(top)
                 /\ b = 1 => BalanceAt(p, e).tree = RecoloredBlack(top)
                 /\ BalanceAt(p, e).done
<1> DEFINE p == Made(v, b, d, s, x)
           top == IF Red(s.link[d]) THEN Rotate(p, e) ELSE RotateTwice(p, e)
           black == ~Red(s.link[0]) /\ ~Red(s.link[1])
           result == IF black THEN [tree |-> Linked(Blackened(p), d, Reddened(s)), done |-> p.red]
                     ELSE [tree |-> Recolored(top, p.red), done |-> TRUE]
<1>1. p.link[d] = s /\ (p.red <=> b = 0) /\ p.red \in BOOLEAN
  BY MadeIs
<1>2. d = 1 - e
  BY DEF Bit
<1>3. Linked(Blackened(p), d, Reddened(s)) = Made(v, 1, d, Reddened(s), x)
  BY MadePainted, MadeLinked, BitIs
<1>4. black <=> ~Red(s.link[d]) /\ ~Red(s.link[e])
  <2>1. (d = 0 /\ e = 1) \/ (d = 1 /\ e = 0)
    BY BitIs
  <2> QED BY <2>1
<1> HIDE DEF p
<1>5. BalanceAt(p, e) = result
  <2>1. [p EXCEPT !.red = FALSE, !.link[d] = Painted(@, TRUE)] = Linked(Blackened(p), d, Painted(Blackened(p).link[d], TRUE))
    BY Zenon DEF Linked, Blackened, Painted
  <2>2. Blackened(p).link[d] = s
    <3>1. Blackened(p) = Made(v, 1, d, s, x)
      BY MadePainted DEF p
    <3> QED BY <3>1, MadeIs, BitIs
  <2>3. [p EXCEPT !.red = FALSE, !.link[d] = Painted(@, TRUE)] = Linked(Blackened(p), d, Reddened(s))
    BY <2>1, <2>2, Zenon DEF Reddened
  <2>4. [top EXCEPT !.red = p.red, !.link = [i \in 0..1 |-> Painted(@[i], FALSE)]] = Recolored(top, p.red)
    BY Zenon DEF Recolored
  <2>5. p.link[1 - e] = s /\ (p.link[1 - e]).link[1 - e] = s.link[d]
    BY <1>1, <1>2
  <2> HIDE DEF top
  <2>6. BalanceAt(p, e) =
          IF black THEN [tree |-> [p EXCEPT !.red = FALSE, !.link[d] = Painted(@, TRUE)], done |-> p.red]
          ELSE [tree |-> [top EXCEPT !.red = p.red, !.link = [i \in 0..1 |-> Painted(@[i], FALSE)]],
                done |-> TRUE]
    BY <1>2, <2>5, Zenon DEF BalanceAt, top
  <2> HIDE DEF black
  <2> QED BY <2>3, <2>4, <2>6, Zenon
<1> HIDE DEF top, black
<1>6. black => BalanceAt(p, e).tree = Made(v, 1, d, Reddened(s), x) /\ (BalanceAt(p, e).done <=> b = 0)
  BY <1>1, <1>3, <1>5
<1>7. ~black => BalanceAt(p, e).tree = Recolored(top, p.red) /\ BalanceAt(p, e).done
  BY <1>5
<1>8. b = 0 => Recolored(top, p.red) = RecoloredRed(top)
  <2>1. b = 0 => p.red = TRUE
    BY <1>1
  <2> QED BY <2>1, Zenon DEF RecoloredRed
<1>9. b = 1 => Recolored(top, p.red) = RecoloredBlack(top)
  <2>1. b = 1 => p.red = FALSE
    BY <1>1
  <2> QED BY <2>1, Zenon DEF RecoloredBlack
<1> QED BY <1>4, <1>6, <1>7, <1>8, <1>9, Zenon DEF p, top

\* balance() with a black sibling, where a path is one black node short.
LEMMA BalanceAtIs ==
  ASSUME NEW v \in Value, NEW b \in Bit, NEW d \in Bit, NEW e \in Bit, d # e,
         NEW s, NEW x, NEW k \in Int, NEW A \in SUBSET Value, NEW B \in SUBSET Value,
         Is(s, k + 1, A), s # Leaf, ~Red(s), Is(x, k, B), ~Red(x), Parted(A, v, B, d)
  PROVE  /\ Remains(BalanceAt(Made(v, b, d, s, x), e), (k + 1) + b, A \cup B \cup {v}, b)
         /\ b = 0 => BalanceAt(Made(v, b, d, s, x), e).done
<1> DEFINE p == Made(v, b, d, s, x)
           S == A \cup B \cup {v}
           top == IF Red(s.link[d]) THEN Rotate(p, e) ELSE RotateTwice(p, e)
<1>1. k + 1 \in Int
  OBVIOUS
<1>2. PICK w \in Value, q \in Bit, i \in Int : \E A1, A2 \in SUBSET Value : \E s1, s2 :
        Apart(s, k + 1, A, d, w, q, i, A1, A2, s1, s2)
  BY <1>1, IsApart
<1>3. PICK A1 \in SUBSET Value, A2 \in SUBSET Value : \E s1, s2 :
        Apart(s, k + 1, A, d, w, q, i, A1, A2, s1, s2)
  BY <1>2
<1>4. PICK s1, s2 : Apart(s, k + 1, A, d, w, q, i, A1, A2, s1, s2)
  BY <1>3
<1>5. /\ s = Made(w, q, d, s1, s2)
      /\ Is(s1, i, A1) /\ Is(s2, i, A2) /\ Parted(A1, w, A2, d)
      /\ A = A1 \cup A2 \cup {w} /\ k + 1 = i + q
  BY <1>4 DEF Apart
<1>6. q = 1 /\ i = k
  <2>1. Red(s) <=> q = 0
    BY <1>5, MadeIs
  <2>2. q = 1
    BY <2>1, BitIs
  <2> QED BY <1>5, <2>2
<1>7. /\ s = Made(w, 1, d, s1, s2) /\ Is(s1, k, A1) /\ Is(s2, k, A2)
      /\ s.link[d] = s1 /\ s.link[e] = s2
  BY <1>5, <1>6, MadeIs, MadeOther, BitIs
<1>8. /\ ~Red(s1) /\ ~Red(s2) =>
           /\ BalanceAt(p, e).tree = Made(v, 1, d, Reddened(s), x)
           /\ BalanceAt(p, e).done <=> b = 0
      /\ Red(s1) \/ Red(s2) =>
           /\ b = 0 => BalanceAt(p, e).tree = RecoloredRed(top)
           /\ b = 1 => BalanceAt(p, e).tree = RecoloredBlack(top)
           /\ BalanceAt(p, e).done
  <2>1. /\ ~Red(s.link[d]) /\ ~Red(s.link[e]) =>
             /\ BalanceAt(p, e).tree = Made(v, 1, d, Reddened(s), x)
             /\ BalanceAt(p, e).done <=> b = 0
        /\ Red(s.link[d]) \/ Red(s.link[e]) =>
             /\ b = 0 => BalanceAt(p, e).tree = RecoloredRed(top)
             /\ b = 1 => BalanceAt(p, e).tree = RecoloredBlack(top)
             /\ BalanceAt(p, e).done
    BY BalanceAtOf, Zenon
  <2>2. s.link[d] = s1 /\ s.link[e] = s2
    BY <1>7
  <2> HIDE DEF p, top
  <2> QED BY <2>1, <2>2
<1>9. ASSUME Red(s1) \/ Red(s2), NEW z \in Value, NEW left, NEW right, top = Made(z, 1, d, left, right)
      PROVE  /\ BalanceAt(p, e).tree = Made(z, b, d, Blackened(left), Blackened(right))
             /\ Red(BalanceAt(p, e).tree) => b = 0
  <2> HIDE DEF p, top
  <2>1. b = 0 => BalanceAt(p, e).tree = Made(z, b, d, Blackened(left), Blackened(right))
    BY <1>8, <1>9, RecoloredIs, BitIs
  <2>2. b = 1 => BalanceAt(p, e).tree = Made(z, b, d, Blackened(left), Blackened(right))
    BY <1>8, <1>9, RecoloredIs, BitIs
  <2>3. BalanceAt(p, e).tree = Made(z, b, d, Blackened(left), Blackened(right))
    BY <2>1, <2>2, BitIs
  <2>4. Red(Made(z, b, d, Blackened(left), Blackened(right))) <=> b = 0
    BY MadeIs
  <2> QED BY <2>3, <2>4
<1>10. Parted(A2, v, B, d) /\ Parted(A1, w, A2 \cup B \cup {v}, d)
  <2>1. Parted(A1 \cup A2 \cup {w}, v, B, d)
    BY <1>5
  <2> QED BY <1>5, <2>1, PartedRight
<1>11. CASE ~Red(s1) /\ ~Red(s2)
  <2>1. Reddened(s) = Made(w, 0, d, s1, s2)
    BY <1>7, MadePainted, BitIs
  <2>2. Is(Reddened(s), k, A)
    <3>1. Is(Made(w, 0, d, s1, s2), k + 0, A1 \cup A2 \cup {w})
      BY <1>5, <1>7, <1>11, MakeTree, BitIs
    <3> QED BY <1>5, <2>1, <3>1
  <2>3. Is(Made(v, 1, d, Reddened(s), x), k + 1, S)
    BY <2>2, MakeTree, BitIs
  <2>4. ~Red(Made(v, 1, d, Reddened(s), x))
    BY MadeIs, BitIs
  <2>5. /\ BalanceAt(p, e).tree = Made(v, 1, d, Reddened(s), x)
        /\ BalanceAt(p, e).done <=> b = 0
    BY <1>8, <1>11
  <2>6. (k + 1) + 0 = k + 1 /\ ((k + 1) + 1) - 1 = k + 1
    OBVIOUS
  <2>7. (b = 0 /\ (k + 1) + b = k + 1) \/ (b = 1 /\ ((k + 1) + b) - 1 = k + 1)
    BY <2>6, BitIs
  <2> HIDE DEF p, S
  <2> QED BY <2>3, <2>4, <2>5, <2>7 DEF Remains, p, S
<1>12. CASE Red(s1)
  <2> DEFINE low == Made(v, 0, d, s2, x)
             lowBlack == Made(v, 1, d, s2, x)
             S1 == A2 \cup B \cup {v}
  <2>1. top = Made(w, 1, d, s1, low)
    <3>1. Rotate(Made(v, b, d, Made(w, 1, d, s1, s2), x), e) = Made(w, 1, d, s1, low)
      BY RotateIs, BitIs
    <3> QED BY <1>7, <1>12, <3>1
  <2>2. Blackened(low) = lowBlack
    BY MadePainted, BitIs
  <2>3. BalanceAt(p, e).tree = Made(w, b, d, Blackened(s1), lowBlack) /\ (Red(BalanceAt(p, e).tree) => b = 0)
    <3> HIDE DEF p, top, low, lowBlack
    <3> QED BY <1>9, <1>12, <2>1, <2>2
  <2>4. Is(Blackened(s1), k + 1, A1) /\ ~Red(Blackened(s1))
    <3>1. s1 # Leaf
      BY <1>12 DEF Red
    <3>2. Almost(s1, k, A1)
      BY <1>7, <3>1, IsAlmost
    <3> QED BY <1>12, <3>2, AlmostPainted
  <2>5. Is(lowBlack, k + 1, S1) /\ ~Red(lowBlack) /\ S1 \in SUBSET Value
    <3>1. Is(lowBlack, k + 1, S1)
      BY <1>7, <1>10, MakeTree, BitIs
    <3>2. ~Red(lowBlack)
      BY MadeIs, BitIs
    <3> QED BY <3>1, <3>2
  <2>6. Is(Made(w, b, d, Blackened(s1), lowBlack), (k + 1) + b, A1 \cup S1 \cup {w})
    <3>1. Parted(A1, w, S1, d)
      BY <1>10
    <3> HIDE DEF lowBlack, S1
    <3> QED BY <1>1, <2>4, <2>5, <3>1, MakeTree
  <2>7. A1 \cup S1 \cup {w} = S
    BY <1>5
  <2>8. BalanceAt(p, e).done
    BY <1>8, <1>12
  <2> HIDE DEF lowBlack, low, p, S1, S
  <2>9. Remains(BalanceAt(p, e), (k + 1) + b, S, b)
    BY <2>3, <2>6, <2>7, <2>8 DEF Remains
  <2> QED BY <2>8, <2>9 DEF p, S
<1>13. CASE ~Red(s1) /\ Red(s2)
  <2>1. s2 # Leaf
    BY <1>13 DEF Red
  <2>2. PICK u \in Value, r \in Bit, j \in Int : \E C1, C2 \in SUBSET Value : \E z1, z2 :
          Apart(s2, k, A2, d, u, r, j, C1, C2, z1, z2)
    BY <1>7, <2>1, IsApart
  <2>3. PICK C1 \in SUBSET Value, C2 \in SUBSET Value : \E z1, z2 :
          Apart(s2, k, A2, d, u, r, j, C1, C2, z1, z2)
    BY <2>2
  <2>4. PICK z1, z2 : Apart(s2, k, A2, d, u, r, j, C1, C2, z1, z2)
    BY <2>3
  <2>5. /\ s2 = Made(u, r, d, z1, z2)
        /\ Is(z1, j, C1) /\ Is(z2, j, C2) /\ Parted(C1, u, C2, d)
        /\ A2 = C1 \cup C2 \cup {u} /\ k = j + r
    BY <2>4 DEF Apart
  <2>6. r = 0 /\ j = k
    <3>1. r = 0
      BY <1>13, <2>5, MadeIs
    <3> QED BY <2>5, <3>1
  <2>7. s2 = Made(u, 0, d, z1, z2) /\ Is(z1, k, C1) /\ Is(z2, k, C2)
    BY <2>5, <2>6
  <2> DEFINE left == Made(w, 0, d, s1, z1)
             right == Made(v, 0, d, z2, x)
             leftBlack == Made(w, 1, d, s1, z1)
             rightBlack == Made(v, 1, d, z2, x)
             L == A1 \cup C1 \cup {w}
             R == C2 \cup B \cup {v}
  <2>8. top = Made(u, 1, d, left, right)
    <3>1. RotateTwice(Made(v, b, d, Made(w, 1, d, s1, Made(u, 0, d, z1, z2)), x), e)
             = Made(u, 1, d, left, right)
      BY RotateTwiceIs, BitIs
    <3>2. p = Made(v, b, d, Made(w, 1, d, s1, Made(u, 0, d, z1, z2)), x)
      BY <1>7, <2>7
    <3> HIDE DEF p, left, right
    <3> QED BY <1>7, <1>13, <3>1, <3>2
  <2>9. Blackened(left) = leftBlack /\ Blackened(right) = rightBlack
    BY MadePainted, BitIs
  <2>10. BalanceAt(p, e).tree = Made(u, b, d, leftBlack, rightBlack) /\ (Red(BalanceAt(p, e).tree) => b = 0)
    <3> HIDE DEF p, top, left, right, leftBlack, rightBlack
    <3> QED BY <1>9, <1>13, <2>8, <2>9
  <2>11. Parted(A1, w, C1, d) /\ Parted(L, u, C2, d)
    <3>1. Parted(A1, w, C1 \cup C2 \cup {u}, d)
      BY <1>5, <2>5
    <3> QED BY <2>5, <3>1, PartedLeft
  <2>12. Parted(C2, v, B, d) /\ Parted(L, u, R, d)
    <3>1. L \cup C2 \cup {u} = A /\ L \in SUBSET Value
      BY <1>5, <2>5
    <3>2. Parted(L \cup C2 \cup {u}, v, B, d)
      BY <3>1
    <3> HIDE DEF L
    <3> QED BY <2>11, <3>1, <3>2, PartedRight
  <2>13. Is(leftBlack, k + 1, L) /\ ~Red(leftBlack) /\ L \in SUBSET Value
    <3>1. Is(leftBlack, k + 1, L)
      BY <1>7, <2>7, <2>11, MakeTree, BitIs
    <3>2. ~Red(leftBlack)
      BY MadeIs, BitIs
    <3> QED BY <3>1, <3>2
  <2>14. Is(rightBlack, k + 1, R) /\ ~Red(rightBlack) /\ R \in SUBSET Value
    <3>1. Is(rightBlack, k + 1, R)
      BY <2>7, <2>12, MakeTree, BitIs
    <3>2. ~Red(rightBlack)
      BY MadeIs, BitIs
    <3> QED BY <3>1, <3>2
  <2>15. Is(Made(u, b, d, leftBlack, rightBlack), (k + 1) + b, L \cup R \cup {u})
    <3> HIDE DEF leftBlack, rightBlack, L, R
    <3> QED BY <1>1, <2>12, <2>13, <2>14, MakeTree
  <2>16. L \cup R \cup {u} = S
    BY <1>5, <2>5
  <2>17. BalanceAt(p, e).done
    BY <1>8, <1>13
  <2> HIDE DEF left, right, leftBlack, rightBlack, L, R, p, S
  <2>18. Remains(BalanceAt(p, e), (k + 1) + b, S, b)
    BY <2>10, <2>15, <2>16, <2>17 DEF Remains
  <2> QED BY <2>17, <2>18 DEF p, S
<1> QED BY <1>11, <1>12, <1>13

\* The outcomes of Balance(), where there is a sibling.
LEMMA BalanceOf ==
  ASSUME NEW p, NEW d \in Bit, NEW e \in Bit, d # e
  PROVE  LET s == p.link[d]
             up == Rotate(p, e)
             below == BalanceAt(up.link[e], e)
         IN /\ s # Leaf /\ Red(s) => /\ Balance(p, e).tree = Linked(up, e, below.tree)
                                     /\ Balance(p, e).done = below.done
            /\ s # Leaf /\ ~Red(s) => Balance(p, e) = BalanceAt(p, e)
<1> DEFINE s == p.link[d]
           up == Rotate(p, e)
           below == BalanceAt(up.link[e], e)
<1>1. d = 1 - e
  BY DEF Bit
<1>2. Balance(p, e) =
        CASE s = Leaf -> [tree |-> p, done |-> FALSE]
          [] s # Leaf /\ Red(s) -> [tree |-> Linked(up, e, below.tree), done |-> below.done]
          [] OTHER -> BalanceAt(p, e)
  BY <1>1, Zenon DEF Balance, Linked
<1> HIDE DEF up, below, s
<1>3. s # Leaf /\ Red(s) => Balance(p, e) = [tree |-> Linked(up, e, below.tree), done |-> below.done]
  BY <1>2, Zenon
<1>4. s # Leaf /\ ~Red(s) => Balance(p, e) = BalanceAt(p, e)
  BY <1>2, Zenon
<1>5. s # Leaf /\ Red(s) => /\ Balance(p, e).tree = Linked(up, e, below.tree)
                            /\ Balance(p, e).done = below.done
  BY <1>3
<1> QED BY <1>4, <1>5 DEF up, below, s

\* The way back of remove(), where a path is one black node short.
LEMMA BalanceIs ==
  ASSUME NEW v \in Value, NEW b \in Bit, NEW d \in Bit, NEW e \in Bit, d # e,
         NEW s, NEW x, NEW k \in Int, NEW A \in SUBSET Value, NEW B \in SUBSET Value,
         Is(s, k + 1, A), Is(x, k, B), ~Red(x), b = 0 => ~Red(s), Parted(A, v, B, d)
  PROVE  Remains(Balance(Made(v, b, d, s, x), e), (k + 1) + b, A \cup B \cup {v}, b)
<1> DEFINE p == Made(v, b, d, s, x)
           S == A \cup B \cup {v}
           up == Rotate(p, e)
           below == BalanceAt(up.link[e], e)
<1>1. k + 1 \in Int /\ k \in Nat /\ k + 1 # 0
  BY HeightIsNat
<1>2. s # Leaf
  BY <1>1, IsLeaf
<1>3. p.link[d] = s
  BY MadeIs
<1>4. /\ Red(s) => Balance(p, e).tree = Linked(up, e, below.tree) /\ Balance(p, e).done = below.done
      /\ ~Red(s) => Balance(p, e) = BalanceAt(p, e)
  <2>1. LET t == p.link[d]
        IN /\ t # Leaf /\ Red(t) => /\ Balance(p, e).tree = Linked(up, e, below.tree)
                                    /\ Balance(p, e).done = below.done
           /\ t # Leaf /\ ~Red(t) => Balance(p, e) = BalanceAt(p, e)
    <3> HIDE DEF p
    <3> QED BY BalanceOf, Zenon
  <2> HIDE DEF p, up, below
  <2> QED BY <1>2, <1>3, <2>1
<1>5. CASE ~Red(s)
  <2>1. Remains(BalanceAt(p, e), (k + 1) + b, S, b)
    BY <1>2, <1>5, BalanceAtIs
  <2> HIDE DEF p, S
  <2> QED BY <1>4, <1>5, <2>1 DEF p, S
<1>6. CASE Red(s)
  <2>1. b = 1
    BY <1>6, BitIs
  <2>2. PICK w \in Value, q \in Bit, i \in Int : \E A1, A2 \in SUBSET Value : \E s1, s2 :
          Apart(s, k + 1, A, d, w, q, i, A1, A2, s1, s2)
    BY <1>1, <1>2, IsApart
  <2>3. PICK A1 \in SUBSET Value, A2 \in SUBSET Value : \E s1, s2 :
          Apart(s, k + 1, A, d, w, q, i, A1, A2, s1, s2)
    BY <2>2
  <2>4. PICK s1, s2 : Apart(s, k + 1, A, d, w, q, i, A1, A2, s1, s2)
    BY <2>3
  <2>5. /\ s = Made(w, q, d, s1, s2)
        /\ Is(s1, i, A1) /\ Is(s2, i, A2) /\ Parted(A1, w, A2, d)
        /\ A = A1 \cup A2 \cup {w} /\ k + 1 = i + q
        /\ q = 0 => ~Red(s1) /\ ~Red(s2)
    BY <2>4 DEF Apart
  <2>6. q = 0 /\ i = k + 1
    <3>1. q = 0
      BY <1>6, <2>5, MadeIs
    <3> QED BY <2>5, <3>1
  <2>7. /\ s = Made(w, 0, d, s1, s2) /\ Is(s1, k + 1, A1) /\ Is(s2, k + 1, A2)
        /\ ~Red(s1) /\ ~Red(s2)
    BY <2>5, <2>6
  <2> DEFINE low == Made(v, 0, d, s2, x)
             S1 == A2 \cup B \cup {v}
  <2>8. up = Made(w, 1, d, s1, low)
    <3>1. Rotate(Made(v, b, d, Made(w, 0, d, s1, s2), x), e) = Made(w, 1, d, s1, low)
      BY RotateIs, BitIs
    <3> QED BY <2>7, <3>1
  <2>9. up.link[e] = low
    <3> HIDE DEF low, up
    <3> QED BY <2>8, MadeOther, BitIs
  <2>10. Parted(A2, v, B, d) /\ Parted(A1, w, S1, d) /\ S1 \in SUBSET Value
    <3>1. Parted(A1 \cup A2 \cup {w}, v, B, d)
      BY <2>5
    <3> QED BY <2>5, <3>1, PartedRight
  <2>11. Remains(BalanceAt(low, e), (k + 1) + 0, S1, 0) /\ BalanceAt(low, e).done
    <3>1. s2 # Leaf
      BY <1>1, <2>7, IsLeaf
    <3> QED BY <2>7, <2>10, <3>1, BalanceAtIs, BitIs
  <2>12. Is(below.tree, k + 1, S1) /\ below.done
    <3>1. (k + 1) + 0 = k + 1
      OBVIOUS
    <3> HIDE DEF low, up, S1
    <3> QED BY <2>9, <2>11, <3>1 DEF Remains
  <2> DEFINE t == below.tree
  <2>13. Linked(up, e, t) = Made(w, 1, d, s1, t)
    <3> HIDE DEF low, up, t
    <3> QED BY <2>8, MadeLinkedOther, BitIs
  <2>14. Is(Made(w, 1, d, s1, t), (k + 1) + 1, A1 \cup S1 \cup {w})
    <3> HIDE DEF t, S1, below
    <3> QED BY <1>1, <2>7, <2>10, <2>12, MakeTree, BitIs DEF t
  <2>15. A1 \cup S1 \cup {w} = S
    BY <2>5
  <2>16. ~Red(Made(w, 1, d, s1, t))
    <3> HIDE DEF t
    <3> QED BY MadeIs, BitIs
  <2> HIDE DEF p, S, up, below, t, S1, low
  <2>17. Balance(p, e).tree = Made(w, 1, d, s1, t) /\ Balance(p, e).done
    BY <1>4, <1>6, <2>12, <2>13 DEF t
  <2>18. Remains(Balance(p, e), (k + 1) + 1, S, b)
    BY <2>14, <2>15, <2>16, <2>17 DEF Remains
  <2> QED BY <2>1, <2>18 DEF p, S
<1> QED BY <1>5, <1>6

-----------------------------------------------------------------------------
(* Paths down a tree.                                                      *)

Trees == UNION {Tree[n] : n \in Nat}

\* What a tree holds.
Held(t) == { v \in Value : \E h \in Int, S \in SUBSET Value : Is(t, h, S) /\ v \in S }

\* A red-black tree is one of no other values.
LEMMA HeldIs ==
  ASSUME NEW t, NEW h \in Int, NEW S \in SUBSET Value, Is(t, h, S)
  PROVE  Held(t) = S /\ t \in Trees /\ Held(t) \in SUBSET Value
<1>1. PICK n \in Nat : t \in Tree[n]
  BY DEF Is
<1>2. ASSUME NEW i \in Int, NEW T \in SUBSET Value, Is(t, i, T), NEW v \in T
      PROVE  v \in S
  <2>1. Find[n][t][v] <=> v \in T
    BY <1>1, <1>2, FindTells
  <2>2. Find[n][t][v] <=> v \in S
    BY <1>1, <1>2, FindTells
  <2> QED BY <1>2, <2>1, <2>2
<1>3. Held(t) = S
  BY <1>2 DEF Held
<1> QED BY <1>1, <1>3 DEF Trees

\* A node of a tree that holds S, with all that S has between any two of its values.
Within(t, S) ==
  /\ t # Leaf
  /\ \E h \in Int : Is(t, h, Held(t))
  /\ Held(t) \in SUBSET S
  /\ \A a, c \in Held(t) : \A b \in S : a < b /\ b < c => b \in Held(t)

\* The root is such a node.
LEMMA WithinRoot ==
  ASSUME NEW t, NEW h \in Int, NEW S \in SUBSET Value, Is(t, h, S), t # Leaf
  PROVE  Within(t, S) /\ Held(t) = S
BY HeldIs DEF Within

\* So is what a node is linked to, which holds one side of its values.
LEMMA WithinLink ==
  ASSUME NEW S \in SUBSET Value, NEW t, Within(t, S), NEW d \in Bit
  PROVE  /\ t \in Trees /\ t.value \in Held(t)
         /\ Held(t.link[d]) = Side(Held(t), t.value, d)
         /\ t.link[d] # Leaf => Within(t.link[d], S)
         /\ t.link[d] = Leaf => Side(Held(t), t.value, d) = {}
         /\ \E i \in Int : Is(t.link[d], i, Held(t.link[d]))
<1> DEFINE H == Held(t)
           c == t.link[d]
           P == Side(H, t.value, d)
<1>1. PICK h \in Int : Is(t, h, H)
  BY DEF Within
<1>2. H \in SUBSET Value /\ H \in SUBSET S /\ t # Leaf /\ t \in Trees
  BY <1>1, HeldIs DEF Within, Held
<1>3. t.value \in H /\ Is(c, Below(t.red, h), P) /\ Below(t.red, h) \in Int
  BY <1>1, <1>2, TakeApart
<1>4. P \in SUBSET Value /\ P = {u \in H : Before(u, t.value, d)} /\ t.value \in Value
  <2> DEFINE v == t.value
  <2>1. v \in Value /\ H \in SUBSET Value
    BY <1>2, <1>3
  <2> HIDE DEF H, v
  <2>2. Side(H, v, d) = {u \in H : Before(u, v, d)} /\ Side(H, v, d) \in SUBSET Value
    BY <2>1, SideIs
  <2> QED BY <2>1, <2>2 DEF v
<1>5. Held(c) = P
  BY <1>3, <1>4, HeldIs
<1>6. c = Leaf => P = {}
  BY <1>3, <1>4, IsLeaf
<1>7. ASSUME NEW a \in P, NEW z \in P, NEW b \in S, a < b /\ b < z
      PROVE  b \in P
  <2>1. a \in H /\ z \in H /\ Before(a, t.value, d) /\ Before(z, t.value, d)
    BY <1>4
  <2>2. b \in H
    BY <1>7, <2>1 DEF Within
  <2>3. a \in Int /\ b \in Int /\ z \in Int /\ t.value \in Int
    BY <1>4, <1>7, ValueAssumption
  <2>4. Before(b, t.value, d)
    BY <1>7, <2>1, <2>3 DEF Before
  <2> QED BY <1>4, <2>2, <2>4
<1>8. c # Leaf => Within(c, S)
  <2> HIDE DEF P, H, c
  <2>1. P \in SUBSET S
    BY <1>2, <1>4
  <2>2. \A a, z \in P : \A b \in S : a < b /\ b < z => b \in P
    BY <1>7
  <2> QED BY <1>3, <1>5, <2>1, <2>2 DEF Within
<1> QED BY <1>2, <1>3, <1>5, <1>6, <1>8

\* A path to an end, one level of it.
LEMMA SpineIs ==
  ASSUME NEW n \in Nat, NEW t \in Tree[n], NEW d \in Bit
  PROVE  /\ t = Leaf => Spine[n][t][d] = <<>>
         /\ t # Leaf => Spine[n][t][d] = <<t>> \o Spine[n - 1][t.link[d]][d]
<1> USE DEF Bit
<1>1. Spine[n] = SpineAt(Spine[n - 1], n)
  BY SpineStep
<1> DEFINE below == Spine[n - 1]
<1> HIDE DEF below
<1>2. SpineAt(below, n)[t][d] = IF t = Leaf THEN <<>> ELSE <<t>> \o below[t.link[d]][d]
  BY DEF SpineAt
<1> QED BY <1>1, <1>2 DEF below

\* Nodes of a tree that holds S, each linked to the next.
Path(p, S) ==
  /\ p \in Seq(Trees) /\ p # <<>>
  /\ \A k \in 1..Len(p) : Within(p[k], S)
  /\ \A k \in 1..Len(p) - 1 : \E d \in Bit : p[k + 1] = p[k].link[d]

\* The one value that the others are before, in a direction.
End(m, T, d) == m \in T /\ \A u \in T : u = m \/ Before(m, u, d)

\* A path goes on with one that starts at a link of its end.
LEMMA PathJoined ==
  ASSUME NEW S, NEW p, NEW q, Path(p, S), Path(q, S), NEW d \in Bit, q[1] = Top(p).link[d]
  PROVE  Path(p \o q, S) /\ Top(p \o q) = Top(q) /\ (p \o q)[1] = p[1]
<1>1. p \in Seq(Trees) /\ q \in Seq(Trees) /\ Len(p) \in Nat \ {0} /\ Len(q) \in Nat \ {0}
  BY DEF Path
<1>2. p \o q \in Seq(Trees) /\ Len(p \o q) = Len(p) + Len(q) /\ p \o q # <<>>
  BY <1>1
<1>3. /\ \A k \in 1..Len(p) : (p \o q)[k] = p[k]
      /\ \A k \in 1..Len(q) : (p \o q)[Len(p) + k] = q[k]
  BY <1>1
<1>4. ASSUME NEW k \in 1..Len(p \o q) PROVE Within((p \o q)[k], S)
  <2>1. CASE k <= Len(p)
    BY <1>1, <1>3, <2>1 DEF Path
  <2>2. CASE k > Len(p)
    <3>1. k - Len(p) \in 1..Len(q) /\ Len(p) + (k - Len(p)) = k
      BY <1>1, <1>2, <2>2
    <3>2. (p \o q)[k] = q[k - Len(p)]
      BY <1>3, <3>1
    <3> QED BY <3>1, <3>2 DEF Path
  <2> QED BY <1>1, <2>1, <2>2
<1>5. ASSUME NEW k \in 1..Len(p \o q) - 1 PROVE \E e \in Bit : (p \o q)[k + 1] = (p \o q)[k].link[e]
  <2>1. CASE k < Len(p)
    <3>1. k \in 1..Len(p) - 1 /\ k \in 1..Len(p) /\ k + 1 \in 1..Len(p)
      BY <1>1, <2>1
    <3> QED BY <1>3, <3>1 DEF Path
  <2>2. CASE k = Len(p)
    <3>1. (p \o q)[k] = Top(p)
      BY <1>1, <1>3, <2>2 DEF Top
    <3>2. (p \o q)[k + 1] = q[1]
      BY <1>1, <1>3, <2>2
    <3> QED BY <3>1, <3>2
  <2>3. CASE k > Len(p)
    <3> DEFINE j == k - Len(p)
    <3>1. j \in 1..Len(q) - 1 /\ j \in 1..Len(q) /\ j + 1 \in 1..Len(q) /\ Len(p) + j = k
          /\ Len(p) + (j + 1) = k + 1
      BY <1>1, <1>2, <2>3
    <3>2. (p \o q)[k] = q[j] /\ (p \o q)[k + 1] = q[j + 1]
      BY <1>3, <3>1
    <3> HIDE DEF j
    <3> QED BY <3>1, <3>2 DEF Path
  <2> QED BY <1>1, <2>1, <2>2, <2>3
<1>6. Top(p \o q) = Top(q) /\ (p \o q)[1] = p[1]
  BY <1>1, <1>2, <1>3 DEF Top
<1> QED BY <1>2, <1>4, <1>5, <1>6 DEF Path

\* A node alone is a path.
LEMMA PathOne ==
  ASSUME NEW S \in SUBSET Value, NEW t, Within(t, S)
  PROVE  Path(<<t>>, S) /\ Top(<<t>>) = t
<1>1. t \in Trees
  BY WithinLink, BitIs
<1>2. <<t>> \in Seq(Trees) /\ Len(<<t>>) = 1 /\ <<t>>[1] = t /\ <<t>> # <<>>
  BY <1>1
<1> QED BY <1>2 DEF Path, Top

\* Down one direction to the end there.
LEMMA SpineEnds ==
  ASSUME NEW n \in Nat, NEW t \in Tree[n], NEW S \in SUBSET Value, Within(t, S), NEW d \in Bit
  PROVE  /\ Path(Spine[n][t][d], S) /\ Spine[n][t][d][1] = t
         /\ End(Top(Spine[n][t][d]).value, Held(t), d)
<1> DEFINE Fine(k, u) == /\ Path(Spine[k][u][d], S) /\ Spine[k][u][d][1] = u
                         /\ End(Top(Spine[k][u][d]).value, Held(u), d)
           AllFine(k) == \A u \in Tree[k] : Within(u, S) => Fine(k, u)
           Bad == {k \in Nat : ~AllFine(k)}
<1>1. Bad = {}
  <2>1. SUFFICES ASSUME Bad # {} PROVE FALSE
    OBVIOUS
  <2>2. PICK k \in Bad : \A i \in Nat : i < k => i \notin Bad
    <3> HIDE DEF AllFine
    <3> QED BY <2>1, LeastNumber
  <2>3. PICK u \in Tree[k] : Within(u, S) /\ ~Fine(k, u)
    <3> HIDE DEF Fine
    <3> QED BY <2>2
  <2>4. k \in Nat
    OBVIOUS
  <2> DEFINE c == u.link[d]
             q == Spine[k - 1][c][d]
  <2>5. u # Leaf
    BY <2>3 DEF Within
  <2>6. k - 1 \in Nat /\ k - 1 < k /\ c \in Tree[k - 1] /\ u.value \in Int
    <3>1. k - 1 \in Nat /\ u.value \in Int
      BY <2>3, <2>4, <2>5, NodeIs
    <3>2. u.link[d] \in Tree[k - 1]
      BY <2>3, <2>4, <2>5, NodeIs
    <3> QED BY <3>1, <3>2
  <2>7. Spine[k][u][d] = <<u>> \o q
    BY <2>3, <2>4, <2>5, SpineIs
  <2>8. Path(<<u>>, S) /\ Top(<<u>>) = u
    BY <2>3, PathOne
  <2>9. /\ u.value \in Held(u) /\ Held(c) = Side(Held(u), u.value, d)
        /\ c # Leaf => Within(c, S)
        /\ c = Leaf => Side(Held(u), u.value, d) = {}
        /\ Held(u) \in SUBSET Value
    <3>1. Held(u) \in SUBSET Value
      BY DEF Held
    <3>2. /\ u.value \in Held(u) /\ Held(u.link[d]) = Side(Held(u), u.value, d)
          /\ u.link[d] # Leaf => Within(u.link[d], S)
          /\ u.link[d] = Leaf => Side(Held(u), u.value, d) = {}
      BY <2>3, WithinLink
    <3> QED BY <3>1, <3>2
  <2>10. /\ u.value \in Int
         /\ \A a \in Held(u) : a \in Int /\ (a \in Held(c) <=> Before(a, u.value, d))
    <3>1. Side(Held(u), u.value, d) = {a \in Held(u) : Before(a, u.value, d)}
      BY <2>9, SideIs
    <3> QED BY <2>6, <2>9, <3>1, ValueAssumption
  <2>11. CASE c = Leaf
    <3>1. q = <<>>
      BY <2>6, <2>11, SpineIs
    <3>2. Spine[k][u][d] = <<u>>
      <4>1. <<u>> \o <<>> = <<u>>
        OBVIOUS
      <4> QED BY <2>7, <3>1, <4>1
    <3>3. <<u>>[1] = u
      OBVIOUS
    <3>4. End(u.value, Held(u), d)
      <4>1. Held(c) = {}
        BY <2>9, <2>11
      <4> HIDE DEF c
      <4> QED BY <2>9, <2>10, <4>1, BeforeIs DEF End
    <3> QED BY <2>3, <2>8, <3>2, <3>3, <3>4
  <2>12. CASE c # Leaf
    <3>1. Fine(k - 1, c)
      <4>1. AllFine(k - 1)
        <5> HIDE DEF AllFine
        <5> QED BY <2>2, <2>6
      <4> HIDE DEF Fine
      <4> QED BY <2>6, <2>9, <2>12, <4>1
    <3>2. Path(q, S) /\ q[1] = c /\ End(Top(q).value, Held(c), d)
      BY <3>1
    <3>3. Path(<<u>> \o q, S) /\ Top(<<u>> \o q) = Top(q) /\ (<<u>> \o q)[1] = u
      <4>1. q[1] = Top(<<u>>).link[d] /\ <<u>>[1] = u
        BY <2>8, <3>2
      <4> HIDE DEF q
      <4> QED BY <2>8, <3>2, <4>1, PathJoined
    <3>4. End(Top(q).value, Held(u), d)
      <4> DEFINE m == Top(q).value
      <4>1. m \in Held(c) /\ \A a \in Held(c) : a = m \/ Before(m, a, d)
        BY <3>2 DEF End
      <4>2. m \in Held(u) /\ Before(m, u.value, d)
        <5>1. Held(c) \subseteq Held(u)
          BY <2>9 DEF Side
        <5> HIDE DEF m, c
        <5> QED BY <2>10, <4>1, <5>1
      <4>3. ASSUME NEW a \in Held(u), a # m PROVE Before(m, a, d)
        <5> HIDE DEF m, c
        <5>1. a \in Held(c) \/ a = u.value \/ Before(u.value, a, d)
          BY <2>10, BeforeIs
        <5>2. a \in Int /\ m \in Int
          BY <2>10, <4>2
        <5>3. Before(u.value, a, d) => Before(m, a, d)
          BY <2>10, <4>2, <5>2, BeforeIs
        <5> QED BY <4>1, <4>2, <4>3, <5>1, <5>3
      <4> HIDE DEF m
      <4> QED BY <4>2, <4>3 DEF End, m
    <3> HIDE DEF q, c
    <3> QED BY <2>3, <2>7, <3>3, <3>4
  <2> QED BY <2>11, <2>12
<1>2. AllFine(n)
  <2> HIDE DEF AllFine
  <2> QED BY <1>1
<1> QED BY <1>2

-----------------------------------------------------------------------------
(* remove(), on the way down.                                              *)

Valued(node, w) == [node EXCEPT !.value = w]
Revalued(node, w, d, z) == [node EXCEPT !.value = w, !.link[d] = z]

\* Another value, in terms of the fields ...
LEMMA ValuedIs ==
  ASSUME NEW v, NEW r \in BOOLEAN, NEW link, NEW w
  PROVE  Valued([value |-> v, red |-> r, link |-> link], w) = [value |-> w, red |-> r, link |-> link]
BY DEF Valued

\* ... of a node that is known.
LEMMA MadeRevalued ==
  ASSUME NEW v, NEW b \in Bit, NEW d \in Bit, NEW x, NEW y, NEW w, NEW z
  PROVE  Revalued(Made(v, b, d, x, y), w, d, z) = Made(w, b, d, z, y)
<1> DEFINE link == [e \in 0..1 |-> IF e = d THEN x ELSE y]
<1>1. ASSUME NEW u PROVE Made(u, b, d, x, y) = [value |-> u, red |-> b = 0, link |-> link]
  BY DEF Made
<1> HIDE DEF link
<1>2. (b = 0) \in BOOLEAN
  OBVIOUS
<1>3. Valued([value |-> v, red |-> b = 0, link |-> link], w) = [value |-> w, red |-> b = 0, link |-> link]
  <2> DEFINE r == b = 0
  <2>1. r \in BOOLEAN
    BY <1>2
  <2> HIDE DEF r
  <2>2. Valued([value |-> v, red |-> r, link |-> link], w) = [value |-> w, red |-> r, link |-> link]
    BY <2>1, ValuedIs
  <2> QED BY <2>2 DEF r
<1>4. Valued(Made(v, b, d, x, y), w) = Made(w, b, d, x, y)
  BY <1>1, <1>3, Zenon
<1>5. Revalued(Made(v, b, d, x, y), w, d, z) = Linked(Valued(Made(v, b, d, x, y), w), d, z)
  BY Zenon DEF Revalued, Linked, Valued
<1>6. Linked(Made(w, b, d, x, y), d, z) = Made(w, b, d, z, y)
  BY MadeLinked
<1> QED BY <1>4, <1>5, <1>6

\* The way back, from a child that was below the node in this direction.
Returned(node, w, d, below) ==
  IF below.done THEN [tree |-> Revalued(node, w, d, below.tree), done |-> TRUE]
  ELSE Balance(Revalued(node, w, d, below.tree), d)

RemovedFrom(below, n, node, value) ==
  IF node = Leaf THEN [tree |-> Leaf, done |-> TRUE]
  ELSE IF node.value = value /\ \E d \in 0..1 : node.link[d] = Leaf THEN Unlinked(node)
  ELSE LET found == node.value = value
           heir == IF found THEN Top(Spine[n - 1][node.link[0]][1]).value ELSE value
           dir == IF found THEN 0 ELSE Dir(node, value)
           under == below[node.link[dir]][heir]
       IN Returned(node, IF found THEN heir ELSE node.value, dir, under)

\* remove(), one level of it.
LEMMA RemovedIs ==
  ASSUME NEW n \in Nat, NEW node \in Tree[n], NEW value \in Value
  PROVE  /\ node = Leaf => Removed[n][node][value] = [tree |-> Leaf, done |-> TRUE]
         /\ node # Leaf /\ node.value = value /\ (\E d \in Bit : node.link[d] = Leaf) =>
              Removed[n][node][value] = Unlinked(node)
         /\ node # Leaf /\ node.value = value /\ (\A d \in Bit : node.link[d] # Leaf) =>
              LET heir == Top(Spine[n - 1][node.link[0]][1]).value
              IN Removed[n][node][value] =
                   Returned(node, heir, 0, Removed[n - 1][node.link[0]][heir])
         /\ node # Leaf /\ node.value # value =>
              LET d == Dir(node, value)
              IN Removed[n][node][value] =
                   Returned(node, node.value, d, Removed[n - 1][node.link[d]][value])
<1> DEFINE below == Removed[n - 1]
<1>1. Removed[n] = RemovedAt(below, n)
  BY RemovedStep
<1> HIDE DEF below
<1>2. RemovedAt(below, n) = [t \in Tree[n] |-> [v \in Value |-> RemovedFrom(below, n, t, v)]]
  BY Zenon DEF RemovedAt, RemovedFrom, Returned, Revalued
<1>3. Removed[n][node][value] = RemovedFrom(below, n, node, value)
  BY <1>1, <1>2
<1>4. node = Leaf => RemovedFrom(below, n, node, value) = [tree |-> Leaf, done |-> TRUE]
  BY Zenon DEF RemovedFrom
<1>5. node # Leaf /\ node.value = value /\ (\E d \in Bit : node.link[d] = Leaf) =>
        RemovedFrom(below, n, node, value) = Unlinked(node)
  BY Zenon DEF RemovedFrom, Bit
<1>6. node # Leaf /\ node.value = value /\ (\A d \in Bit : node.link[d] # Leaf) =>
        LET heir == Top(Spine[n - 1][node.link[0]][1]).value
        IN RemovedFrom(below, n, node, value) = Returned(node, heir, 0, below[node.link[0]][heir])
  <2>1. SUFFICES ASSUME node # Leaf, node.value = value, \A d \in 0..1 : node.link[d] # Leaf
                 PROVE  LET heir == Top(Spine[n - 1][node.link[0]][1]).value
                        IN RemovedFrom(below, n, node, value)
                             = Returned(node, heir, 0, below[node.link[0]][heir])
    BY DEF Bit
  <2> QED BY <2>1 DEF RemovedFrom
<1>7. node # Leaf /\ node.value # value =>
        LET d == Dir(node, value)
        IN RemovedFrom(below, n, node, value) = Returned(node, node.value, d, below[node.link[d]][value])
  <2>1. SUFFICES ASSUME node # Leaf, node.value # value
                 PROVE  LET d == Dir(node, value)
                        IN RemovedFrom(below, n, node, value)
                             = Returned(node, node.value, d, below[node.link[d]][value])
    OBVIOUS
  <2> QED BY <2>1 DEF RemovedFrom
<1> QED BY <1>3, <1>4, <1>5, <1>6, <1>7, Zenon DEF below

\* A node without two links goes away.
LEMMA UnlinkedIs ==
  ASSUME NEW node, NEW h \in Int, NEW S \in SUBSET Value, Is(node, h, S), node # Leaf,
         \E d \in Bit : node.link[d] = Leaf
  PROVE  Remains(Unlinked(node), h, S \ {node.value}, IF Red(node) THEN 0 ELSE 1)
<1>1. PICK d \in Bit, e \in Bit :
        /\ d # e /\ node.link[d] = Leaf
        /\ (IF node.link[0] = Leaf THEN node.link[1] ELSE node.link[0]) = node.link[e]
  <2>1. CASE node.link[0] = Leaf
    BY <2>1, BitIs
  <2>2. CASE node.link[0] # Leaf
    <3>1. node.link[1] = Leaf
      BY <2>2, BitIs
    <3> QED BY <2>2, <3>1, BitIs
  <2> QED BY <2>1, <2>2
<1>2. PICK v \in Value, b \in Bit, k \in Int : \E A, B \in SUBSET Value : \E x, y :
        Apart(node, h, S, d, v, b, k, A, B, x, y)
  BY IsApart
<1>3. PICK A \in SUBSET Value, B \in SUBSET Value : \E x, y :
        Apart(node, h, S, d, v, b, k, A, B, x, y)
  BY <1>2
<1>4. PICK x, y : Apart(node, h, S, d, v, b, k, A, B, x, y)
  BY <1>3
<1>5. /\ node = Made(v, b, d, x, y)
      /\ Is(x, k, A) /\ Is(y, k, B) /\ Parted(A, v, B, d)
      /\ S = A \cup B \cup {v} /\ h = k + b
      /\ b = 0 => ~Red(y)
  BY <1>4 DEF Apart
<1>6. node.value = v /\ (node.red <=> b = 0) /\ (Red(node) <=> b = 0) /\ x = Leaf /\ node.link[e] = y
  <2>1. node.value = v /\ (node.red <=> b = 0) /\ (Red(node) <=> b = 0) /\ node.link[d] = x
    BY <1>5, MadeIs
  <2>2. node.link[e] = y
    BY <1>1, <1>5, MadeOther
  <2> QED BY <1>1, <2>1, <2>2
<1>7. k = 0 /\ A = {}
  BY <1>5, <1>6, IsLeaf
<1>8. S \ {v} = B
  <2>1. v \in Int /\ B \subseteq Int
    BY ValueAssumption
  <2>2. v \notin B
    BY <1>5, <2>1, BeforeIs DEF Parted
  <2> QED BY <1>5, <1>7, <2>2
<1>9. Is(y, 0, B) /\ h = b
  BY <1>5, <1>7, BitIs
<1>10. Unlinked(node) = [tree |-> IF ~node.red /\ Red(y) THEN Painted(y, FALSE) ELSE y,
                         done |-> node.red \/ Red(y)]
  BY <1>1, <1>6, Zenon DEF Unlinked
<1>11. /\ Unlinked(node).tree = IF ~node.red /\ Red(y) THEN Blackened(y) ELSE y
       /\ Unlinked(node).done <=> (node.red \/ Red(y))
  <2> DEFINE tt == IF ~node.red /\ Red(y) THEN Painted(y, FALSE) ELSE y
             dd == node.red \/ Red(y)
  <2>1. Unlinked(node) = [tree |-> tt, done |-> dd]
    BY <1>10
  <2> HIDE DEF tt, dd
  <2>2. Unlinked(node).tree = tt /\ Unlinked(node).done = dd
    BY <2>1
  <2> QED BY <2>2, Zenon DEF tt, dd, Blackened
<1>12. Red(y) => Is(Blackened(y), 1, B) /\ ~Red(Blackened(y))
  <2>1. SUFFICES ASSUME Red(y) PROVE Is(Blackened(y), 1, B) /\ ~Red(Blackened(y))
    OBVIOUS
  <2>2. y # Leaf
    BY <2>1 DEF Red
  <2>3. Almost(y, k, B)
    BY <1>5, <2>2, IsAlmost
  <2>4. Is(Blackened(y), k + 1, B) /\ ~Red(Blackened(y))
    BY <2>1, <2>3, AlmostPainted
  <2> QED BY <1>7, <2>4
<1>13. Remains(Unlinked(node), h, B, b)
  <2>1. CASE b = 0
    BY <1>5, <1>6, <1>9, <1>11, <2>1 DEF Remains
  <2>2. CASE b = 1 /\ Red(y)
    BY <1>6, <1>9, <1>11, <1>12, <2>2 DEF Remains
  <2>3. CASE b = 1 /\ ~Red(y)
    BY <1>6, <1>9, <1>11, <2>3 DEF Remains
  <2> QED BY <2>1, <2>2, <2>3, BitIs
<1>14. b = IF Red(node) THEN 0 ELSE 1
  BY <1>6, BitIs
<1> QED BY <1>6, <1>8, <1>13, <1>14

\* The way back of remove().
LEMMA ReturnedIs ==
  ASSUME NEW u, NEW w \in Value, NEW b \in Bit, NEW d \in Bit, NEW x, NEW y, NEW k \in Int,
         NEW A \in SUBSET Value, NEW B \in SUBSET Value, NEW below, NEW q \in Bit,
         Remains(below, k, A, q), b = 0 => q = 1,
         Is(y, k, B), b = 0 => ~Red(y), Parted(A, w, B, d)
  PROVE  Remains(Returned(Made(u, b, d, x, y), w, d, below), k + b, A \cup B \cup {w}, b)
<1> DEFINE t == below.tree
           p == Made(w, b, d, t, y)
           result == Returned(Made(u, b, d, x, y), w, d, below)
           S == A \cup B \cup {w}
<1>1. result = IF below.done THEN [tree |-> p, done |-> TRUE] ELSE Balance(p, d)
  <2>1. Revalued(Made(u, b, d, x, y), w, d, t) = p
    <3> HIDE DEF t
    <3> QED BY MadeRevalued
  <2> HIDE DEF p
  <2> QED BY <2>1, Zenon DEF Returned
<1> HIDE DEF result, t
<1>2. CASE below.done
  <2>1. Is(t, k, A) /\ (b = 0 => ~Red(t))
    BY <1>2, BitIs DEF Remains, t
  <2>2. Is(p, k + b, S)
    BY <2>1, MakeTree
  <2>3. Red(p) <=> b = 0
    BY MadeIs
  <2> HIDE DEF p, S
  <2>4. result.tree = p /\ result.done
    BY <1>1, <1>2
  <2>5. Remains(result, k + b, S, b)
    BY <2>2, <2>3, <2>4 DEF Remains
  <2> QED BY <2>5 DEF result, S
<1>3. CASE ~below.done
  <2>1. PICK e \in Bit : d # e
    BY Turn
  <2>2. Is(t, k - 1, A) /\ ~Red(t) /\ k - 1 \in Int /\ (k - 1) + 1 = k
    BY <1>3 DEF Remains, t
  <2>3. Parted(B, w, A, e)
    BY <2>1, PartedTurned
  <2>4. p = Made(w, b, e, y, t)
    BY <2>1, MadeTurned
  <2>5. Is(y, (k - 1) + 1, B)
    BY <2>2
  <2> DEFINE i == k - 1
  <2>6. Remains(Balance(Made(w, b, e, y, t), d), (i + 1) + b, B \cup A \cup {w}, b)
    <3>1. Is(y, i + 1, B) /\ Is(t, i, A) /\ i \in Int
      BY <2>2, <2>5
    <3> HIDE DEF i
    <3> QED BY <2>1, <2>2, <2>3, <3>1, BalanceIs
  <2>7. B \cup A \cup {w} = S /\ (i + 1) + b = k + b
    BY <2>2
  <2> HIDE DEF p, S, i
  <2>8. Remains(result, k + b, S, b)
    BY <1>1, <1>3, <2>4, <2>6, <2>7
  <2> QED BY <2>8 DEF result, S
<1> QED BY <1>2, <1>3

\* The links of a node hold the two sides of its value.
LEMMA HeldLinks ==
  ASSUME NEW t, NEW g \in Int, NEW T \in SUBSET Value, Is(t, g, T), t # Leaf, NEW d \in Bit
  PROVE  /\ t.value \in T /\ t.value \in Value
         /\ Held(t.link[d]) = {z \in T : Before(z, t.value, d)}
         /\ Held(t.link[1 - d]) = {z \in T : Before(t.value, z, d)}
         /\ T = Held(t.link[d]) \cup Held(t.link[1 - d]) \cup {t.value}
<1> DEFINE u == t.value
           A == Side(T, u, d)
           B == Side(T, u, 1 - d)
<1>1. /\ u \in T /\ Is(t.link[d], Below(t.red, g), A) /\ Is(t.link[1 - d], Below(t.red, g), B)
      /\ Below(t.red, g) \in Int
  BY TakeApart
<1>2. u \in Value
  BY <1>1
<1> HIDE DEF u
<1>3. /\ A = {z \in T : Before(z, u, d)} /\ B = {z \in T : Before(u, z, d)}
      /\ A \in SUBSET Value /\ B \in SUBSET Value /\ T = A \cup B \cup {u}
  BY <1>1, <1>2, SideIs
<1>4. Held(t.link[d]) = A /\ Held(t.link[1 - d]) = B
  <2> HIDE DEF A, B
  <2> QED BY <1>1, <1>3, HeldIs
<1> QED BY <1>1, <1>2, <1>3, <1>4 DEF u

\* Removing a value, by induction on how deep a tree may be.
LEMMA RemoveIs ==
  ASSUME NEW n \in Nat, NEW node \in Tree[n], NEW h \in Int, NEW S \in SUBSET Value,
         Is(node, h, S), NEW v \in Value
  PROVE  Remains(Removed[n][node][v], h, S \ {v}, IF Red(node) THEN 0 ELSE 1)
<1> DEFINE Fine(k, t, i, T, r) == Remains(Removed[k][t][r], i, T \ {r}, IF Red(t) THEN 0 ELSE 1)
           AllFine(k) == \A t \in Tree[k], i \in Int, T \in SUBSET Value, r \in Value :
                           Is(t, i, T) => Fine(k, t, i, T, r)
           Bad == {k \in Nat : ~AllFine(k)}
<1>1. Bad = {}
  <2>1. SUFFICES ASSUME Bad # {} PROVE FALSE
    OBVIOUS
  <2>2. PICK k \in Bad : \A i \in Nat : i < k => i \notin Bad
    <3> HIDE DEF AllFine
    <3> QED BY <2>1, LeastNumber
  <2>3. PICK t \in Tree[k], g \in Int, T \in SUBSET Value, r \in Value :
          Is(t, g, T) /\ ~Fine(k, t, g, T, r)
    <3> HIDE DEF Fine
    <3> QED BY <2>2
  <2>4. k \in Nat
    OBVIOUS
  <2>5. r \in Int
    BY ValueAssumption
  <2>6. CASE t = Leaf
    <3>1. Removed[k][t][r] = [tree |-> Leaf, done |-> TRUE]
      BY <2>4, <2>6, RemovedIs
    <3>2. Removed[k][t][r].tree = Leaf /\ Removed[k][t][r].done
      BY <3>1
    <3>3. g = 0 /\ T = {} /\ T \ {r} = {}
      BY <2>3, <2>6, IsLeaf
    <3>4. Is(Leaf, g, T \ {r}) /\ ~Red(Leaf)
      BY <3>3, IsLeaf DEF Red
    <3> QED BY <2>3, <3>2, <3>4 DEF Remains
  <2>7. CASE t # Leaf /\ t.value = r /\ \E d \in Bit : t.link[d] = Leaf
    <3>1. Removed[k][t][r] = Unlinked(t)
      BY <2>4, <2>7, RemovedIs
    <3>2. Remains(Unlinked(t), g, T \ {t.value}, IF Red(t) THEN 0 ELSE 1)
      BY <2>3, <2>7, UnlinkedIs
    <3> QED BY <2>3, <2>7, <3>1, <3>2
  <2>8. ASSUME t # Leaf, NEW d \in Bit,
               NEW w \in Value, NEW q \in Value,
               Removed[k][t][r] = Returned(t, w, d, Removed[k - 1][t.link[d]][q]),
               Parted(Held(t.link[d]) \ {q}, w, Held(t.link[1 - d]), d),
               (Held(t.link[d]) \ {q}) \cup Held(t.link[1 - d]) \cup {w} = T \ {r}
        PROVE  FALSE
    <3>1. PICK u \in Value, b \in Bit, i \in Int : \E A, B \in SUBSET Value : \E x, y :
            Apart(t, g, T, d, u, b, i, A, B, x, y)
      BY <2>3, <2>8, IsApart
    <3>2. PICK A \in SUBSET Value, B \in SUBSET Value : \E x, y :
            Apart(t, g, T, d, u, b, i, A, B, x, y)
      BY <3>1
    <3>3. PICK x, y : Apart(t, g, T, d, u, b, i, A, B, x, y)
      BY <3>2
    <3>4. /\ t = Made(u, b, d, x, y)
          /\ Is(x, i, A) /\ Is(y, i, B)
          /\ g = i + b
          /\ b = 0 => ~Red(x) /\ ~Red(y)
      BY <3>3 DEF Apart
    <3>5. t.link[d] = x /\ t.link[1 - d] = y /\ (Red(t) <=> b = 0)
      <4>1. PICK e \in Bit : d # e /\ e = 1 - d
        BY Turn
      <4> QED BY <3>4, <4>1, MadeIs, MadeOther
    <3>6. Held(x) = A /\ Held(y) = B
      BY <3>4, HeldIs
    <3>7. k - 1 \in Nat /\ k - 1 < k /\ x \in Tree[k - 1]
      <4>1. k - 1 \in Nat /\ t.link[d] \in Tree[k - 1]
        BY <2>3, <2>4, <2>8, NodeIs
      <4> QED BY <3>5, <4>1
    <3> DEFINE below == Removed[k - 1][x][q]
               bit == IF Red(x) THEN 0 ELSE 1
               A2 == A \ {q}
    <3>8. Remains(below, i, A2, bit)
      <4>1. AllFine(k - 1)
        <5> HIDE DEF AllFine
        <5> QED BY <2>2, <3>7
      <4> QED BY <3>4, <3>7, <4>1
    <3>9. bit \in Bit /\ (b = 0 => bit = 1) /\ A2 \in SUBSET Value
      BY <3>4, BitIs
    <3>10. Parted(A2, w, B, d) /\ A2 \cup B \cup {w} = T \ {r}
      BY <2>8, <3>5, <3>6
    <3> HIDE DEF below, bit, A2
    <3>11. Remains(Returned(Made(u, b, d, x, y), w, d, below), i + b, A2 \cup B \cup {w}, b)
      BY <3>4, <3>8, <3>9, <3>10, ReturnedIs
    <3>12. Removed[k][t][r] = Returned(Made(u, b, d, x, y), w, d, below)
      <4>1. Removed[k][t][r] = Returned(t, w, d, Removed[k - 1][x][q])
        BY <2>8, <3>5
      <4> QED BY <3>4, <4>1 DEF below
    <3>13. b = IF Red(t) THEN 0 ELSE 1
      BY <3>5, BitIs
    <3>14. Remains(Removed[k][t][r], g, T \ {r}, b)
      BY <3>4, <3>10, <3>11, <3>12
    <3> QED BY <2>3, <3>13, <3>14
  <2>9. ASSUME t # Leaf, NEW d \in Bit
        PROVE  /\ t.value \in T /\ t.value \in Value
               /\ T \in SUBSET Value
               /\ Held(t.link[d]) = {z \in T : Before(z, t.value, d)}
               /\ Held(t.link[1 - d]) = {z \in T : Before(t.value, z, d)}
               /\ T = Held(t.link[d]) \cup Held(t.link[1 - d]) \cup {t.value}
    <3> HIDE DEF Bad, AllFine, Fine
    <3> QED BY <2>3, <2>9, HeldLinks
  <2>10. CASE t # Leaf /\ t.value # r
    <3> DEFINE d == Dir(t, r)
               u == t.value
               A == Held(t.link[d])
               B == Held(t.link[1 - d])
    <3>1. d \in Bit /\ Removed[k][t][r] = Returned(t, u, d, Removed[k - 1][t.link[d]][r])
      <4>1. d \in Bit
        BY DEF Dir, Bit
      <4>2. LET e == Dir(t, r)
            IN Removed[k][t][r] = Returned(t, t.value, e, Removed[k - 1][t.link[e]][r])
        BY <2>4, <2>10, RemovedIs
      <4> QED BY <4>1, <4>2
    <3>2. /\ u \in T /\ u \in Value
          /\ A = {z \in T : Before(z, u, d)} /\ B = {z \in T : Before(u, z, d)}
          /\ T = A \cup B \cup {u}
      <4> HIDE DEF d
      <4> QED BY <2>9, <2>10, <3>1
    <3>3. u \in Int /\ r # u /\ T \subseteq Int
      BY <2>10, <3>2, ValueAssumption
    <3>4. Before(r, u, d)
      BY <2>5, <3>3 DEF Dir, Before
    <3> HIDE DEF d, u, A, B
    <3>5. r \notin B
      BY <2>5, <3>1, <3>2, <3>3, <3>4, BeforeIs
    <3>6. Parted(A \ {r}, u, B, d)
      BY <3>2 DEF Parted
    <3>7. (A \ {r}) \cup B \cup {u} = T \ {r}
      BY <3>2, <3>3, <3>5
    <3> QED BY <2>8, <2>10, <3>1, <3>2, <3>6, <3>7 DEF A, B
  <2>11. CASE t # Leaf /\ t.value = r /\ \A d \in Bit : t.link[d] # Leaf
    <3> DEFINE x == t.link[0]
               heir == Top(Spine[k - 1][x][1]).value
               A == Held(x)
               B == Held(t.link[1 - 0])
    <3>1. Removed[k][t][r] = Returned(t, heir, 0, Removed[k - 1][x][heir])
      <4>1. LET z == Top(Spine[k - 1][t.link[0]][1]).value
            IN Removed[k][t][r] = Returned(t, z, 0, Removed[k - 1][t.link[0]][z])
        BY <2>4, <2>11, RemovedIs
      <4> QED BY <4>1
    <3>2. /\ r \in T
          /\ A = {z \in T : Before(z, r, 0)} /\ B = {z \in T : Before(r, z, 0)}
          /\ T = A \cup B \cup {r}
      BY <2>9, <2>11, BitIs
    <3>3. k - 1 \in Nat /\ x \in Tree[k - 1] /\ x # Leaf
      <4>1. k - 1 \in Nat /\ t.link[0] \in Tree[k - 1]
        BY <2>3, <2>4, <2>11, NodeIs, BitIs
      <4> QED BY <2>11, <4>1, BitIs
    <3>4. Within(x, T)
      <4>1. Within(t, T)
        BY <2>3, <2>11, WithinRoot
      <4>2. t.link[0] # Leaf => Within(t.link[0], T)
        BY <4>1, WithinLink, BitIs
      <4> QED BY <3>3, <4>2
    <3>5. End(heir, A, 1)
      <4> HIDE DEF x
      <4> QED BY <3>3, <3>4, SpineEnds, BitIs
    <3> HIDE DEF x, heir, A, B
    <3>6. heir \in A /\ \A z \in A : z = heir \/ z < heir
      BY <3>5 DEF End, Before
    <3>7. T \subseteq Int /\ A \subseteq T /\ B \subseteq T /\ heir \in Value /\ heir \in Int
      BY <3>2, <3>6, ValueAssumption
    <3>8. (\A z \in A : z < r) /\ \A z \in B : r < z
      BY <3>2 DEF Before
    <3>9. Parted(A \ {heir}, heir, B, 0)
      <4>1. \A z \in B : heir < z
        BY <2>5, <3>6, <3>7, <3>8
      <4> QED BY <3>6, <4>1 DEF Parted, Before
    <3>10. (A \ {heir}) \cup B \cup {heir} = T \ {r}
      <4>1. r \notin A /\ r \notin B
        BY <2>5, <3>8
      <4> QED BY <3>2, <3>6, <4>1
    <3> QED BY <2>8, <2>11, <3>1, <3>7, <3>9, <3>10, BitIs DEF A, B, x
  <2> QED BY <2>6, <2>7, <2>10, <2>11
<1>2. AllFine(n)
  <2> HIDE DEF AllFine
  <2> QED BY <1>1
<1>3. Fine(n, node, h, S, v)
  <2> HIDE DEF Fine
  <2> QED BY <1>2
<1> QED BY <1>3

-----------------------------------------------------------------------------
(* The iterator.                                                           *)

\* The next of these values.
Follows(m2, m, S) == m \in S /\ m2 \in S /\ m < m2 /\ \A u \in S : ~(m < u /\ u < m2)

\* It has one more below it.
LEMMA FollowsCounts ==
  ASSUME NEW S \in SUBSET Value, IsFiniteSet(S), NEW m, NEW m2, Follows(m2, m, S)
  PROVE  Cardinality({v \in S : v < m2}) = Cardinality({v \in S : v < m}) + 1
<1> DEFINE low == {v \in S : v < m}
<1>1. S \subseteq Int /\ m \in Int /\ m2 \in Int /\ ~(m < m)
  BY ValueAssumption DEF Follows
<1>2. {v \in S : v < m2} = low \cup {m}
  <2>1. \A v \in S : v < m2 <=> v < m \/ v = m
    BY <1>1 DEF Follows
  <2>2. m \in S
    BY DEF Follows
  <2> QED BY <2>1, <2>2
<1>3. low \in SUBSET S /\ m \notin low
  BY <1>1
<1> HIDE DEF low
<1>4. IsFiniteSet(low)
  BY <1>3, FS_Subset
<1>5. Cardinality(low \cup {m}) = Cardinality(low) + 1
  BY <1>3, <1>4, FS_AddElement
<1> QED BY <1>2, <1>5 DEF low

Turned(p, k) == p[k + 1] # p[k].link[1]
Up(p) == SubSeq(p, 1, CHOOSE k \in 1..Len(p) - 1 :
                        Turned(p, k) /\ \A l \in k + 1..Len(p) - 1 : ~Turned(p, l))

\* What the nodes on a path hold.
LEMMA PathHolds ==
  ASSUME NEW S \in SUBSET Value, NEW p, Path(p, S)
  PROVE  /\ Len(p) \in Nat /\ Len(p) > 0 /\ Within(Top(p), S)
         /\ \A k \in 1..Len(p) : /\ Within(p[k], S) /\ p[k].value \in Held(p[k])
                                 /\ Held(p[k]) \in SUBSET S
         /\ \A k \in 1..Len(p) - 1 :
              /\ Turned(p, k) => /\ p[k + 1] = p[k].link[0]
                                 /\ Held(p[k + 1]) = {u \in Held(p[k]) : u < p[k].value}
              /\ ~Turned(p, k) => Held(p[k + 1]) = {u \in Held(p[k]) : p[k].value < u}
<1>1. p \in Seq(Trees) /\ p # <<>>
  BY DEF Path
<1>2. Len(p) \in Nat /\ Len(p) > 0
  BY <1>1
<1>3. \A k \in 1..Len(p) : Within(p[k], S)
  BY DEF Path
<1>4. Within(Top(p), S)
  BY <1>2, <1>3 DEF Top
<1>5. ASSUME NEW k \in 1..Len(p) PROVE p[k].value \in Held(p[k]) /\ Held(p[k]) \in SUBSET S
  <2>1. Within(p[k], S)
    BY <1>3
  <2>2. p[k].value \in Held(p[k])
    BY <2>1, WithinLink, BitIs
  <2> QED BY <2>1, <2>2 DEF Within
<1>6. ASSUME NEW k \in 1..Len(p) - 1
      PROVE  /\ Turned(p, k) => /\ p[k + 1] = p[k].link[0]
                                /\ Held(p[k + 1]) = {u \in Held(p[k]) : u < p[k].value}
             /\ ~Turned(p, k) => Held(p[k + 1]) = {u \in Held(p[k]) : p[k].value < u}
  <2>1. Within(p[k], S)
    BY <1>2, <1>3
  <2>2. PICK d \in Bit : p[k + 1] = p[k].link[d]
    BY DEF Path
  <2>3. /\ Held(p[k].link[0]) = Side(Held(p[k]), p[k].value, 0)
        /\ Held(p[k].link[1]) = Side(Held(p[k]), p[k].value, 1)
    BY <2>1, WithinLink, BitIs
  <2>4. Turned(p, k) => d = 0
    BY <2>2, BitIs DEF Turned
  <2>5. ~Turned(p, k) => p[k + 1] = p[k].link[1]
    BY DEF Turned
  <2>6. Turned(p, k) => p[k + 1] = p[k].link[0]
    BY <2>2, <2>4
  <2> QED BY <2>3, <2>5, <2>6 DEF Side
<1> QED BY <1>2, <1>3, <1>4, <1>5, <1>6

\* A node without a right child is the last of the nodes from which the path to it goes
\* to the right only.
LEMMA EndAlong ==
  ASSUME NEW S \in SUBSET Value, NEW p, Path(p, S), NEW m, End(m, Held(Top(p)), 1),
         NEW i \in 1..Len(p), \A l \in i..Len(p) - 1 : ~Turned(p, l)
  PROVE  End(m, Held(p[i]), 1)
<1> DEFINE n == Len(p)
           Bad == {j \in Nat : j < n /\ (\A l \in n - j..n - 1 : ~Turned(p, l)) /\ ~End(m, Held(p[n - j]), 1)}
<1>1. n \in Nat /\ n > 0 /\ S \subseteq Int
  BY PathHolds, ValueAssumption
<1>2. Bad = {}
  <2>1. SUFFICES ASSUME Bad # {} PROVE FALSE
    OBVIOUS
  <2>2. PICK j \in Bad : \A a \in Nat : a < j => a \notin Bad
    BY <2>1, LeastNumber
  <2>3. /\ j \in Nat /\ j < n /\ ~End(m, Held(p[n - j]), 1)
        /\ \A l \in n - j..n - 1 : ~Turned(p, l)
    BY <2>2
  <2> DEFINE k == n - j
  <2>4. j # 0
    <3>1. p[n] = Top(p) /\ n - 0 = n
      BY <1>1 DEF Top
    <3> HIDE DEF n
    <3> QED BY <2>3, <3>1
  <2>5. j - 1 \in Nat /\ j - 1 < j /\ n - (j - 1) = k + 1 /\ k \in 1..n - 1 /\ k \in 1..n /\ k + 1 \in 1..n
        /\ \A l \in k + 1..n - 1 : l \in n - j..n - 1
    BY <1>1, <2>3, <2>4
  <2>6. End(m, Held(p[k + 1]), 1)
    <3> DEFINE i1 == j - 1
    <3>1. i1 \notin Bad /\ i1 \in Nat /\ i1 < n
      <4> HIDE DEF Bad
      <4> QED BY <2>2, <2>3, <2>5, <1>1
    <3>2. n - i1 = k + 1
      BY <2>5
    <3>3. \A l \in n - i1..n - 1 : ~Turned(p, l)
      BY <2>3, <2>5
    <3>4. End(m, Held(p[n - i1]), 1)
      <4> HIDE DEF i1, n, k
      <4> QED BY <3>1, <3>3
    <3> QED BY <3>2, <3>4
  <2>7. ~Turned(p, k)
    BY <2>3, <2>5
  <2> HIDE DEF k
  <2>8. /\ Held(p[k + 1]) = {u \in Held(p[k]) : p[k].value < u}
        /\ p[k].value \in Held(p[k]) /\ Held(p[k]) \in SUBSET S
    <3> HIDE DEF Bad
    <3>1. k \in 1..Len(p) - 1 /\ k \in 1..Len(p)
      BY <2>5
    <3>2. p[k].value \in Held(p[k]) /\ Held(p[k]) \in SUBSET S
      BY <3>1, PathHolds
    <3>3. ~Turned(p, k) => Held(p[k + 1]) = {u \in Held(p[k]) : p[k].value < u}
      BY <3>1, PathHolds
    <3> QED BY <2>7, <3>2, <3>3
  <2>9. End(m, Held(p[k]), 1)
    <3> DEFINE H == Held(p[k])
               v == p[k].value
    <3>1. m \in H /\ v < m /\ \A u \in H : v < u => u = m \/ u < m
      BY <2>6, <2>8 DEF End, Before
    <3>2. H \subseteq Int /\ v \in H
      BY <1>1, <2>8
    <3> HIDE DEF H, v
    <3>3. \A u \in H : u = m \/ u < m
      BY <3>1, <3>2
    <3> QED BY <3>1, <3>3 DEF End, Before, H
  <2> QED BY <2>3, <2>9 DEF k
<1>3. n - i \in Nat /\ n - i < n /\ n - (n - i) = i
  BY <1>1
<1> HIDE DEF n
<1> QED BY <1>2, <1>3 DEF n

\* Where the path last went to the left.
LEMMA UpIs ==
  ASSUME NEW S \in SUBSET Value, NEW p, Path(p, S),
         \E k \in 1..Len(p) - 1 : Turned(p, k)
  PROVE  \E k \in 1..Len(p) - 1 :
           /\ Turned(p, k) /\ \A l \in k + 1..Len(p) - 1 : ~Turned(p, l)
           /\ Up(p) = SubSeq(p, 1, k)
<1> DEFINE n == Len(p)
           Bad == {j \in Nat : j < n /\ j > 0 /\ Turned(p, n - j)}
<1>1. n \in Nat
  BY PathHolds
<1>2. PICK a \in 1..n - 1 : Turned(p, a)
  OBVIOUS
<1>3. n - a \in Bad
  <2>1. n - a \in Nat /\ n - a < n /\ n - a > 0 /\ n - (n - a) = a
    BY <1>1
  <2> HIDE DEF n
  <2> QED BY <1>2, <2>1
<1>4. PICK j \in Bad : \A b \in Nat : b < j => b \notin Bad
  BY <1>3, LeastNumber
<1>5. ASSUME NEW l \in (n - j) + 1..n - 1 PROVE ~Turned(p, l)
  <2>1. n - l \in Nat /\ n - l < j /\ n - l < n /\ n - l > 0 /\ n - (n - l) = l
    BY <1>1, <1>4
  <2> HIDE DEF n
  <2> QED BY <1>4, <2>1
<1>6. n - j \in 1..n - 1 /\ Turned(p, n - j)
  BY <1>1, <1>4
<1>7. \E k \in 1..n - 1 : Turned(p, k) /\ \A l \in k + 1..n - 1 : ~Turned(p, l)
  <2> HIDE DEF n, Bad
  <2> QED BY <1>5, <1>6
<1> DEFINE K == CHOOSE k \in 1..Len(p) - 1 :
                  Turned(p, k) /\ \A l \in k + 1..Len(p) - 1 : ~Turned(p, l)
<1>8. K \in 1..Len(p) - 1 /\ Turned(p, K) /\ \A l \in K + 1..Len(p) - 1 : ~Turned(p, l)
  BY <1>7
<1>9. Up(p) = SubSeq(p, 1, K)
  BY Zenon DEF Up
<1> HIDE DEF K
<1> QED BY <1>8, <1>9

\* A path cut short is a path.
LEMMA PathUp ==
  ASSUME NEW S \in SUBSET Value, NEW p, Path(p, S), NEW k \in 1..Len(p) - 1
  PROVE  Path(SubSeq(p, 1, k), S) /\ Top(SubSeq(p, 1, k)) = p[k] /\ SubSeq(p, 1, k)[1] = p[1]
<1> DEFINE q == SubSeq(p, 1, k)
<1>1. p \in Seq(Trees) /\ Len(p) \in Nat /\ k \in Nat /\ k <= Len(p) /\ 1 <= k
  BY PathHolds DEF Path
<1>2. q \in Seq(Trees) /\ Len(q) = k /\ \A i \in 1..k : q[i] = p[i]
  BY <1>1, SubSeqProperties
<1>3. q # <<>>
  <2> HIDE DEF q
  <2> QED BY <1>1, <1>2
<1>4. \A i \in 1..k : i \in 1..Len(p)
  BY <1>1
<1>5. \A i \in 1..k - 1 : i \in 1..Len(p) - 1 /\ i \in 1..k /\ i + 1 \in 1..k
  BY <1>1
<1> HIDE DEF q
<1>6. Path(q, S)
  BY <1>2, <1>3, <1>4, <1>5 DEF Path
<1>7. Top(q) = p[k] /\ q[1] = p[1]
  BY <1>1, <1>2 DEF Top
<1> QED BY <1>6, <1>7 DEF q

\* An increment goes down to the least value on the right ...
LEMMA DescendFollows ==
  ASSUME NEW S \in SUBSET Value, IsFiniteSet(S), NEW p, Path(p, S), Top(p).link[1] # Leaf
  PROVE  LET q == p \o Spine[Cardinality(S)][Top(p).link[1]][0]
         IN Path(q, S) /\ q[1] = p[1] /\ Follows(Top(q).value, Top(p).value, S)
<1> DEFINE t == Top(p)
           c == t.link[1]
           n == Cardinality(S)
           r == Spine[n][c][0]
           m == t.value
           m2 == Top(r).value
<1>1. Within(t, S)
  BY PathHolds
<1>2. /\ t.value \in Held(t) /\ Held(c) = Side(Held(t), t.value, 1) /\ Within(c, S)
      /\ \E i \in Int : Is(c, i, Held(c))
  <2>1. t.link[1] # Leaf
    OBVIOUS
  <2> HIDE DEF t
  <2> QED BY <1>1, <2>1, WithinLink, BitIs
<1>3. c \in Tree[n] /\ n \in Nat
  <2> HIDE DEF c, t
  <2>1. PICK i \in Int : Is(c, i, Held(c))
    BY <1>2
  <2>2. Held(c) \in SUBSET S
    BY <1>2 DEF Within
  <2>3. /\ IsFiniteSet(Held(c)) /\ Cardinality(Held(c)) <= Cardinality(S)
        /\ Cardinality(Held(c)) \in Nat /\ Cardinality(S) \in Nat
    BY <2>2, FS_Subset, FS_CardinalityType
  <2>4. c \in Tree[Cardinality(Held(c))]
    <3>1. Held(c) \in SUBSET Value
      BY <2>2
    <3> QED BY <2>1, <2>3, <3>1, DepthIs
  <2>5. Tree[Cardinality(Held(c))] \subseteq Tree[Cardinality(S)]
    BY <2>3, TreeMonotone
  <2> QED BY <2>3, <2>4, <2>5
<1>4. Path(r, S) /\ r[1] = c /\ End(m2, Held(c), 0)
  <2> HIDE DEF c, n
  <2> QED BY <1>2, <1>3, SpineEnds, BitIs
<1> HIDE DEF r
<1>5. Path(p \o r, S) /\ Top(p \o r) = Top(r) /\ (p \o r)[1] = p[1]
  BY <1>4, PathJoined, BitIs
<1>6. Follows(m2, m, S)
  <2> DEFINE H == Held(t)
             L == Held(c)
  <2>1. m \in H /\ L = {u \in H : m < u} /\ H \in SUBSET S
    BY <1>1, <1>2 DEF Side, Within
  <2>2. m2 \in L /\ \A u \in L : u = m2 \/ m2 < u
    BY <1>4 DEF End, Before
  <2>3. \A a, z \in H : \A b \in S : a < b /\ b < z => b \in H
    BY <1>1 DEF Within
  <2> HIDE DEF H, L, m, m2
  <2>4. S \subseteq Int
    BY ValueAssumption
  <2>5. ASSUME NEW u \in S, m < u, u < m2 PROVE FALSE
    <3>1. u \in H
      BY <2>1, <2>2, <2>3, <2>5
    <3>2. u = m2 \/ m2 < u
      BY <2>1, <2>2, <2>5, <3>1
    <3>3. u \in Int /\ m2 \in Int
      BY <2>1, <2>2, <2>4
    <3> QED BY <2>5, <3>2, <3>3
  <2> QED BY <2>1, <2>2, <2>5 DEF Follows
<1> QED BY <1>5, <1>6 DEF r

\* ... and from a node without a right child it goes up to the next value.
LEMMA AscendFollows ==
  ASSUME NEW S \in SUBSET Value, IsFiniteSet(S), NEW p, Path(p, S), Held(p[1]) = S,
         Top(p).link[1] = Leaf,
         Cardinality({v \in S : v < Top(p).value}) + 1 # Cardinality(S)
  PROVE  Path(Up(p), S) /\ Up(p)[1] = p[1] /\ Follows(Top(Up(p)).value, Top(p).value, S)
<1> DEFINE t == Top(p)
           m == t.value
<1>1. Within(t, S) /\ Len(p) \in Nat /\ Len(p) > 0 /\ S \subseteq Int
  BY PathHolds, ValueAssumption
<1>2. End(m, Held(t), 1)
  <2> HIDE DEF t
  <2>1. t.value \in Held(t) /\ Side(Held(t), t.value, 1) = {}
    <3>1. t.link[1] = Leaf
      BY DEF t
    <3> QED BY <1>1, <3>1, WithinLink, BitIs
  <2>2. Held(t) \subseteq Int
    BY <1>1 DEF Within
  <2>3. \A u \in Held(t) : ~(t.value < u)
    BY <2>1 DEF Side
  <2> QED BY <2>1, <2>2, <2>3 DEF End, Before
<1>3. ASSUME NEW i \in 1..Len(p), \A l \in i..Len(p) - 1 : ~Turned(p, l)
      PROVE  End(m, Held(p[i]), 1)
  <2> HIDE DEF t
  <2> QED BY <1>2, <1>3, EndAlong DEF t
<1>4. \E k \in 1..Len(p) - 1 : Turned(p, k)
  <2>1. SUFFICES ASSUME \A k \in 1..Len(p) - 1 : ~Turned(p, k) PROVE FALSE
    OBVIOUS
  <2>2. End(m, S, 1)
    BY <1>1, <1>3, <2>1
  <2>3. m \in S /\ \A u \in S : u = m \/ u < m
    BY <2>2 DEF End, Before
  <2> HIDE DEF m, t
  <2>4. {v \in S : v < m} = S \ {m}
    <3>1. ~(m < m)
      BY <1>1, <2>3
    <3> QED BY <2>3, <3>1
  <2>5. Cardinality(S \ {m}) = Cardinality(S) - 1 /\ Cardinality(S) \in Nat
    BY <2>3, FS_RemoveElement, FS_CardinalityType
  <2>6. Cardinality({v \in S : v < m}) = Cardinality(S) - 1
    BY <2>4, <2>5
  <2>7. Cardinality({v \in S : v < m}) + 1 # Cardinality(S)
    BY DEF m, t
  <2> QED BY <2>5, <2>6, <2>7
<1>5. PICK k \in 1..Len(p) - 1 :
        /\ Turned(p, k) /\ \A l \in k + 1..Len(p) - 1 : ~Turned(p, l)
        /\ Up(p) = SubSeq(p, 1, k)
  BY <1>4, UpIs
<1>6. Path(Up(p), S) /\ Top(Up(p)) = p[k] /\ Up(p)[1] = p[1]
  <2>1. Path(SubSeq(p, 1, k), S) /\ Top(SubSeq(p, 1, k)) = p[k] /\ SubSeq(p, 1, k)[1] = p[1]
    BY PathUp
  <2> QED BY <1>5, <2>1
<1> DEFINE m2 == p[k].value
<1>7. k + 1 \in 1..Len(p) /\ k \in 1..Len(p)
  BY <1>1
<1>8. End(m, Held(p[k + 1]), 1)
  BY <1>3, <1>5, <1>7
<1>9. /\ Held(p[k + 1]) = {u \in Held(p[k]) : u < m2}
      /\ m2 \in Held(p[k]) /\ Held(p[k]) \in SUBSET S /\ Within(p[k], S)
  <2>1. m2 \in Held(p[k]) /\ Held(p[k]) \in SUBSET S /\ Within(p[k], S)
    BY <1>7, PathHolds
  <2>2. Turned(p, k) => Held(p[k + 1]) = {u \in Held(p[k]) : u < m2}
    BY PathHolds
  <2> QED BY <1>5, <2>1, <2>2
<1>10. Follows(m2, m, S)
  <2> DEFINE H == Held(p[k])
  <2>1. m \in H /\ m < m2 /\ \A u \in H : u < m2 => u = m \/ u < m
    BY <1>8, <1>9 DEF End, Before
  <2>2. \A a, z \in H : \A b \in S : a < b /\ b < z => b \in H
    BY <1>9 DEF Within
  <2>3. m2 \in H /\ H \in SUBSET S
    BY <1>9
  <2> HIDE DEF H, m, m2
  <2>4. ASSUME NEW u \in S, m < u, u < m2 PROVE FALSE
    <3>1. u \in H
      BY <2>1, <2>2, <2>3, <2>4
    <3>2. u = m \/ u < m
      BY <2>1, <2>4, <3>1
    <3>3. u \in Int /\ m \in Int
      BY <1>1, <2>1, <2>3
    <3> QED BY <2>4, <3>2, <3>3
  <2> QED BY <2>1, <2>3, <2>4 DEF Follows
<1> QED BY <1>6, <1>10

-----------------------------------------------------------------------------
(* The set, after any calls.                                               *)

\* What holds the contents, and where an iterator of them is.
SetTree ==
  /\ contents \in SUBSET Value /\ IsFiniteSet(contents) /\ nodes = Cardinality(contents)
  /\ ~Red(root) /\ \E h \in Int : Is(root, h, contents)

SetIterator ==
  /\ position \in Nat
  /\ position < nodes =>
       /\ Path(stack, contents) /\ stack[1] = root
       /\ Cardinality({ v \in contents : v < Top(stack).value }) = position

SetInv == SetTree /\ SetIterator

\* The set of the constructor.
LEMMA SetStart == SetInit => SetInv
<1> SUFFICES ASSUME SetInit PROVE SetInv
  OBVIOUS
<1>1. SetTree
  <2>1. IsFiniteSet({}) /\ Cardinality({}) = 0
    BY FS_EmptySet
  <2>2. Is(Leaf, 0, {}) /\ ~Red(Leaf) /\ 0 \in Int
    BY IsLeaf DEF Red
  <2> QED BY <2>1, <2>2 DEF SetInit, SetTree
<1>2. SetIterator
  BY DEF SetInit, SetIterator
<1> QED BY <1>1, <1>2 DEF SetInv

\* The depth of the whole tree, and what find() tells of it.
LEMMA RootIs ==
  ASSUME SetTree
  PROVE  /\ root \in Tree[nodes] /\ nodes \in Nat
         /\ \E h \in 0..nodes : RedBlackTree[nodes][root][h][contents]
         /\ \A value \in Value : Find[nodes][root][value] <=> value \in contents
<1>1. PICK h \in Int : Is(root, h, contents)
  BY DEF SetTree
<1>2. contents \in SUBSET Value /\ IsFiniteSet(contents) /\ nodes = Cardinality(contents)
  BY DEF SetTree
<1>3. root \in Tree[nodes] /\ nodes \in Nat /\ h \in 0..nodes
  BY <1>1, <1>2, DepthIs
<1>4. RedBlackTree[nodes][root][h][contents]
  BY <1>1, <1>2, <1>3, IsInTree
<1>5. \A value \in Value : Find[nodes][root][value] <=> value \in contents
  BY <1>1, <1>2, <1>3, FindTells
<1> QED BY <1>3, <1>4, <1>5

\* What a changed set asks of iterators: nothing.
LEMMA IteratorsEnded ==
  ASSUME EndIterators, nodes' \in Nat
  PROVE  SetIterator'
BY DEF EndIterators, SetIterator

\* insert() keeps the tree, whatever was in it.
LEMMA InsertStep ==
  ASSUME SetTree, NEW value \in Value, Insert(value)
  PROVE  SetTree' /\ SetIterator'
<1> DEFINE t == Inserted[nodes][root][value]
           S == contents \cup {value}
<1>1. PICK h \in Int : Is(root, h, contents)
  BY DEF SetTree
<1>2. contents \in SUBSET Value /\ IsFiniteSet(contents) /\ nodes = Cardinality(contents)
  BY DEF SetTree
<1>3. root \in Tree[nodes] /\ nodes \in Nat /\ (Find[nodes][root][value] <=> value \in contents)
  BY RootIs
<1>4. Almost(t, h, S)
  BY <1>1, <1>2, <1>3, InsertIs
<1>5. root' = Blackened(t) /\ contents' = S
      /\ nodes' = IF value \in contents THEN nodes ELSE nodes + 1
  BY <1>3 DEF Insert, Blackened
<1>6. S \in SUBSET Value
  BY <1>2
<1>7. IsFiniteSet(S) /\ nodes' = Cardinality(S)
  <2>1. IsFiniteSet(S) /\ Cardinality(S) = IF value \in contents THEN Cardinality(contents) ELSE Cardinality(contents) + 1
    BY <1>2, FS_AddElement
  <2> QED BY <1>2, <1>5, <2>1
<1> HIDE DEF t, S
<1>8. ~Red(Blackened(t)) /\ \E i \in Int : Is(Blackened(t), i, S)
  BY <1>4, <1>6, AlmostPainted
<1>9. SetTree'
  BY <1>5, <1>6, <1>7, <1>8 DEF SetTree
<1>10. nodes' \in Nat
  BY <1>3, <1>5
<1>11. SetIterator'
  BY <1>10, IteratorsEnded DEF Insert
<1> QED BY <1>9, <1>11

\* remove() does, also of a value that is not there.
LEMMA RemoveStep ==
  ASSUME SetTree, NEW value \in Value, Remove(value)
  PROVE  SetTree' /\ SetIterator'
<1> DEFINE result == Removed[nodes][root][value]
           t == result.tree
           S == contents \ {value}
<1>1. PICK h \in Int : Is(root, h, contents)
  BY DEF SetTree
<1>2. contents \in SUBSET Value /\ IsFiniteSet(contents) /\ nodes = Cardinality(contents)
  BY DEF SetTree
<1>3. root \in Tree[nodes] /\ nodes \in Nat /\ (Find[nodes][root][value] <=> value \in contents)
  BY RootIs
<1>4. Remains(result, h, S, IF Red(root) THEN 0 ELSE 1)
  BY <1>1, <1>2, <1>3, RemoveIs
<1>5. root' = (IF t = Leaf THEN Leaf ELSE Blackened(t)) /\ contents' = S
      /\ nodes' = IF value \in contents THEN nodes - 1 ELSE nodes
  BY <1>3 DEF Remove, Blackened
<1>6. S \in SUBSET Value
  BY <1>2
<1>7. IsFiniteSet(S) /\ nodes' = Cardinality(S) /\ nodes' \in Nat
  <2>1. IsFiniteSet(S) /\ Cardinality(S) = IF value \in contents THEN Cardinality(contents) - 1 ELSE Cardinality(contents)
    BY <1>2, FS_RemoveElement
  <2>2. Cardinality(S) \in Nat
    BY <2>1, FS_CardinalityType
  <2> QED BY <1>2, <1>5, <2>1, <2>2
<1>8. \E i \in Int : Is(t, i, S)
  <2>1. Is(t, h, S) \/ Is(t, h - 1, S)
    BY <1>4 DEF Remains
  <2> QED BY <2>1
<1>9. ~Red(root') /\ \E i \in Int : Is(root', i, S)
  <2> HIDE DEF t, S
  <2>1. CASE t = Leaf
    BY <1>5, <1>8, <2>1 DEF Red
  <2>2. CASE t # Leaf
    <3>1. PICK i \in Int : Almost(t, i, S)
      BY <1>6, <1>8, <2>2, IsAlmost
    <3>2. ~Red(Blackened(t)) /\ \E j \in Int : Is(Blackened(t), j, S)
      BY <1>6, <3>1, AlmostPainted
    <3> QED BY <1>5, <2>2, <3>2
  <2> QED BY <2>1, <2>2
<1> HIDE DEF t, S
<1>10. SetTree'
  BY <1>5, <1>6, <1>7, <1>9 DEF SetTree
<1>11. SetIterator'
  BY <1>7, IteratorsEnded DEF Remove
<1> QED BY <1>10, <1>11

\* reset() does.
LEMMA ResetStep ==
  ASSUME ResetSet
  PROVE  SetTree' /\ SetIterator'
<1>1. IsFiniteSet({}) /\ Cardinality({}) = 0
  BY FS_EmptySet
<1>2. Is(Leaf, 0, {}) /\ ~Red(Leaf) /\ 0 \in Int
  BY IsLeaf DEF Red
<1>3. SetTree'
  BY <1>1, <1>2 DEF ResetSet, SetTree
<1>4. SetIterator'
  BY IteratorsEnded DEF ResetSet
<1> QED BY <1>3, <1>4

\* A change of the iterator leaves the tree alone.
LEMMA TreeStays == SetTree /\ UNCHANGED <<root, nodes, contents>> => SetTree'
BY DEF SetTree

\* begin() is at the least value.
LEMMA BeginStep ==
  ASSUME SetTree, Begin
  PROVE  SetTree' /\ SetIterator'
<1>1. SetTree' /\ UNCHANGED <<root, nodes, contents>>
  BY TreeStays DEF Begin
<1>2. position' = 0 /\ stack' = Spine[nodes][root][0]
  BY DEF Begin
<1>3. ASSUME 0 < nodes
      PROVE  /\ Path(stack', contents) /\ stack'[1] = root
             /\ Cardinality({ v \in contents : v < Top(stack').value }) = 0
  <2>1. PICK h \in Int : Is(root, h, contents)
    BY DEF SetTree
  <2>2. contents \in SUBSET Value /\ nodes = Cardinality(contents) /\ contents \subseteq Int
    BY ValueAssumption DEF SetTree
  <2>3. root # Leaf
    <3>1. SUFFICES ASSUME root = Leaf PROVE FALSE
      OBVIOUS
    <3>2. contents = {}
      BY <2>1, <2>2, <3>1, IsLeaf
    <3> QED BY <1>3, <2>2, <3>2, FS_EmptySet
  <2>4. Within(root, contents) /\ Held(root) = contents
    BY <2>1, <2>2, <2>3, WithinRoot
  <2>5. root \in Tree[nodes] /\ nodes \in Nat
    BY RootIs
  <2> DEFINE p == Spine[nodes][root][0]
  <2>6. Path(p, contents) /\ p[1] = root /\ End(Top(p).value, Held(root), 0)
    BY <2>2, <2>4, <2>5, SpineEnds, BitIs
  <2> HIDE DEF p
  <2>7. {v \in contents : v < Top(p).value} = {}
    <3> DEFINE m == Top(p).value
    <3>1. m \in contents /\ \A u \in contents : u = m \/ m < u
      BY <2>4, <2>6 DEF End, Before
    <3> HIDE DEF m
    <3>2. \A u \in contents : ~(u < m)
      BY <2>2, <3>1
    <3> QED BY <3>2 DEF m
  <2>8. Cardinality({v \in contents : v < Top(p).value}) = 0
    BY <2>7, FS_EmptySet
  <2> QED BY <1>2, <2>6, <2>8 DEF p
<1>4. SetIterator'
  BY <1>1, <1>2, <1>3 DEF SetIterator
<1> QED BY <1>1, <1>4

\* operator++ goes to the next value.
LEMMA IncrementStep ==
  ASSUME SetInv, Increment
  PROVE  SetTree' /\ SetIterator'
<1>1. SetTree' /\ UNCHANGED <<root, nodes, contents>>
  BY TreeStays DEF Increment, SetInv
<1>2. /\ position \in Nat /\ position < nodes /\ position' = position + 1
      /\ Path(stack, contents) /\ stack[1] = root
      /\ Cardinality({ v \in contents : v < Top(stack).value }) = position
  BY DEF Increment, SetInv, SetIterator
<1>3. contents \in SUBSET Value /\ IsFiniteSet(contents) /\ nodes = Cardinality(contents)
      /\ nodes \in Nat
  BY RootIs DEF SetTree, SetInv
<1>4. ASSUME position + 1 < nodes
      PROVE  /\ Path(stack', contents) /\ stack'[1] = root
             /\ Follows(Top(stack').value, Top(stack).value, contents)
  <2>1. CASE Top(stack).link[1] # Leaf
    <3>1. stack' = stack \o Spine[nodes][Top(stack).link[1]][0]
      BY <1>2, <1>3, <1>4, <2>1 DEF Increment
    <3>2. LET q == stack \o Spine[nodes][Top(stack).link[1]][0]
          IN Path(q, contents) /\ q[1] = stack[1] /\ Follows(Top(q).value, Top(stack).value, contents)
      BY <1>2, <1>3, <2>1, DescendFollows
    <3> QED BY <1>2, <3>1, <3>2
  <2>2. CASE Top(stack).link[1] = Leaf
    <3>1. stack' = Up(stack)
      <4>1. stack' = Ascended
        BY <1>2, <1>3, <1>4, <2>2 DEF Increment
      <4> QED BY <4>1, Zenon DEF Ascended, IsLeftOf, Up, Turned
    <3>2. Held(stack[1]) = contents
      <4>1. PICK h \in Int : Is(root, h, contents)
        BY DEF SetInv, SetTree
      <4> QED BY <1>2, <1>3, <4>1, HeldIs
    <3>3. /\ Path(Up(stack), contents) /\ Up(stack)[1] = stack[1]
          /\ Follows(Top(Up(stack)).value, Top(stack).value, contents)
      <4>1. Cardinality({ v \in contents : v < Top(stack).value }) + 1 # Cardinality(contents)
        BY <1>2, <1>3, <1>4
      <4> QED BY <1>2, <1>3, <2>2, <3>2, <4>1, AscendFollows
    <3> QED BY <1>2, <3>1, <3>3
  <2> QED BY <2>1, <2>2
<1>5. SetIterator'
  <2>1. ASSUME position' < nodes'
        PROVE  /\ Path(stack', contents') /\ stack'[1] = root'
               /\ Cardinality({ v \in contents' : v < Top(stack').value }) = position'
    <3>1. position + 1 < nodes
      BY <1>1, <1>2, <2>1
    <3>2. /\ Path(stack', contents) /\ stack'[1] = root
          /\ Follows(Top(stack').value, Top(stack).value, contents)
      BY <1>4, <3>1
    <3>3. Cardinality({ v \in contents : v < Top(stack').value }) = position + 1
      BY <1>2, <1>3, <3>2, FollowsCounts
    <3> QED BY <1>1, <1>2, <3>2, <3>3
  <2> QED BY <1>2, <2>1 DEF SetIterator
<1> QED BY <1>1, <1>5

\* The element an iterator points to has as many below it as its position.
LEMMA OrderOf == SetInv => InOrder
<1> SUFFICES ASSUME SetInv, position < nodes
             PROVE  /\ Top(stack).value \in contents
                    /\ Cardinality({ v \in contents : v < Top(stack).value }) = position
  BY DEF InOrder
<1>1. /\ Path(stack, contents) /\ contents \in SUBSET Value
      /\ Cardinality({ v \in contents : v < Top(stack).value }) = position
  BY DEF SetInv, SetIterator, SetTree
<1>2. Within(Top(stack), contents)
  BY <1>1, PathHolds
<1>3. Top(stack).value \in Held(Top(stack))
  BY <1>1, <1>2, WithinLink, BitIs
<1> QED BY <1>1, <1>2, <1>3 DEF Within

\* The inductive invariant: the root is that of a red-black tree with the contents, and an
\* iterator is a path of its links to the value that has as many below it as its position.
THEOREM SetCorrect == SetSpec => []SetInv
<1>1. SetInv /\ [SetNext]_setVars => SetInv'
  <2> SUFFICES ASSUME SetInv, [SetNext]_setVars PROVE SetInv'
    OBVIOUS
  <2>1. SetTree
    BY DEF SetInv
  <2>2. CASE ResetSet
    BY <2>2, ResetStep DEF SetInv
  <2>3. CASE Begin
    BY <2>1, <2>3, BeginStep DEF SetInv
  <2>4. CASE Increment
    BY <2>4, IncrementStep DEF SetInv
  <2>5. ASSUME NEW value \in Value, Insert(value) PROVE SetInv'
    BY <2>1, <2>5, InsertStep DEF SetInv
  <2>6. ASSUME NEW value \in Value, Remove(value) PROVE SetInv'
    BY <2>1, <2>6, RemoveStep DEF SetInv
  <2>7. CASE UNCHANGED setVars
    BY <2>7 DEF setVars, iteratorVars, SetInv, SetTree, SetIterator
  <2> QED BY <2>2, <2>3, <2>4, <2>5, <2>6, <2>7 DEF SetNext
<1> QED BY SetStart, <1>1, PTL DEF SetSpec

\* insert() and remove() keep their promise, O(log n), whatever is called in which order:
\* what holds the contents is a red-black tree.
THEOREM SetIsBalanced == SetSpec => []RedBlack
<1>1. SetInv => RedBlack
  <2> SUFFICES ASSUME SetInv PROVE RedBlack
    OBVIOUS
  <2>1. SetTree
    BY DEF SetInv
  <2> QED BY <2>1, RootIs DEF RedBlack, SetTree
<1> QED BY <1>1, SetCorrect, PTL

\* An iteration goes over the set once and in ascending order: at each of its positions, the
\* element has as many below it.
THEOREM SetIsInOrder == SetSpec => []InOrder
<1> QED BY OrderOf, SetCorrect, PTL

\* size(), find() and an iteration tell what was inserted and not removed.
THEOREM SetHoldsItsContents == SetSpec => []IsSet
<1>1. SetInv => IsSet
  <2> SUFFICES ASSUME SetInv PROVE IsSet
    OBVIOUS
  <2>1. SetTree
    BY DEF SetInv
  <2> QED BY <2>1, RootIs, OrderOf DEF IsSet, SetTree
<1> QED BY <1>1, SetCorrect, PTL
=============================================================================
