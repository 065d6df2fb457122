---------------------- MODULE RawOrderStatisticSetProofs ----------------------
(***************************************************************************)
(* Proofs about the tree of OrderStatisticSet and OrderStatisticMap, for   *)
(* every type of values and keys whose comparison is a strict total order: *)
(* what the recursive functions return for every search tree, that they    *)
(* return a search tree with right sizes, and that rotations after each    *)
(* insertion and deletion restore the balance at every node.               *)
(*                                                                         *)
(* The recursive functions are defined by CHOOSE on the trees below their  *)
(* argument, so that it has to be proved first that they satisfy their     *)
(* definitions (the lemmas whose names end with Def).  Everything else is  *)
(* by induction over trees, TreeInduction, with the statement as a set.    *)
(***************************************************************************)
EXTENDS RawOrderStatisticSet, FiniteSetTheorems, SequenceTheorems, WellFoundedInduction, TLAPS

\* Natural induction, with the statement as a set.
LEMMA SetOfNaturals ==
    ASSUME NEW P, 0 \in P, \A n \in Nat : n \in P => n + 1 \in P
    PROVE  Nat \subseteq P
<1> DEFINE less == OpToRel(<, Nat)
           Q == Nat \ P
<1>1. IsWellFoundedOn(less, Nat)
  BY NatLessThanWellFounded
<1>2. \A x, y \in Nat : x < y => <<x, y>> \in less
  BY DEF OpToRel
<1> HIDE DEF less
<1> SUFFICES ASSUME Q # {} PROVE FALSE
  OBVIOUS
<1>3. PICK b \in Q : \A c \in Q : ~(<<c, b>> \in less)
  <2>1. Q \subseteq Nat
    OBVIOUS
  <2> HIDE DEF Q
  <2> QED
    BY <1>1, <2>1, WFMin
<1>4. b \in Nat /\ b # 0 /\ b \notin P
  OBVIOUS
<1>5. b - 1 \in Nat /\ b - 1 < b
  BY <1>4
<1>6. b - 1 \in P
  BY <1>2, <1>3, <1>4, <1>5
<1> QED
  BY <1>4, <1>5, <1>6

-----------------------------------------------------------------------------
(* Trees                                                                   *)

\* The trees whose subtrees are in T.
Above(T) ==
    {Nil} \cup {n \in [value : Value, size : Nat, left : T, right : T] :
                  n.size = 1 + Size(n.left) + Size(n.right)}

\* A function that gives the trees up to height n.
Levels(f, n) ==
    /\ f = [h \in 0..n |-> f[h]]
    /\ f[0] = {Nil}
    /\ \A h \in 1..n : f[h] = Above(f[h - 1])

\* There is such a function for every height,
LEMMA LevelsExist == \A n \in Nat : \E f : Levels(f, n)
<1> DEFINE P == {n \in Nat : \E f : Levels(f, n)}
<1>1. 0 \in P
  <2> DEFINE f == [h \in 0..0 |-> {Nil}]
  <2>1. Levels(f, 0)
    BY DEF Levels
  <2> QED
    BY <2>1
<1>2. ASSUME NEW n \in Nat, n \in P
      PROVE  n + 1 \in P
  <2>1. PICK f : Levels(f, n)
    BY <1>2
  <2> DEFINE g == [h \in 0..(n + 1) |-> IF h = n + 1 THEN Above(f[n]) ELSE f[h]]
  <2>2. /\ g = [h \in 0..(n + 1) |-> g[h]]
        /\ \A h \in 0..n : g[h] = f[h]
        /\ g[n + 1] = Above(f[n])
    OBVIOUS
  <2> HIDE DEF g
  <2>3. \A h \in 1..(n + 1) : g[h] = Above(g[h - 1])
    <3> SUFFICES ASSUME NEW h \in 1..(n + 1)
                 PROVE  g[h] = Above(g[h - 1])
      OBVIOUS
    <3>1. CASE h = n + 1
      <4>1. h - 1 = n /\ n \in 0..n
        BY <3>1
      <4> QED
        BY <2>2, <3>1, <4>1
    <3>2. CASE h # n + 1
      <4>1. h \in 1..n /\ h \in 0..n /\ h - 1 \in 0..n
        BY <3>2
      <4> QED
        BY <2>1, <2>2, <4>1 DEF Levels
    <3> QED
      BY <3>1, <3>2
  <2>4. g[0] = {Nil}
    <3>1. 0 \in 0..n
      OBVIOUS
    <3> QED
      BY <2>1, <2>2, <3>1 DEF Levels
  <2>5. Levels(g, n + 1)
    BY <2>2, <2>3, <2>4 DEF Levels
  <2> QED
    BY <2>5
<1>3. Nat \subseteq P
  <2> HIDE DEF P
  <2> QED
    BY <1>1, <1>2, SetOfNaturals
<1> QED
  BY <1>3

\* and two of them give the same trees.
LEMMA LevelsAgree ==
    ASSUME NEW n \in Nat, NEW m \in Nat, NEW f, NEW g, Levels(f, n), Levels(g, m)
    PROVE  \A h \in Nat : h <= n /\ h <= m => f[h] = g[h]
<1> DEFINE P == {h \in Nat : h <= n /\ h <= m => f[h] = g[h]}
<1>1. 0 \in P
  BY DEF Levels
<1>2. ASSUME NEW h \in Nat, h \in P
      PROVE  h + 1 \in P
  <2> SUFFICES ASSUME h + 1 <= n, h + 1 <= m
               PROVE  f[h + 1] = g[h + 1]
    OBVIOUS
  <2>1. f[h] = g[h]
    BY <1>2
  <2>2. h + 1 \in 1..n /\ h + 1 \in 1..m /\ (h + 1) - 1 = h
    OBVIOUS
  <2>3. f[h + 1] = Above(f[h]) /\ g[h + 1] = Above(g[h])
    BY <2>2 DEF Levels
  <2> QED
    BY <2>1, <2>3
<1>3. Nat \subseteq P
  <2> HIDE DEF P
  <2> QED
    BY <1>1, <1>2, SetOfNaturals
<1> QED
  BY <1>3

\* The trees by height satisfy their definition, which is recursive.
LEMMA TreeDef ==
    /\ Tree[0] = {Nil}
    /\ \A h \in Nat : Tree[h + 1] = Above(Tree[h])
<1> DEFINE F(n) == CHOOSE f : Levels(f, n)
           t == [h \in Nat |-> F(h)[h]]
           Body(s) == [h \in Nat |->
              IF h = 0 THEN {Nil}
              ELSE {Nil} \cup {n \in [value : Value, size : Nat, left : s[h - 1], right : s[h - 1]] :
                                 n.size = 1 + Size(n.left) + Size(n.right)}]
<1>1. \A n \in Nat : Levels(F(n), n)
  BY LevelsExist
<1>2. ASSUME NEW h \in Nat, h # 0
      PROVE  F(h)[h] = Above(F(h - 1)[h - 1])
  <2>1. h - 1 \in Nat /\ h - 1 <= h /\ h - 1 <= h - 1 /\ h \in 1..h
    BY <1>2
  <2> HIDE DEF F
  <2>2. F(h)[h] = Above(F(h)[h - 1])
    BY <1>1, <2>1 DEF Levels
  <2>3. F(h)[h - 1] = F(h - 1)[h - 1]
    BY <1>1, <2>1, LevelsAgree
  <2> QED
    BY <2>2, <2>3
<1>3. F(0)[0] = {Nil}
  BY <1>1 DEF Levels
<1> HIDE DEF F
<1>4. \A h \in Nat : t[h] = IF h = 0 THEN {Nil} ELSE Above(t[h - 1])
  <2> SUFFICES ASSUME NEW h \in Nat PROVE t[h] = IF h = 0 THEN {Nil} ELSE Above(t[h - 1])
    OBVIOUS
  <2>1. CASE h = 0
    BY <1>3, <2>1
  <2>2. CASE h # 0
    <3>1. h - 1 \in Nat
      BY <2>2
    <3> QED
      BY <1>2, <2>2, <3>1
  <2> QED
    BY <2>1, <2>2
<1>5. t = Body(t)
  <2>1. t = [h \in Nat |-> t[h]]
    OBVIOUS
  <2> HIDE DEF t
  <2> QED
    BY <1>4, <2>1 DEF Above
<1>6. Tree = CHOOSE s : s = Body(s)
  BY DEF Tree
<1>7. Tree = Body(Tree)
  <2> HIDE DEF t, Body
  <2> QED
    BY <1>5, <1>6
<1> QED
  <2>1. \A h \in Nat : Tree[h] = IF h = 0 THEN {Nil} ELSE Above(Tree[h - 1])
    BY <1>7 DEF Above
  <2>2. \A h \in Nat : h + 1 # 0 /\ (h + 1) - 1 = h /\ h + 1 \in Nat
    OBVIOUS
  <2> HIDE DEF Above
  <2> QED
    BY <2>1, <2>2


\* All trees.
Trees == UNION {Tree[h] : h \in Nat}

\* What a new node has.
LEMMA NodeProperties ==
    ASSUME NEW left, NEW right, NEW value
    PROVE  /\ Node(left, value, right) # Nil
           /\ Node(left, value, right).left = left
           /\ Node(left, value, right).right = right
           /\ Node(left, value, right).value = value
           /\ Size(Node(left, value, right)) = 1 + Size(left) + Size(right)
           /\ Key(Node(left, value, right)) = KeyOf(value)
BY DEF Node, Nil, Size, Key

\* The null pointer is the tree without nodes.
LEMMA NilProperties == Size(Nil) = 0 /\ Nil \in Tree[0] /\ Nil \in Trees
BY TreeDef DEF Size, Trees

\* A tree of some height counts as one of any larger height.
LEMMA LevelsGrow ==
    ASSUME NEW a \in Nat, NEW b \in Nat, a <= b
    PROVE  Tree[a] \subseteq Tree[b]
<1> DEFINE P == {h \in Nat : Tree[h] \subseteq Tree[h + 1]}
           Q == {h \in Nat : a <= h => Tree[a] \subseteq Tree[h]}
<1>1. 0 \in P
  BY TreeDef DEF Above
<1>2. ASSUME NEW h \in Nat, h \in P
      PROVE  h + 1 \in P
  <2>1. Tree[h + 1] = Above(Tree[h]) /\ Tree[(h + 1) + 1] = Above(Tree[h + 1])
    BY TreeDef
  <2>2. Above(Tree[h]) \subseteq Above(Tree[h + 1])
    BY <1>2 DEF Above
  <2> QED
    BY <2>1, <2>2
<1>3. Nat \subseteq P
  <2> HIDE DEF P
  <2> QED
    BY <1>1, <1>2, SetOfNaturals
<1>4. 0 \in Q
  OBVIOUS
<1>5. ASSUME NEW h \in Nat, h \in Q
      PROVE  h + 1 \in Q
  <2>1. Tree[h] \subseteq Tree[h + 1]
    BY <1>3
  <2>2. a <= h + 1 => a <= h \/ a = h + 1
    OBVIOUS
  <2> QED
    BY <1>5, <2>1, <2>2
<1>6. Nat \subseteq Q
  <2> HIDE DEF Q
  <2> QED
    BY <1>4, <1>5, SetOfNaturals
<1> QED
  BY <1>6

\* The subtrees of a node have less height, and it is the node made of them.
LEMMA PartsOfLevel ==
    ASSUME NEW h \in Nat, NEW t \in Tree[h], t # Nil
    PROVE  /\ h # 0
           /\ t.left \in Tree[h - 1] /\ t.right \in Tree[h - 1]
           /\ t.left \in Tree[h] /\ t.right \in Tree[h]
           /\ t.value \in Value
           /\ t = Node(t.left, t.value, t.right)
           /\ Size(t) \in Nat
           /\ Size(t) = 1 + Size(t.left) + Size(t.right)
<1>1. h # 0
  BY TreeDef
<1>2. h - 1 \in Nat /\ (h - 1) + 1 = h /\ h - 1 <= h
  BY <1>1
<1>3. t \in Above(Tree[h - 1])
  BY <1>2, TreeDef
<1>4. /\ t \in [value : Value, size : Nat, left : Tree[h - 1], right : Tree[h - 1]]
      /\ t.size = 1 + Size(t.left) + Size(t.right)
  BY <1>3 DEF Above
<1>5. t = Node(t.left, t.value, t.right)
  BY <1>4 DEF Node
<1>6. Size(t) \in Nat /\ Size(t) = 1 + Size(t.left) + Size(t.right)
  BY <1>4 DEF Size
<1>7. Tree[h - 1] \subseteq Tree[h]
  BY <1>2, LevelsGrow
<1> QED
  BY <1>1, <1>4, <1>5, <1>6, <1>7

\* The same without heights; a size is 0 at the null pointer only.
LEMMA TreeProperties ==
    ASSUME NEW t \in Trees
    PROVE  /\ Size(t) \in Nat
           /\ Size(t) = 0 <=> t = Nil
           /\ t # Nil => /\ t.left \in Trees /\ t.right \in Trees
                         /\ t.value \in Value
                         /\ t = Node(t.left, t.value, t.right)
                         /\ Size(t) = 1 + Size(t.left) + Size(t.right)
<1>1. PICK h \in Nat : t \in Tree[h]
  BY DEF Trees
<1>2. \A u \in Trees : Size(u) \in Nat
  <2> SUFFICES ASSUME NEW u \in Trees PROVE Size(u) \in Nat
    OBVIOUS
  <2>1. PICK i \in Nat : u \in Tree[i]
    BY DEF Trees
  <2>2. u # Nil => Size(u) \in Nat
    BY <2>1, PartsOfLevel
  <2> QED
    BY <2>2, NilProperties
<1>3. t # Nil => /\ t.left \in Tree[h] /\ t.right \in Tree[h]
                 /\ t.value \in Value
                 /\ t = Node(t.left, t.value, t.right)
                 /\ Size(t) = 1 + Size(t.left) + Size(t.right)
  BY <1>1, PartsOfLevel
<1>4. Tree[h] \subseteq Trees
  BY DEF Trees
<1>5. t # Nil => Size(t.left) \in Nat /\ Size(t.right) \in Nat
  BY <1>2, <1>3, <1>4
<1>6. Size(t) = 0 <=> t = Nil
  BY <1>3, <1>5, NilProperties
<1> QED
  BY <1>2, <1>3, <1>4, <1>6

\* A node of two trees is a tree.
LEMMA NodeIsTree ==
    ASSUME NEW left \in Trees, NEW right \in Trees, NEW value \in Value
    PROVE  /\ Node(left, value, right) \in Trees
           /\ \A h \in Nat : left \in Tree[h] /\ right \in Tree[h] =>
                                Node(left, value, right) \in Tree[h + 1]
<1>1. ASSUME NEW h \in Nat, left \in Tree[h], right \in Tree[h]
      PROVE  Node(left, value, right) \in Tree[h + 1]
  <2>1. Size(left) \in Nat /\ Size(right) \in Nat
    BY TreeProperties
  <2>2. 1 + Size(left) + Size(right) \in Nat
    BY <2>1
  <2>3. Node(left, value, right) \in Above(Tree[h])
    BY <1>1, <2>2 DEF Above, Node
  <2> QED
    BY <2>3, TreeDef
<1>2. PICK a \in Nat, b \in Nat : left \in Tree[a] /\ right \in Tree[b]
  BY DEF Trees
<1>3. \E h \in Nat : left \in Tree[h] /\ right \in Tree[h]
  BY <1>2, LevelsGrow
<1> QED
  BY <1>1, <1>3 DEF Trees

\* Structural induction, with the statement as a set.
LEMMA TreeInduction ==
    ASSUME NEW P, Nil \in P,
           \A left, right \in Trees : \A value \in Value :
              left \in P /\ right \in P => Node(left, value, right) \in P
    PROVE  Trees \subseteq P
<1> DEFINE Q == {h \in Nat : Tree[h] \subseteq P}
<1>1. 0 \in Q
  BY TreeDef
<1>2. ASSUME NEW h \in Nat, h \in Q
      PROVE  h + 1 \in Q
  <2> SUFFICES ASSUME NEW t \in Tree[h + 1], t # Nil
               PROVE  t \in P
    OBVIOUS
  <2>1. h + 1 \in Nat /\ (h + 1) - 1 = h
    OBVIOUS
  <2>2. /\ t.left \in Tree[h] /\ t.right \in Tree[h] /\ t.value \in Value
        /\ t = Node(t.left, t.value, t.right)
    BY <2>1, PartsOfLevel
  <2>3. t.left \in P /\ t.right \in P
    BY <1>2, <2>2
  <2>4. t.left \in Trees /\ t.right \in Trees
    BY <2>2 DEF Trees
  <2> QED
    BY <2>2, <2>3, <2>4
<1>3. Nat \subseteq Q
  <2> HIDE DEF Q
  <2> QED
    BY <1>1, <1>2, SetOfNaturals
<1> QED
  BY <1>3 DEF Trees

\* A tree is no higher than it has nodes: the recursions reach all of it.
LEMMA TreeIsBelow ==
    ASSUME NEW t \in Trees
    PROVE  /\ t \in Below(t)
           /\ Below(t) \subseteq Trees
           /\ \A m \in Below(t) : m # Nil => m.left \in Below(t) /\ m.right \in Below(t)
<1> DEFINE P == {u \in Trees : u \in Tree[Size(u)]}
<1>1. Nil \in P
  BY NilProperties
<1>2. ASSUME NEW left \in Trees, NEW right \in Trees, NEW value \in Value,
             left \in P, right \in P
      PROVE  Node(left, value, right) \in P
  <2>1. Size(left) \in Nat /\ Size(right) \in Nat
    BY TreeProperties
  <2> DEFINE n == Size(left) + Size(right)
  <2>2. n \in Nat /\ Size(left) <= n /\ Size(right) <= n /\ n + 1 = 1 + Size(left) + Size(right)
    BY <2>1
  <2> HIDE DEF n
  <2>3. left \in Tree[n] /\ right \in Tree[n]
    BY <1>2, <2>1, <2>2, LevelsGrow
  <2>4. Node(left, value, right) \in Trees /\ Node(left, value, right) \in Tree[n + 1]
    BY <2>2, <2>3, NodeIsTree
  <2> QED
    BY <2>2, <2>4, NodeProperties
<1>3. Trees \subseteq P
  <2> HIDE DEF P
  <2> QED
    BY <1>1, <1>2, TreeInduction
<1>4. Size(t) \in Nat
  BY TreeProperties
<1>5. \A m \in Tree[Size(t)] : m # Nil => m.left \in Tree[Size(t)] /\ m.right \in Tree[Size(t)]
  BY <1>4, PartsOfLevel
<1> QED
  BY <1>3, <1>4, <1>5 DEF Below, Trees

-----------------------------------------------------------------------------
(* Recursion over trees                                                    *)

\* f is computed on the trees T from its values at subtrees.
Computes(f, T, C, base, step) ==
    /\ f \in [T -> C]
    /\ \A m \in T : f[m] = IF m = Nil THEN base ELSE step[<<m, f[m.left], f[m.right]>>]

\* Two computations of one recursion give a tree the same result.
LEMMA ComputationsAgree ==
    ASSUME NEW C, NEW base, NEW step,
           NEW S, NEW T,
           \A m \in S : m # Nil => m.left \in S /\ m.right \in S,
           \A m \in T : m # Nil => m.left \in T /\ m.right \in T,
           NEW f, Computes(f, S, C, base, step),
           NEW g, Computes(g, T, C, base, step)
    PROVE  \A m \in Trees : m \in S /\ m \in T => f[m] = g[m]
<1> DEFINE P == {m \in Trees : m \in S /\ m \in T => f[m] = g[m]}
<1>1. Nil \in P
  BY NilProperties DEF Computes
<1>2. ASSUME NEW left \in Trees, NEW right \in Trees, NEW value \in Value,
             left \in P, right \in P
      PROVE  Node(left, value, right) \in P
  <2> DEFINE m == Node(left, value, right)
  <2>1. m \in Trees /\ m # Nil /\ m.left = left /\ m.right = right
    BY NodeIsTree, NodeProperties
  <2> HIDE DEF m
  <2> SUFFICES ASSUME m \in S, m \in T PROVE f[m] = g[m]
    BY <2>1 DEF m
  <2>2. left \in S /\ right \in S /\ left \in T /\ right \in T
    BY <2>1
  <2>3. f[left] = g[left] /\ f[right] = g[right]
    BY <1>2, <2>2
  <2>4. /\ f[m] = step[<<m, f[left], f[right]>>]
        /\ g[m] = step[<<m, g[left], g[right]>>]
    BY <2>1 DEF Computes
  <2> QED
    BY <2>3, <2>4
<1>3. Trees \subseteq P
  <2> HIDE DEF P
  <2> QED
    BY <1>1, <1>2, TreeInduction
<1> QED
  BY <1>3

\* Every recursion over the subtrees has a result on all trees.
LEMMA TreeRecursion ==
    ASSUME NEW C, NEW base \in C, NEW step \in [(Trees \ {Nil}) \X C \X C -> C]
    PROVE  \E f : Computes(f, Trees, C, base, step)
<1> DEFINE P == {h \in Nat : \E f : Computes(f, Tree[h], C, base, step)}
<1>1. 0 \in P
  <2> DEFINE f == [m \in {Nil} |-> base]
  <2>1. Computes(f, {Nil}, C, base, step)
    BY DEF Computes
  <2> QED
    BY <2>1, TreeDef
<1>2. ASSUME NEW h \in Nat, h \in P
      PROVE  h + 1 \in P
  <2>1. PICK f : Computes(f, Tree[h], C, base, step)
    BY <1>2
  <2> DEFINE g == [m \in Tree[h + 1] |-> IF m = Nil THEN base ELSE step[<<m, f[m.left], f[m.right]>>]]
  <2>2. \A m \in Tree[h] : g[m] = f[m]
    <3>1. Tree[h] \subseteq Tree[h + 1]
      BY LevelsGrow
    <3> QED
      BY <2>1, <3>1 DEF Computes
  <2>3. ASSUME NEW m \in Tree[h + 1], m # Nil
        PROVE  m.left \in Tree[h] /\ m.right \in Tree[h] /\ m \in Trees
    <3>1. h + 1 \in Nat /\ (h + 1) - 1 = h
      OBVIOUS
    <3> QED
      BY <2>3, <3>1, PartsOfLevel DEF Trees
  <2>4. ASSUME NEW m \in Tree[h + 1]
        PROVE  g[m] \in C
    <3>1. CASE m = Nil
      BY <3>1
    <3>2. CASE m # Nil
      <4>1. f[m.left] \in C /\ f[m.right] \in C
        BY <2>1, <2>3, <3>2 DEF Computes
      <4>2. <<m, f[m.left], f[m.right]>> \in (Trees \ {Nil}) \X C \X C
        BY <2>3, <3>2, <4>1
      <4>3. g[m] = step[<<m, f[m.left], f[m.right]>>]
        BY <3>2
      <4> HIDE DEF g
      <4> QED
        BY <4>2, <4>3
    <3> QED
      BY <3>1, <3>2
  <2>5. g \in [Tree[h + 1] -> C]
    BY <2>4
  <2>6. ASSUME NEW m \in Tree[h + 1], m # Nil
        PROVE  g[m] = step[<<m, g[m.left], g[m.right]>>]
    <3>1. g[m.left] = f[m.left] /\ g[m.right] = f[m.right]
      BY <2>2, <2>3, <2>6
    <3>2. g[m] = step[<<m, f[m.left], f[m.right]>>]
      BY <2>6
    <3> HIDE DEF g
    <3> QED
      BY <3>1, <3>2
  <2>7. Computes(g, Tree[h + 1], C, base, step)
    <3>1. \A m \in Tree[h + 1] : m = Nil => g[m] = base
      OBVIOUS
    <3> HIDE DEF g
    <3> QED
      BY <2>5, <2>6, <3>1 DEF Computes
  <2> QED
    BY <2>7
<1>3. Nat \subseteq P
  <2> HIDE DEF P
  <2> QED
    BY <1>1, <1>2, SetOfNaturals
<1> DEFINE G(h) == CHOOSE f : Computes(f, Tree[h], C, base, step)
           F == [m \in Trees |-> G(Size(m))[m]]
<1>4. \A h \in Nat : Computes(G(h), Tree[h], C, base, step)
  BY <1>3
<1> HIDE DEF G
<1>5. ASSUME NEW h \in Nat, NEW m \in Tree[h]
      PROVE  F[m] = G(h)[m]
  <2>1. m \in Trees
    BY DEF Trees
  <2>2. Size(m) \in Nat /\ m \in Tree[Size(m)]
    BY <2>1, TreeProperties, TreeIsBelow DEF Below
  <2>3. \A i \in Nat : \A n \in Tree[i] : n # Nil => n.left \in Tree[i] /\ n.right \in Tree[i]
    BY PartsOfLevel
  <2>4. Computes(G(h), Tree[h], C, base, step) /\ Computes(G(Size(m)), Tree[Size(m)], C, base, step)
    BY <1>4, <2>2
  <2>5. \A n \in Trees : n \in Tree[h] /\ n \in Tree[Size(m)] => G(h)[n] = G(Size(m))[n]
    <3>1. /\ \A n \in Tree[h] : n # Nil => n.left \in Tree[h] /\ n.right \in Tree[h]
          /\ \A n \in Tree[Size(m)] :
                n # Nil => n.left \in Tree[Size(m)] /\ n.right \in Tree[Size(m)]
      BY <2>2, <2>3
    <3> HIDE DEF F
    <3> QED
      BY ONLY <2>4, <3>1, ComputationsAgree
  <2> QED
    BY <2>1, <2>2, <2>5
<1>6. ASSUME NEW m \in Trees
      PROVE  /\ F[m] \in C
             /\ F[m] = IF m = Nil THEN base ELSE step[<<m, F[m.left], F[m.right]>>]
  <2>1. PICK h \in Nat : m \in Tree[h]
    BY DEF Trees
  <2>2. F[m] = G(h)[m]
    BY <1>5, <2>1
  <2>3. m # Nil => F[m.left] = G(h)[m.left] /\ F[m.right] = G(h)[m.right]
    BY <1>5, <2>1, PartsOfLevel
  <2>4. /\ G(h)[m] \in C
        /\ G(h)[m] = IF m = Nil THEN base ELSE step[<<m, G(h)[m.left], G(h)[m.right]>>]
    BY <1>4, <2>1 DEF Computes
  <2> HIDE DEF F
  <2> QED
    BY <2>2, <2>3, <2>4
<1>7. Computes(F, Trees, C, base, step)
  <2>1. F \in [Trees -> C]
    BY <1>6
  <2> HIDE DEF F
  <2> QED
    BY <1>6, <2>1 DEF Computes
<1> QED
  BY <1>7

-----------------------------------------------------------------------------
(* The nodes of a tree                                                     *)

\* The nodes of a tree satisfy their definition.
LEMMA NodesDef ==
    /\ Nodes(Nil) = {}
    /\ \A t \in Trees : /\ Nodes(t) \subseteq Trees \ {Nil}
                        /\ t # Nil => Nodes(t) = {t} \cup Nodes(t.left) \cup Nodes(t.right)
<1> DEFINE C == SUBSET (Trees \ {Nil})
           D == (Trees \ {Nil}) \X C \X C
           step == [x \in D |-> {x[1]} \cup x[2] \cup x[3]]
<1>1. step \in [D -> C]
  OBVIOUS
<1>2. PICK F : Computes(F, Trees, C, {}, step)
  <2>1. {} \in C
    OBVIOUS
  <2> HIDE DEF C, step
  <2> QED
    BY <1>1, <2>1, TreeRecursion
<1>3. ASSUME NEW m \in Trees
      PROVE  F[m] \in C /\ F[m] = IF m = Nil THEN {} ELSE {m} \cup F[m.left] \cup F[m.right]
  <2>1. F[m] \in C /\ (m = Nil => F[m] = {})
    BY <1>2 DEF Computes
  <2>2. ASSUME m # Nil PROVE F[m] = {m} \cup F[m.left] \cup F[m.right]
    <3>1. m.left \in Trees /\ m.right \in Trees
      BY <2>2, TreeProperties
    <3>2. F[m.left] \in C /\ F[m.right] \in C
      BY <1>2, <3>1 DEF Computes
    <3>3. <<m, F[m.left], F[m.right]>> \in D
      BY <2>2, <3>2
    <3>4. F[m] = step[<<m, F[m.left], F[m.right]>>]
      BY <1>2, <2>2 DEF Computes
    <3> QED
      BY <3>3, <3>4
  <2> QED
    BY <2>1, <2>2
<1> HIDE DEF C
<1>4. ASSUME NEW t \in Trees
      PROVE  Nodes(t) = F[t]
  <2> DEFINE Body(f) == [m \in Below(t) |-> IF m = Nil THEN {} ELSE {m} \cup f[m.left] \cup f[m.right]]
             g == [m \in Below(t) |-> F[m]]
             h == CHOOSE f : f = Body(f)
             P == {m \in Trees : m \in Below(t) => h[m] = F[m]}
  <2>1. /\ t \in Below(t)
        /\ \A m \in Below(t) : m \in Trees
        /\ \A m \in Below(t) : m # Nil => m.left \in Below(t) /\ m.right \in Below(t)
    BY TreeIsBelow
  <2>2. g = Body(g)
    BY <1>3, <2>1
  <2>3. h = Body(h)
    <3> HIDE DEF g, Body
    <3> QED
      BY <2>2
  <2>4. \A m \in Below(t) : h[m] = IF m = Nil THEN {} ELSE {m} \cup h[m.left] \cup h[m.right]
    <3> HIDE DEF h
    <3> QED
      BY <2>3
  <2>5. Nodes(t) = h[t]
    BY DEF Nodes
  <2> HIDE DEF h
  <2>6. Nil \in P
    BY <1>3, <2>4, NilProperties
  <2>7. ASSUME NEW left \in Trees, NEW right \in Trees, NEW value \in Value,
               left \in P, right \in P
        PROVE  Node(left, value, right) \in P
    <3> DEFINE m == Node(left, value, right)
    <3>1. m \in Trees /\ m # Nil /\ m.left = left /\ m.right = right
      BY NodeIsTree, NodeProperties
    <3> HIDE DEF m
    <3>2. ASSUME m \in Below(t) PROVE h[m] = F[m]
      <4>1. h[left] = F[left] /\ h[right] = F[right]
        BY <2>1, <2>7, <3>1, <3>2
      <4>2. h[m] = {m} \cup h[left] \cup h[right]
        BY <2>4, <3>1, <3>2
      <4>3. F[m] = {m} \cup F[left] \cup F[right]
        BY <1>3, <3>1
      <4> QED
        BY <4>1, <4>2, <4>3
    <3> QED
      BY <3>1, <3>2 DEF m
  <2>8. Trees \subseteq P
    <3> HIDE DEF P
    <3> QED
      BY <2>6, <2>7, TreeInduction
  <2> QED
    BY <2>1, <2>5, <2>8
<1>5. Nodes(Nil) = {}
  BY <1>3, <1>4, NilProperties
<1>6. ASSUME NEW t \in Trees
      PROVE  /\ Nodes(t) \in C
             /\ t # Nil => Nodes(t) = {t} \cup Nodes(t.left) \cup Nodes(t.right)
  <2>1. t # Nil => t.left \in Trees /\ t.right \in Trees
    BY TreeProperties
  <2>2. t # Nil => F[t] = {t} \cup F[t.left] \cup F[t.right]
    BY <1>3
  <2>3. t # Nil => Nodes(t.left) = F[t.left] /\ Nodes(t.right) = F[t.right]
    BY <1>4, <2>1
  <2>4. Nodes(t) = F[t] /\ F[t] \in C
    BY <1>3, <1>4
  <2> QED
    BY <2>2, <2>3, <2>4
<1> QED
  BY <1>5, <1>6 DEF C

\* The nodes of a tree that was put together,
LEMMA NodesOfNode ==
    ASSUME NEW left \in Trees, NEW right \in Trees, NEW value \in Value
    PROVE  Nodes(Node(left, value, right)) = {Node(left, value, right)} \cup Nodes(left) \cup Nodes(right)
<1> DEFINE n == Node(left, value, right)
<1>1. n \in Trees /\ n # Nil /\ n.left = left /\ n.right = right
  BY NodeIsTree, NodeProperties
<1> HIDE DEF n
<1>2. Nodes(n) = {n} \cup Nodes(n.left) \cup Nodes(n.right)
  BY <1>1, NodesDef
<1> QED
  BY <1>1, <1>2 DEF n

\* its values and its keys,
LEMMA ContentOfNode ==
    ASSUME NEW left \in Trees, NEW right \in Trees, NEW value \in Value
    PROVE  /\ Values(Node(left, value, right)) = {value} \cup Values(left) \cup Values(right)
           /\ Keys(Node(left, value, right)) = {KeyOf(value)} \cup Keys(left) \cup Keys(right)
<1> DEFINE n == Node(left, value, right)
<1>1. n.value = value /\ Key(n) = KeyOf(value)
  BY NodeProperties
<1>2. Nodes(n) = {n} \cup Nodes(left) \cup Nodes(right)
  BY NodesOfNode
<1> HIDE DEF n
<1>3. Values(n) = {value} \cup Values(left) \cup Values(right)
  BY <1>1, <1>2 DEF Values
<1>4. Keys(n) = {KeyOf(value)} \cup Keys(left) \cup Keys(right)
  BY <1>1, <1>2 DEF Keys
<1> QED
  BY <1>3, <1>4 DEF n

\* and those of the empty tree.
LEMMA ContentOfNil == Values(Nil) = {} /\ Keys(Nil) = {}
BY NodesDef DEF Values, Keys

\* The values of a tree have its type, and its keys are theirs.
LEMMA ContentProperties ==
    ASSUME NEW t \in Trees
    PROVE  /\ Values(t) \subseteq Value
           /\ Keys(t) = {KeyOf(v) : v \in Values(t)}
<1>1. \A n \in Nodes(t) : n.value \in Value
  BY NodesDef, TreeProperties
<1> QED
  BY <1>1 DEF Values, Keys, Key

\* The order of a search tree.
Ordered(t) ==
    \A n \in Nodes(t) :
        /\ \A k \in Keys(n.left) : LessThan(k, Key(n))
        /\ \A k \in Keys(n.right) : LessThan(Key(n), k)

Balanced(t) == \A n \in Nodes(t) : IsInBalance(n)

\* A node is in order if its subtrees are, on the right sides of it.
LEMMA OrderedNode ==
    ASSUME NEW left \in Trees, NEW right \in Trees, NEW value \in Value
    PROVE  Ordered(Node(left, value, right)) <=>
             /\ Ordered(left) /\ Ordered(right)
             /\ \A k \in Keys(left) : LessThan(k, KeyOf(value))
             /\ \A k \in Keys(right) : LessThan(KeyOf(value), k)
<1> DEFINE n == Node(left, value, right)
<1>1. n.left = left /\ n.right = right /\ Key(n) = KeyOf(value)
  BY NodeProperties
<1>2. Nodes(n) = {n} \cup Nodes(left) \cup Nodes(right)
  BY NodesOfNode
<1> HIDE DEF n
<1>3. Ordered(n) <=> /\ Ordered(left) /\ Ordered(right)
                     /\ \A k \in Keys(n.left) : LessThan(k, Key(n))
                     /\ \A k \in Keys(n.right) : LessThan(Key(n), k)
  BY <1>2 DEF Ordered
<1> QED
  BY <1>1, <1>3 DEF n

\* A node is balanced if its subtrees are and it is in balance itself.
LEMMA BalancedNode ==
    ASSUME NEW left \in Trees, NEW right \in Trees, NEW value \in Value
    PROVE  Balanced(Node(left, value, right)) <=>
             /\ Balanced(left) /\ Balanced(right)
             /\ IsInBalance(Node(left, value, right))
BY NodesOfNode DEF Balanced

\* The empty tree is in order and balanced.
LEMMA NilIsOrdered == Ordered(Nil) /\ Balanced(Nil)
BY NodesDef DEF Ordered, Balanced

-----------------------------------------------------------------------------
(* Balance                                                                 *)

\* The balance of a node whose subtrees have a and b nodes.
Fits(a, b) ==
    LET total == 1 + a + 1 + b
    IN total <= 4 * (1 + a) /\ 4 * (1 + a) <= 3 * total

\* The balance of a node is that of the sizes below it.
LEMMA NodeInBalance ==
    ASSUME NEW left, NEW right, NEW value
    PROVE  IsInBalance(Node(left, value, right)) <=> Fits(Size(left), Size(right))
BY NodeProperties DEF IsInBalance, Fits, kRebalanceFactor

\* The sizes of subtrees of which one has got or lost a node.
OffByOne(a, b) ==
    \E c, d \in Nat :
        /\ Fits(c, d)
        /\ \/ b = d /\ a \in {c - 1, c, c + 1}
           \/ a = c /\ b \in {d - 1, d, d + 1}

\* Rotations, in sizes: of the heavy child with a and b nodes below, a on the
\* inner side, and c nodes on the other side.
LEMMA SingleRotationFits ==
    ASSUME NEW a \in Nat, NEW b \in Nat, NEW c \in Nat,
           Fits(a, b) \/ Fits(b, a)
    PROVE  /\ OffByOne(c, 1 + a + b) /\ ~Fits(c, 1 + a + b) /\ c < 1 + a + b
                /\ SingleIsEnough(1 + a, 1 + b)
                => Fits(c, a) /\ Fits(1 + c + a, b)
BY DEF Fits, OffByOne, SingleIsEnough, kRebalanceFactor

\* Where a single rotation does not restore the balance, a double one does.
LEMMA DoubleRotationFits ==
    ASSUME NEW a \in Nat, NEW b \in Nat, NEW c \in Nat, NEW d \in Nat,
           Fits(1 + a + d, b) \/ Fits(b, 1 + a + d), Fits(a, d) \/ Fits(d, a)
    PROVE  /\ OffByOne(c, 1 + (1 + a + d) + b) /\ ~Fits(c, 1 + (1 + a + d) + b) /\ c < 1 + (1 + a + d) + b
           /\ ~SingleIsEnough(1 + (1 + a + d), 1 + b)
           => Fits(c, a) /\ Fits(d, b) /\ Fits(1 + c + a, 1 + d + b)
BY DEF Fits, OffByOne, SingleIsEnough, kRebalanceFactor

\* The subtree that a double rotation takes apart is not empty.
LEMMA InnerIsNode ==
    ASSUME NEW a \in Nat, NEW b \in Nat, ~SingleIsEnough(1 + a, 1 + b)
    PROVE  a # 0
BY DEF SingleIsEnough, kRebalanceFactor

\* Balance does not tell left from right.
LEMMA FitsBothWays == \A a, b \in Nat : Fits(a, b) <=> Fits(b, a)
BY DEF Fits

\* A leaf is in balance.
LEMMA EmptyFits == Fits(0, 0)
BY DEF Fits

\* What the rotations make of nodes.
LEMMA RotatedNodes ==
    /\ \A l, v, a, x, b :
          /\ RotateLeft(Node(l, v, Node(a, x, b))) = Node(Node(l, v, a), x, b)
          /\ RotateRight(Node(Node(a, x, b), v, l)) = Node(a, x, Node(b, v, l))
    /\ \A l, v, a, x, d, y, b :
          /\ RotateRightLeft(Node(l, v, Node(Node(a, x, d), y, b))) =
               Node(Node(l, v, a), x, Node(d, y, b))
          /\ RotateLeftRight(Node(Node(b, y, Node(d, x, a)), v, l)) =
               Node(Node(b, y, d), x, Node(a, v, l))
<1>1. \A l, v, a, x, b :
          /\ RotateLeft(Node(l, v, Node(a, x, b))) = Node(Node(l, v, a), x, b)
          /\ RotateRight(Node(Node(a, x, b), v, l)) = Node(a, x, Node(b, v, l))
  BY NodeProperties DEF RotateLeft, RotateRight
<1>2. \A l, v, a, x, d, y, b :
          /\ RotateRightLeft(Node(l, v, Node(Node(a, x, d), y, b))) =
               RotateLeft(Node(l, v, Node(a, x, Node(d, y, b))))
          /\ RotateLeftRight(Node(Node(b, y, Node(d, x, a)), v, l)) =
               RotateRight(Node(Node(Node(b, y, d), x, a), v, l))
  BY <1>1, NodeProperties DEF RotateRightLeft, RotateLeftRight
<1> QED
  BY <1>1, <1>2

\* The order of keys, which makes a tree a set.
Ordering ==
    /\ \A v \in Value : KeyOf(v) \in KeyType
    /\ \A k \in KeyType : ~LessThan(k, k)
    /\ \A j, k, l \in KeyType : LessThan(j, k) /\ LessThan(k, l) => LessThan(j, l)
    /\ \A j, k \in KeyType : j # k => LessThan(j, k) \/ LessThan(k, j)

\* A tree with the nodes of another one, in the same order.
Rearranges(m, n) ==
    /\ m \in Trees
    /\ Size(m) = Size(n)
    /\ Values(m) = Values(n)
    /\ Keys(m) = Keys(n)
    /\ Ordered(m) <=> Ordered(n)

\* The keys of a tree are keys.
LEMMA KeysAreTyped ==
    ASSUME Ordering, NEW t \in Trees
    PROVE  Keys(t) \subseteq KeyType
BY ContentProperties DEF Ordering

\* A rotation keeps the values and the order.
LEMMA RotationRearranges ==
    ASSUME Ordering,
           NEW a \in Trees, NEW b \in Trees, NEW c \in Trees, NEW v \in Value, NEW w \in Value
    PROVE  Rearranges(Node(Node(a, v, b), w, c), Node(a, v, Node(b, w, c)))
<1> DEFINE ab == Node(a, v, b)
           bc == Node(b, w, c)
           m == Node(ab, w, c)
           n == Node(a, v, bc)
<1>1. ab \in Trees /\ bc \in Trees /\ m \in Trees /\ n \in Trees
  BY NodeIsTree
<1>2. Size(m) = Size(n)
  <2>1. Size(a) \in Nat /\ Size(b) \in Nat /\ Size(c) \in Nat
    BY TreeProperties
  <2>2. /\ Size(m) = 1 + (1 + Size(a) + Size(b)) + Size(c)
        /\ Size(n) = 1 + Size(a) + (1 + Size(b) + Size(c))
    BY NodeProperties
  <2> HIDE DEF m, n
  <2> QED
    BY <2>1, <2>2
<1>3. /\ Values(ab) = {v} \cup Values(a) \cup Values(b)
      /\ Keys(ab) = {KeyOf(v)} \cup Keys(a) \cup Keys(b)
      /\ Values(bc) = {w} \cup Values(b) \cup Values(c)
      /\ Keys(bc) = {KeyOf(w)} \cup Keys(b) \cup Keys(c)
  BY ContentOfNode
<1>4. /\ Values(m) = {w} \cup Values(ab) \cup Values(c)
      /\ Keys(m) = {KeyOf(w)} \cup Keys(ab) \cup Keys(c)
      /\ Values(n) = {v} \cup Values(a) \cup Values(bc)
      /\ Keys(n) = {KeyOf(v)} \cup Keys(a) \cup Keys(bc)
  <2> HIDE DEF ab, bc
  <2> QED
    BY <1>1, ContentOfNode
<1>5. Values(m) = Values(n) /\ Keys(m) = Keys(n)
  <2> HIDE DEF ab, bc, m, n
  <2> QED
    BY <1>3, <1>4
<1>6. /\ Ordered(ab) <=> /\ Ordered(a) /\ Ordered(b)
                         /\ \A k \in Keys(a) : LessThan(k, KeyOf(v))
                         /\ \A k \in Keys(b) : LessThan(KeyOf(v), k)
      /\ Ordered(bc) <=> /\ Ordered(b) /\ Ordered(c)
                         /\ \A k \in Keys(b) : LessThan(k, KeyOf(w))
                         /\ \A k \in Keys(c) : LessThan(KeyOf(w), k)
  BY OrderedNode
<1>7. /\ Ordered(m) <=> /\ Ordered(ab) /\ Ordered(c)
                        /\ \A k \in Keys(ab) : LessThan(k, KeyOf(w))
                        /\ \A k \in Keys(c) : LessThan(KeyOf(w), k)
      /\ Ordered(n) <=> /\ Ordered(a) /\ Ordered(bc)
                        /\ \A k \in Keys(a) : LessThan(k, KeyOf(v))
                        /\ \A k \in Keys(bc) : LessThan(KeyOf(v), k)
  <2> HIDE DEF ab, bc
  <2> QED
    BY <1>1, OrderedNode
<1>8. /\ Keys(a) \subseteq KeyType /\ Keys(b) \subseteq KeyType /\ Keys(c) \subseteq KeyType
      /\ KeyOf(v) \in KeyType /\ KeyOf(w) \in KeyType
  BY KeysAreTyped DEF Ordering
<1> HIDE DEF ab, bc, m, n
<1>9. Ordered(m) <=> Ordered(n)
  <2>1. ASSUME Ordered(m) PROVE Ordered(n)
    <3>1. LessThan(KeyOf(v), KeyOf(w))
      BY <1>3, <1>7, <2>1
    <3>2. \A k \in Keys(bc) : LessThan(KeyOf(v), k)
      BY <1>3, <1>6, <1>7, <1>8, <2>1, <3>1 DEF Ordering
    <3>3. Ordered(bc)
      BY <1>3, <1>6, <1>7, <2>1
    <3> QED
      BY <1>6, <1>7, <2>1, <3>2, <3>3
  <2>2. ASSUME Ordered(n) PROVE Ordered(m)
    <3>1. LessThan(KeyOf(v), KeyOf(w))
      BY <1>3, <1>7, <2>2
    <3>2. \A k \in Keys(ab) : LessThan(k, KeyOf(w))
      BY <1>3, <1>6, <1>7, <1>8, <2>2, <3>1 DEF Ordering
    <3>3. Ordered(ab)
      BY <1>3, <1>6, <1>7, <2>2
    <3> QED
      BY <1>6, <1>7, <2>2, <3>2, <3>3
  <2> QED
    BY <2>1, <2>2
<1>10. Rearranges(m, n)
  BY <1>1, <1>2, <1>5, <1>9 DEF Rearranges
<1> QED
  BY <1>10 DEF m, n, ab, bc

\* So it does below a node,
LEMMA RearrangesInNode ==
    ASSUME NEW a \in Trees, NEW b \in Trees, NEW c \in Trees, NEW v \in Value, Rearranges(a, b)
    PROVE  /\ Rearranges(Node(a, v, c), Node(b, v, c))
           /\ Rearranges(Node(c, v, a), Node(c, v, b))
<1>1. Size(a) = Size(b) /\ Values(a) = Values(b) /\ Keys(a) = Keys(b) /\ (Ordered(a) <=> Ordered(b))
  BY DEF Rearranges
<1>2. Rearranges(Node(a, v, c), Node(b, v, c))
  <2> DEFINE m == Node(a, v, c)
             n == Node(b, v, c)
  <2>1. m \in Trees /\ Size(m) = 1 + Size(a) + Size(c) /\ Size(n) = 1 + Size(b) + Size(c)
    BY NodeIsTree, NodeProperties
  <2>2. /\ Values(m) = {v} \cup Values(a) \cup Values(c) /\ Keys(m) = {KeyOf(v)} \cup Keys(a) \cup Keys(c)
        /\ Values(n) = {v} \cup Values(b) \cup Values(c) /\ Keys(n) = {KeyOf(v)} \cup Keys(b) \cup Keys(c)
    BY ContentOfNode
  <2>3. Ordered(m) <=> Ordered(n)
    BY <1>1, OrderedNode
  <2> HIDE DEF m, n
  <2> QED
    BY <1>1, <2>1, <2>2, <2>3 DEF Rearranges, m, n
<1>3. Rearranges(Node(c, v, a), Node(c, v, b))
  <2> DEFINE m == Node(c, v, a)
             n == Node(c, v, b)
  <2>1. m \in Trees /\ Size(m) = 1 + Size(c) + Size(a) /\ Size(n) = 1 + Size(c) + Size(b)
    BY NodeIsTree, NodeProperties
  <2>2. /\ Values(m) = {v} \cup Values(c) \cup Values(a) /\ Keys(m) = {KeyOf(v)} \cup Keys(c) \cup Keys(a)
        /\ Values(n) = {v} \cup Values(c) \cup Values(b) /\ Keys(n) = {KeyOf(v)} \cup Keys(c) \cup Keys(b)
    BY ContentOfNode
  <2>3. Ordered(m) <=> Ordered(n)
    BY <1>1, OrderedNode
  <2> HIDE DEF m, n
  <2> QED
    BY <1>1, <2>1, <2>2, <2>3 DEF Rearranges, m, n
<1> QED
  BY <1>2, <1>3

\* and one after the other.
LEMMA RearrangesIsEquivalence ==
    /\ \A a \in Trees : Rearranges(a, a)
    /\ \A a, b \in Trees : Rearranges(a, b) => Rearranges(b, a)
    /\ \A a, b, c \in Trees : Rearranges(a, b) /\ Rearranges(b, c) => Rearranges(a, c)
BY DEF Rearranges

\* What MaybeRebalance(Node(l, v, r)) does.
KeepsNode(l, v, r, m) == Fits(Size(l), Size(r)) /\ m = Node(l, v, r)

TurnsLeft(l, v, r, m) ==
    \E a, b \in Trees : \E x \in Value :
        /\ ~Fits(Size(l), Size(r)) /\ Size(l) < Size(r)
        /\ SingleIsEnough(1 + Size(a), 1 + Size(b))
        /\ r = Node(a, x, b)
        /\ m = Node(Node(l, v, a), x, b)

TurnsRight(l, v, r, m) ==
    \E a, b \in Trees : \E x \in Value :
        /\ ~Fits(Size(l), Size(r)) /\ Size(r) < Size(l)
        /\ SingleIsEnough(1 + Size(a), 1 + Size(b))
        /\ l = Node(b, x, a)
        /\ m = Node(b, x, Node(a, v, r))

TurnsRightLeft(l, v, r, m) ==
    \E a, d, b \in Trees : \E x, y \in Value :
        /\ ~Fits(Size(l), Size(r)) /\ Size(l) < Size(r)
        /\ ~SingleIsEnough(1 + (1 + Size(a) + Size(d)), 1 + Size(b))
        /\ r = Node(Node(a, x, d), y, b)
        /\ m = Node(Node(l, v, a), x, Node(d, y, b))

TurnsLeftRight(l, v, r, m) ==
    \E a, d, b \in Trees : \E x, y \in Value :
        /\ ~Fits(Size(l), Size(r)) /\ Size(r) < Size(l)
        /\ ~SingleIsEnough(1 + (1 + Size(a) + Size(d)), 1 + Size(b))
        /\ l = Node(b, y, Node(d, x, a))
        /\ m = Node(Node(b, y, d), x, Node(a, v, r))

\* MaybeRebalance keeps a node or turns it in one of four ways.
LEMMA RebalanceCases ==
    ASSUME NEW l \in Trees, NEW r \in Trees, NEW v \in Value
    PROVE  LET m == MaybeRebalance(Node(l, v, r))
           IN  \/ KeepsNode(l, v, r, m)
               \/ TurnsLeft(l, v, r, m) \/ TurnsRight(l, v, r, m)
               \/ TurnsRightLeft(l, v, r, m) \/ TurnsLeftRight(l, v, r, m)
<1> DEFINE n == Node(l, v, r)
           m == MaybeRebalance(n)
<1> SUFFICES \/ KeepsNode(l, v, r, m)
             \/ TurnsLeft(l, v, r, m) \/ TurnsRight(l, v, r, m)
             \/ TurnsRightLeft(l, v, r, m) \/ TurnsLeftRight(l, v, r, m)
  OBVIOUS
<1>1. n.left = l /\ n.right = r /\ (IsInBalance(n) <=> Fits(Size(l), Size(r)))
  BY NodeProperties, NodeInBalance
<1>2. Size(l) \in Nat /\ Size(r) \in Nat
  BY TreeProperties
<1>3. CASE Fits(Size(l), Size(r))
  <2>1. m = n
    <3> HIDE DEF n
    <3> QED
      BY <1>1, <1>2, <1>3 DEF MaybeRebalance
  <2> QED
    BY <1>3, <2>1 DEF KeepsNode
<1>4. CASE ~Fits(Size(l), Size(r)) /\ Size(l) < Size(r)
  <2>1. r # Nil
    BY <1>2, <1>4, NilProperties
  <2>2. PICK a \in Trees, b \in Trees, y \in Value : r = Node(a, y, b)
    BY <2>1, TreeProperties
  <2>3. r.left = a /\ r.right = b
    BY <2>2, NodeProperties
  <2>4. m = IF SingleIsEnough(1 + Size(a), 1 + Size(b)) THEN RotateLeft(n) ELSE RotateRightLeft(n)
    <3>1. ~(Size(l) >= Size(r))
      BY <1>2, <1>4
    <3> HIDE DEF n
    <3> QED
      BY <1>1, <1>4, <2>3, <3>1 DEF MaybeRebalance
  <2>5. CASE SingleIsEnough(1 + Size(a), 1 + Size(b))
    <3>1. m = Node(Node(l, v, a), y, b)
      BY <2>2, <2>4, <2>5, RotatedNodes
    <3> QED
      BY <1>4, <2>2, <2>5, <3>1 DEF TurnsLeft
  <2>6. CASE ~SingleIsEnough(1 + Size(a), 1 + Size(b))
    <3>1. a # Nil
      BY <2>6, TreeProperties, InnerIsNode, NilProperties
    <3>2. PICK c \in Trees, d \in Trees, x \in Value : a = Node(c, x, d) /\ Size(a) = 1 + Size(c) + Size(d)
      BY <3>1, TreeProperties
    <3>3. m = Node(Node(l, v, c), x, Node(d, y, b))
      BY <2>2, <2>4, <2>6, <3>2, RotatedNodes
    <3>4. ~SingleIsEnough(1 + (1 + Size(c) + Size(d)), 1 + Size(b))
      BY <2>6, <3>2
    <3>5. r = Node(Node(c, x, d), y, b)
      BY <2>2, <3>2
    <3> HIDE DEF m
    <3> QED
      BY <1>4, <3>3, <3>4, <3>5 DEF TurnsRightLeft
  <2> QED
    BY <2>5, <2>6
<1>5. CASE ~Fits(Size(l), Size(r)) /\ Size(l) >= Size(r)
  <2>1. l # Nil
    BY <1>2, <1>5, NilProperties, EmptyFits
  <2>2. PICK b \in Trees, a \in Trees, y \in Value : l = Node(b, y, a)
    BY <2>1, TreeProperties
  <2>3. l.left = b /\ l.right = a
    BY <2>2, NodeProperties
  <2>4. m = IF SingleIsEnough(1 + Size(a), 1 + Size(b)) THEN RotateRight(n) ELSE RotateLeftRight(n)
    <3>1. ~(Size(l) < Size(r))
      BY <1>2, <1>5
    <3> HIDE DEF n
    <3> QED
      BY <1>1, <1>5, <2>3, <3>1 DEF MaybeRebalance
  <2>5. Size(r) < Size(l)
    <3>1. \A i \in Nat : Fits(i, i)
      BY DEF Fits
    <3> QED
      BY <1>2, <1>5, <3>1
  <2>6. CASE SingleIsEnough(1 + Size(a), 1 + Size(b))
    <3>1. m = Node(b, y, Node(a, v, r))
      BY <2>2, <2>4, <2>6, RotatedNodes
    <3> QED
      BY <1>5, <2>2, <2>5, <2>6, <3>1 DEF TurnsRight
  <2>7. CASE ~SingleIsEnough(1 + Size(a), 1 + Size(b))
    <3>1. a # Nil
      BY <2>7, TreeProperties, InnerIsNode, NilProperties
    <3>2. PICK d \in Trees, c \in Trees, x \in Value : a = Node(d, x, c) /\ Size(a) = 1 + Size(d) + Size(c)
      BY <3>1, TreeProperties
    <3>3. m = Node(Node(b, y, d), x, Node(c, v, r))
      BY <2>2, <2>4, <2>7, <3>2, RotatedNodes
    <3>4. ~SingleIsEnough(1 + (1 + Size(c) + Size(d)), 1 + Size(b))
      <4>1. Size(c) \in Nat /\ Size(d) \in Nat
        BY TreeProperties
      <4>2. 1 + (1 + Size(c) + Size(d)) = 1 + Size(a)
        BY <3>2, <4>1
      <4> QED
        BY <2>7, <4>2
    <3>5. l = Node(b, y, Node(d, x, c))
      BY <2>2, <3>2
    <3> HIDE DEF m
    <3> QED
      BY <1>5, <2>5, <3>3, <3>4, <3>5 DEF TurnsLeftRight
  <2> QED
    BY <2>6, <2>7
<1> QED
  BY <1>2, <1>3, <1>4, <1>5

\* Rotations change neither what is in a tree nor its order.
LEMMA RebalanceRearranges ==
    ASSUME Ordering, NEW l \in Trees, NEW r \in Trees, NEW v \in Value
    PROVE  Rearranges(MaybeRebalance(Node(l, v, r)), Node(l, v, r))
<1> DEFINE n == Node(l, v, r)
           m == MaybeRebalance(n)
<1>1. n \in Trees
  BY NodeIsTree
<1>2. \/ KeepsNode(l, v, r, m)
      \/ TurnsLeft(l, v, r, m) \/ TurnsRight(l, v, r, m)
      \/ TurnsRightLeft(l, v, r, m) \/ TurnsLeftRight(l, v, r, m)
  BY RebalanceCases
<1> HIDE DEF m
<1>3. CASE KeepsNode(l, v, r, m)
  BY <1>1, <1>3, RearrangesIsEquivalence DEF KeepsNode, m
<1>4. CASE TurnsLeft(l, v, r, m)
  <2>1. PICK a \in Trees, b \in Trees, x \in Value : r = Node(a, x, b) /\ m = Node(Node(l, v, a), x, b)
    BY <1>4 DEF TurnsLeft
  <2> QED
    BY <2>1, RotationRearranges DEF m
<1>5. CASE TurnsRight(l, v, r, m)
  <2>1. PICK a \in Trees, b \in Trees, x \in Value : l = Node(b, x, a) /\ m = Node(b, x, Node(a, v, r))
    BY <1>5 DEF TurnsRight
  <2>2. Rearranges(n, m) /\ m \in Trees
    BY <2>1, RotationRearranges, NodeIsTree
  <2> QED
    BY <1>1, <2>2, RearrangesIsEquivalence DEF m
<1>6. CASE TurnsRightLeft(l, v, r, m)
  <2>1. PICK a \in Trees, d \in Trees, b \in Trees, x \in Value, y \in Value :
           /\ r = Node(Node(a, x, d), y, b)
           /\ m = Node(Node(l, v, a), x, Node(d, y, b))
    BY <1>6 DEF TurnsRightLeft
  <2> DEFINE s == Node(a, x, Node(d, y, b))
             t == Node(l, v, s)
  <2>2. Node(d, y, b) \in Trees /\ s \in Trees /\ t \in Trees /\ m \in Trees
    BY <2>1, NodeIsTree
  <2>3. Rearranges(r, s)
    BY <2>1, RotationRearranges
  <2>4. Rearranges(n, t)
    BY <2>2, <2>3, RearrangesInNode
  <2>5. Rearranges(m, t)
    BY <2>1, <2>2, RotationRearranges
  <2> HIDE DEF t, n
  <2> QED
    BY <1>1, <2>2, <2>4, <2>5, RearrangesIsEquivalence DEF m, n
<1>7. CASE TurnsLeftRight(l, v, r, m)
  <2>1. PICK a \in Trees, d \in Trees, b \in Trees, x \in Value, y \in Value :
           /\ l = Node(b, y, Node(d, x, a))
           /\ m = Node(Node(b, y, d), x, Node(a, v, r))
    BY <1>7 DEF TurnsLeftRight
  <2> DEFINE s == Node(Node(b, y, d), x, a)
             t == Node(s, v, r)
  <2>2. Node(b, y, d) \in Trees /\ s \in Trees /\ t \in Trees /\ m \in Trees
    BY <2>1, NodeIsTree
  <2>3. Rearranges(l, s)
    BY <2>1, <2>2, RotationRearranges, RearrangesIsEquivalence
  <2>4. Rearranges(n, t)
    BY <2>2, <2>3, RearrangesInNode
  <2>5. Rearranges(t, m)
    BY <2>1, <2>2, RotationRearranges
  <2> HIDE DEF t, n
  <2> QED
    BY <1>1, <2>2, <2>4, <2>5, RearrangesIsEquivalence DEF m, n
<1> QED
  BY <1>2, <1>3, <1>4, <1>5, <1>6, <1>7 DEF m

\* One rotation or two restore the balance after one insertion or deletion, at
\* the three nodes they touch.
LEMMA RebalanceRestores ==
    ASSUME NEW l \in Trees, NEW r \in Trees, NEW v \in Value,
           Balanced(l), Balanced(r), OffByOne(Size(l), Size(r))
    PROVE  Balanced(MaybeRebalance(Node(l, v, r)))
<1> DEFINE m == MaybeRebalance(Node(l, v, r))
<1>1. \/ KeepsNode(l, v, r, m)
      \/ TurnsLeft(l, v, r, m) \/ TurnsRight(l, v, r, m)
      \/ TurnsRightLeft(l, v, r, m) \/ TurnsLeftRight(l, v, r, m)
  BY RebalanceCases
<1> SUFFICES Balanced(m)
  OBVIOUS
<1> HIDE DEF m
<1>2. \A a, b \in Trees : \A x \in Value :
         /\ Balanced(Node(a, x, b)) <=> Balanced(a) /\ Balanced(b) /\ Fits(Size(a), Size(b))
         /\ Size(Node(a, x, b)) = 1 + Size(a) + Size(b)
         /\ Node(a, x, b) \in Trees
  <2> SUFFICES ASSUME NEW a \in Trees, NEW b \in Trees, NEW x \in Value
               PROVE  /\ Balanced(Node(a, x, b)) <=>
                           Balanced(a) /\ Balanced(b) /\ Fits(Size(a), Size(b))
                      /\ Size(Node(a, x, b)) = 1 + Size(a) + Size(b)
                      /\ Node(a, x, b) \in Trees
    OBVIOUS
  <2>1. Balanced(Node(a, x, b)) <=>
          Balanced(a) /\ Balanced(b) /\ IsInBalance(Node(a, x, b))
    BY BalancedNode
  <2>2. IsInBalance(Node(a, x, b)) <=> Fits(Size(a), Size(b))
    BY NodeInBalance
  <2>3. Size(Node(a, x, b)) = 1 + Size(a) + Size(b)
    BY NodeProperties
  <2>4. Node(a, x, b) \in Trees
    BY NodeIsTree
  <2> QED
    BY <2>1, <2>2, <2>3, <2>4
<1>3. \A a \in Trees : Size(a) \in Nat
  BY TreeProperties
<1>4. OffByOne(Size(r), Size(l))
  <2>1. Size(l) \in Nat /\ Size(r) \in Nat
    BY <1>3
  <2> QED
    BY <2>1, FitsBothWays DEF OffByOne
<1>5. CASE KeepsNode(l, v, r, m)
  BY <1>2, <1>5 DEF KeepsNode
<1>6. CASE TurnsLeft(l, v, r, m)
  <2>1. PICK a \in Trees, b \in Trees, x \in Value :
          /\ ~Fits(Size(l), Size(r)) /\ Size(l) < Size(r)
          /\ SingleIsEnough(1 + Size(a), 1 + Size(b))
          /\ r = Node(a, x, b) /\ m = Node(Node(l, v, a), x, b)
    BY <1>6 DEF TurnsLeft
  <2>2. Balanced(a) /\ Balanced(b) /\ Fits(Size(a), Size(b)) /\ Size(r) = 1 + Size(a) + Size(b)
    BY <1>2, <2>1
  <2>3. Fits(Size(l), Size(a)) /\ Fits(1 + Size(l) + Size(a), Size(b))
    <3>1. OffByOne(Size(l), 1 + Size(a) + Size(b)) /\ ~Fits(Size(l), 1 + Size(a) + Size(b))
          /\ Size(l) < 1 + Size(a) + Size(b)
      BY <2>1, <2>2
    <3> QED
      BY <1>3, <2>1, <2>2, <3>1, SingleRotationFits
  <2>4. Balanced(Node(l, v, a)) /\ Size(Node(l, v, a)) = 1 + Size(l) + Size(a) /\ Node(l, v, a) \in Trees
    BY <1>2, <2>2, <2>3
  <2> QED
    BY <1>2, <2>1, <2>2, <2>3, <2>4
<1>7. CASE TurnsRight(l, v, r, m)
  <2>1. PICK a \in Trees, b \in Trees, x \in Value :
          /\ ~Fits(Size(l), Size(r)) /\ Size(r) < Size(l)
          /\ SingleIsEnough(1 + Size(a), 1 + Size(b))
          /\ l = Node(b, x, a) /\ m = Node(b, x, Node(a, v, r))
    BY <1>7 DEF TurnsRight
  <2>2. Balanced(a) /\ Balanced(b) /\ Fits(Size(b), Size(a)) /\ Size(l) = 1 + Size(a) + Size(b)
    BY <1>2, <1>3, <2>1
  <2>3. Fits(Size(r), Size(a)) /\ Fits(1 + Size(r) + Size(a), Size(b))
    <3>1. ~Fits(Size(r), Size(l))
      BY <1>3, <2>1, FitsBothWays
    <3>2. OffByOne(Size(r), 1 + Size(a) + Size(b)) /\ ~Fits(Size(r), 1 + Size(a) + Size(b))
          /\ Size(r) < 1 + Size(a) + Size(b)
      BY <1>4, <2>1, <2>2, <3>1
    <3> QED
      BY <1>3, <2>1, <2>2, <3>2, SingleRotationFits
  <2>4. Fits(Size(a), Size(r)) /\ Fits(Size(b), 1 + Size(a) + Size(r))
    <3>1. Size(a) \in Nat /\ Size(r) \in Nat /\ Size(b) \in Nat
      BY <1>3
    <3>2. 1 + Size(r) + Size(a) \in Nat /\ 1 + Size(r) + Size(a) = 1 + Size(a) + Size(r)
      BY <3>1
    <3> QED
      BY <2>3, <3>1, <3>2, FitsBothWays
  <2>5. Balanced(Node(a, v, r)) /\ Size(Node(a, v, r)) = 1 + Size(a) + Size(r) /\ Node(a, v, r) \in Trees
    BY <1>2, <2>2, <2>4
  <2> QED
    BY <1>2, <2>1, <2>2, <2>4, <2>5
<1>8. CASE TurnsRightLeft(l, v, r, m)
  <2>1. PICK a \in Trees, d \in Trees, b \in Trees, x \in Value, y \in Value :
           /\ ~Fits(Size(l), Size(r)) /\ Size(l) < Size(r)
           /\ ~SingleIsEnough(1 + (1 + Size(a) + Size(d)), 1 + Size(b))
           /\ r = Node(Node(a, x, d), y, b)
           /\ m = Node(Node(l, v, a), x, Node(d, y, b))
    BY <1>8 DEF TurnsRightLeft
  <2> DEFINE c == Node(a, x, d)
  <2>2. c \in Trees /\ Size(c) = 1 + Size(a) + Size(d)
    BY <1>2
  <2>3. Balanced(c) /\ Balanced(b) /\ Fits(Size(c), Size(b)) /\ Size(r) = 1 + Size(c) + Size(b)
    <3> HIDE DEF c
    <3>1. r = Node(c, y, b)
      BY <2>1 DEF c
    <3> QED
      BY <1>2, <2>2, <3>1
  <2>4. Balanced(a) /\ Balanced(d) /\ Fits(Size(a), Size(d))
    BY <1>2, <2>3
  <2> HIDE DEF c
  <2>5. /\ Fits(Size(l), Size(a)) /\ Fits(Size(d), Size(b))
        /\ Fits(1 + Size(l) + Size(a), 1 + Size(d) + Size(b))
    <3>1. /\ OffByOne(Size(l), 1 + (1 + Size(a) + Size(d)) + Size(b))
          /\ ~Fits(Size(l), 1 + (1 + Size(a) + Size(d)) + Size(b))
          /\ Size(l) < 1 + (1 + Size(a) + Size(d)) + Size(b)
          /\ Fits(1 + Size(a) + Size(d), Size(b))
      BY <2>1, <2>2, <2>3
    <3> QED
      BY <1>3, <2>1, <2>4, <3>1, DoubleRotationFits
  <2>6. /\ Balanced(Node(l, v, a)) /\ Size(Node(l, v, a)) = 1 + Size(l) + Size(a) /\ Node(l, v, a) \in Trees
        /\ Balanced(Node(d, y, b)) /\ Size(Node(d, y, b)) = 1 + Size(d) + Size(b) /\ Node(d, y, b) \in Trees
    BY <1>2, <2>3, <2>4, <2>5
  <2> QED
    BY <1>2, <2>1, <2>5, <2>6
<1>9. CASE TurnsLeftRight(l, v, r, m)
  <2>1. PICK a \in Trees, d \in Trees, b \in Trees, x \in Value, y \in Value :
           /\ ~Fits(Size(l), Size(r)) /\ Size(r) < Size(l)
           /\ ~SingleIsEnough(1 + (1 + Size(a) + Size(d)), 1 + Size(b))
           /\ l = Node(b, y, Node(d, x, a))
           /\ m = Node(Node(b, y, d), x, Node(a, v, r))
    BY <1>9 DEF TurnsLeftRight
  <2> DEFINE c == Node(d, x, a)
  <2>2. c \in Trees /\ Size(c) = 1 + Size(a) + Size(d)
    BY <1>2, <1>3
  <2>3. Balanced(c) /\ Balanced(b) /\ Fits(Size(b), Size(c)) /\ Size(l) = 1 + Size(c) + Size(b)
    <3> HIDE DEF c
    <3>1. l = Node(b, y, c)
      BY <2>1 DEF c
    <3> QED
      BY <1>2, <1>3, <2>2, <3>1
  <2>4. Balanced(a) /\ Balanced(d) /\ Fits(Size(d), Size(a))
    BY <1>2, <2>3
  <2> HIDE DEF c
  <2>5. /\ Fits(Size(r), Size(a)) /\ Fits(Size(d), Size(b))
        /\ Fits(1 + Size(r) + Size(a), 1 + Size(d) + Size(b))
    <3>1. ~Fits(Size(r), Size(l))
      BY <1>3, <2>1, FitsBothWays
    <3>2. /\ OffByOne(Size(r), 1 + (1 + Size(a) + Size(d)) + Size(b))
          /\ ~Fits(Size(r), 1 + (1 + Size(a) + Size(d)) + Size(b))
          /\ Size(r) < 1 + (1 + Size(a) + Size(d)) + Size(b)
          /\ Fits(Size(b), 1 + Size(a) + Size(d))
      BY <1>4, <2>1, <2>2, <2>3, <3>1
    <3> QED
      BY <1>3, <2>1, <2>4, <3>2, DoubleRotationFits
  <2>6. /\ Fits(Size(a), Size(r)) /\ Fits(Size(b), Size(d))
        /\ Fits(1 + Size(b) + Size(d), 1 + Size(a) + Size(r))
    <3>1. Size(a) \in Nat /\ Size(r) \in Nat /\ Size(b) \in Nat /\ Size(d) \in Nat
      BY <1>3
    <3> QED
      BY <2>5, <3>1 DEF Fits
  <2>7. /\ Balanced(Node(a, v, r)) /\ Size(Node(a, v, r)) = 1 + Size(a) + Size(r) /\ Node(a, v, r) \in Trees
        /\ Balanced(Node(b, y, d)) /\ Size(Node(b, y, d)) = 1 + Size(b) + Size(d) /\ Node(b, y, d) \in Trees
    BY <1>2, <2>3, <2>4, <2>6
  <2> QED
    BY <1>2, <2>1, <2>6, <2>7
<1> QED
  BY <1>1, <1>5, <1>6, <1>7, <1>8, <1>9

-----------------------------------------------------------------------------
(* The recursive functions                                                 *)

\* A function that is computed like F on the subtrees of t agrees with it.
LEMMA SameBelow ==
    ASSUME NEW t \in Trees, t # Nil, NEW F, NEW h,
           \A m \in Below(t) :
              /\ m \in Trees /\ m # Nil
              /\ m.left # Nil => h[m.left] = F[m.left]
              /\ m.right # Nil => h[m.right] = F[m.right]
              => h[m] = F[m]
    PROVE  h[t] = F[t]
<1> DEFINE P == {m \in Trees : m \in Below(t) /\ m # Nil => h[m] = F[m]}
<1>1. Nil \in P
  BY NilProperties
<1>2. ASSUME NEW left \in Trees, NEW right \in Trees, NEW value \in Value,
             left \in P, right \in P
      PROVE  Node(left, value, right) \in P
  <2> DEFINE m == Node(left, value, right)
  <2>1. m \in Trees /\ m # Nil /\ m.left = left /\ m.right = right
    BY NodeIsTree, NodeProperties
  <2> HIDE DEF m
  <2>2. ASSUME m \in Below(t) PROVE h[m] = F[m]
    <3>1. left \in Below(t) /\ right \in Below(t)
      BY <2>1, <2>2, TreeIsBelow
    <3>2. (left # Nil => h[left] = F[left]) /\ (right # Nil => h[right] = F[right])
      BY <1>2, <3>1
    <3> QED
      BY <2>1, <2>2, <3>2
  <2> QED
    BY <2>1, <2>2 DEF m
<1>3. Trees \subseteq P
  <2> HIDE DEF P
  <2> QED
    BY <1>1, <1>2, TreeInduction
<1> QED
  BY <1>3, TreeIsBelow

\* F is computed from its values at subtrees.
Steps(F, C, D, base, step) ==
    /\ F[Nil] = base
    /\ \A m \in Trees : F[m] \in C
    /\ \A m \in Trees : m # Nil =>
          /\ <<m, F[m.left], F[m.right]>> \in D
          /\ F[m] = step[<<m, F[m.left], F[m.right]>>]

\* Recursion over trees, with a named step.
LEMMA TreeRecursionSteps ==
    ASSUME NEW C, NEW base \in C,
           NEW D, D = (Trees \ {Nil}) \X C \X C, NEW step \in [D -> C]
    PROVE  \E F : Steps(F, C, D, base, step)
<1>1. PICK F : Computes(F, Trees, C, base, step)
  BY TreeRecursion
<1>2. \A m \in Trees : F[m] \in C
  BY <1>1 DEF Computes
<1>3. ASSUME NEW m \in Trees, m # Nil
      PROVE  /\ <<m, F[m.left], F[m.right]>> \in D
             /\ F[m] = step[<<m, F[m.left], F[m.right]>>]
  <2>1. F[m.left] \in C /\ F[m.right] \in C
    BY <1>2, <1>3, TreeProperties
  <2>2. F[m] = step[<<m, F[m.left], F[m.right]>>]
    BY <1>1, <1>3 DEF Computes
  <2> QED
    BY <1>3, <2>1, <2>2
<1>4. F[Nil] = base
  BY <1>1, NilProperties DEF Computes
<1> QED
  BY <1>2, <1>3, <1>4 DEF Steps

\* Every tree ends in null pointers.
LEMMA NilIsBelow == \A t \in Trees : Nil \in Below(t)
<1> SUFFICES ASSUME NEW t \in Trees PROVE Nil \in Below(t)
  OBVIOUS
<1>1. Size(t) \in Nat /\ 0 <= Size(t)
  BY TreeProperties
<1> QED
  BY <1>1, NilProperties, LevelsGrow DEF Below

\* The results of queries.
Positions == [idx : Nat, node : Links]

\* Positions, which queries return, and what they have.
LEMMA PositionProperties ==
    /\ \A i, n : Position(i, n).idx = i /\ Position(i, n).node = n
    /\ \A i \in Nat, n \in Links : Position(i, n) \in Positions
    /\ \A p \in Positions : /\ p.idx \in Nat /\ p.node \in Links
                            /\ p = Position(p.idx, p.node)
BY DEF Position, Positions

\* A link leads to a key or nowhere.
LEMMA LinkProperties == Nil \in Links /\ \A k \in KeyType : <<k>> \in Links /\ <<k>> # Nil
BY DEF Links, Nil

\* The key of a node is a key.
LEMMA KeyIsTyped ==
    ASSUME Ordering, NEW t \in Trees, t # Nil
    PROVE  Key(t) \in KeyType
BY TreeProperties DEF Key, Ordering

\* The position in a right subtree, counted from its parent.
LEMMA PastLeftProperties ==
    ASSUME NEW t \in Trees, t # Nil, NEW p \in Positions
    PROVE  PastLeft(t, p) = Position(Size(t.left) + 1 + p.idx, p.node) /\ PastLeft(t, p) \in Positions
<1>1. Size(t.left) \in Nat
  BY TreeProperties
<1>2. p.idx \in Nat /\ p.node \in Links
  BY PositionProperties
<1>3. PastLeft(t, p) = Position(Size(t.left) + 1 + p.idx, p.node)
  BY DEF PastLeft, Position, Positions
<1> QED
  BY <1>1, <1>2, <1>3, PositionProperties

FindStep(m, k, a, b) ==
    IF LessThan(k, Key(m)) THEN a
    ELSE IF LessThan(Key(m), k) THEN PastLeft(m, b)
    ELSE Position(Size(m.left), <<Key(m)>>)

\* Find() satisfies its definition, which is recursive.
LEMMA FindDef ==
    ASSUME Ordering, NEW k
    PROVE  /\ Find(Nil, k) = Position(0, Nil)
           /\ \A t \in Trees :
                 /\ Find(t, k) \in Positions
                 /\ t # Nil => Find(t, k) = FindStep(t, k, Find(t.left, k), Find(t.right, k))
<1> DEFINE C == Positions
           D == (Trees \ {Nil}) \X C \X C
           base == Position(0, Nil)
           step == [x \in D |-> FindStep(x[1], k, x[2], x[3])]
<1>1. base \in C
  BY LinkProperties, PositionProperties
<1>2. \A m \in Trees \ {Nil} : \A a, b \in C : FindStep(m, k, a, b) \in C
  BY PastLeftProperties, PositionProperties, LinkProperties, KeyIsTyped, TreeProperties DEF FindStep
<1> HIDE DEF C, base
<1>3. step \in [D -> C]
  BY <1>2
<1>4. PICK F : Steps(F, C, D, base, step)
  <2>1. D = (Trees \ {Nil}) \X C \X C
    OBVIOUS
  <2> HIDE DEF step, D
  <2> QED
    BY ONLY <1>1, <1>3, <2>1, TreeRecursionSteps
<1>5. /\ F[Nil] = base
      /\ \A m \in Trees : F[m] \in C
      /\ \A m \in Trees : m # Nil => F[m] = FindStep(m, k, F[m.left], F[m.right])
  BY <1>4 DEF Steps
<1> HIDE DEF D, step
<1>6. ASSUME NEW t \in Trees
      PROVE  Find(t, k) = F[t]
  <2> DEFINE Body(f) == [m \in Below(t) |->
               IF m = Nil THEN Position(0, Nil)
               ELSE IF LessThan(k, Key(m)) THEN f[m.left]
               ELSE IF LessThan(Key(m), k) THEN PastLeft(m, f[m.right])
               ELSE Position(Size(m.left), <<Key(m)>>)]
             g == [m \in Below(t) |-> F[m]]
             h == CHOOSE f : f = Body(f)
  <2>1. /\ t \in Below(t) /\ Nil \in Below(t)
        /\ \A m \in Below(t) : m \in Trees
        /\ \A m \in Below(t) : m # Nil => m.left \in Below(t) /\ m.right \in Below(t)
    BY TreeIsBelow, NilIsBelow
  <2>2. \A f : Body(f) = [m \in Below(t) |-> IF m = Nil THEN base ELSE FindStep(m, k, f[m.left], f[m.right])]
    BY DEF FindStep, base
  <2>3. Find(t, k) = h[t]
    BY DEF Find
  <2> HIDE DEF Body
  <2>4. g = Body(g)
    BY <1>5, <2>1, <2>2
  <2>5. h = Body(h)
    <3> HIDE DEF g
    <3> QED
      BY <2>4
  <2> HIDE DEF h
  <2>6. /\ h[Nil] = base
        /\ \A m \in Below(t) : m # Nil => h[m] = FindStep(m, k, h[m.left], h[m.right])
    BY <2>1, <2>2, <2>5
  <2>7. CASE t = Nil
    BY <1>5, <2>3, <2>6, <2>7
  <2>8. CASE t # Nil
    <3>1. ASSUME NEW m \in Below(t), m \in Trees, m # Nil,
                 m.left # Nil => h[m.left] = F[m.left],
                 m.right # Nil => h[m.right] = F[m.right]
          PROVE  h[m] = F[m]
      <4>1. h[m.left] = F[m.left] /\ h[m.right] = F[m.right]
        BY <1>5, <2>6, <3>1, SMTT(30)
      <4> QED
        BY <1>5, <2>6, <3>1, <4>1, SMTT(30)
    <3>2. h[t] = F[t]
      BY <2>8, <3>1, SameBelow
    <3> QED
      BY <2>3, <3>2
  <2> QED
    BY <2>7, <2>8
<1>7. \A t \in Trees : t # Nil => t.left \in Trees /\ t.right \in Trees
  BY TreeProperties
<1> QED
  BY <1>5, <1>6, <1>7, NilProperties DEF C, base

\* The parent stands in where a left subtree has no answer.
LEMMA OrThisProperties ==
    ASSUME Ordering, NEW t \in Trees, t # Nil, NEW p \in Positions
    PROVE  OrThis(t, p) \in Positions
BY PositionProperties, LinkProperties, KeyIsTyped, TreeProperties DEF OrThis

LowerBoundStep(m, k, a, b) ==
    IF LessThan(k, Key(m)) THEN OrThis(m, a)
    ELSE IF LessThan(Key(m), k) THEN PastLeft(m, b)
    ELSE Position(Size(m.left), <<Key(m)>>)

\* LowerBound() satisfies its definition.
LEMMA LowerBoundDef ==
    ASSUME Ordering, NEW k
    PROVE  /\ LowerBound(Nil, k) = Position(0, Nil)
           /\ \A t \in Trees :
                 /\ LowerBound(t, k) \in Positions
                 /\ t # Nil => LowerBound(t, k) = LowerBoundStep(t, k, LowerBound(t.left, k), LowerBound(t.right, k))
<1> DEFINE C == Positions
           D == (Trees \ {Nil}) \X C \X C
           base == Position(0, Nil)
           step == [x \in D |-> LowerBoundStep(x[1], k, x[2], x[3])]
<1>1. base \in C
  BY LinkProperties, PositionProperties
<1>2. \A m \in Trees \ {Nil} : \A a, b \in C : LowerBoundStep(m, k, a, b) \in C
  BY PastLeftProperties, OrThisProperties, PositionProperties, LinkProperties, KeyIsTyped, TreeProperties DEF LowerBoundStep
<1> HIDE DEF C, base
<1>3. step \in [D -> C]
  BY <1>2
<1>4. PICK F : Steps(F, C, D, base, step)
  <2>1. D = (Trees \ {Nil}) \X C \X C
    OBVIOUS
  <2> HIDE DEF step, D
  <2> QED
    BY ONLY <1>1, <1>3, <2>1, TreeRecursionSteps
<1>5. /\ F[Nil] = base
      /\ \A m \in Trees : F[m] \in C
      /\ \A m \in Trees : m # Nil => F[m] = LowerBoundStep(m, k, F[m.left], F[m.right])
  BY <1>4 DEF Steps
<1> HIDE DEF D, step
<1>6. ASSUME NEW t \in Trees
      PROVE  LowerBound(t, k) = F[t]
  <2> DEFINE Body(f) == [m \in Below(t) |->
               IF m = Nil THEN Position(0, Nil)
               ELSE IF LessThan(k, Key(m)) THEN OrThis(m, f[m.left])
               ELSE IF LessThan(Key(m), k) THEN PastLeft(m, f[m.right])
               ELSE Position(Size(m.left), <<Key(m)>>)]
             g == [m \in Below(t) |-> F[m]]
             h == CHOOSE f : f = Body(f)
  <2>1. /\ t \in Below(t) /\ Nil \in Below(t)
        /\ \A m \in Below(t) : m \in Trees
        /\ \A m \in Below(t) : m # Nil => m.left \in Below(t) /\ m.right \in Below(t)
    BY TreeIsBelow, NilIsBelow
  <2>2. \A f : Body(f) = [m \in Below(t) |-> IF m = Nil THEN base ELSE LowerBoundStep(m, k, f[m.left], f[m.right])]
    BY DEF LowerBoundStep, base
  <2>3. LowerBound(t, k) = h[t]
    BY DEF LowerBound
  <2> HIDE DEF Body
  <2>4. g = Body(g)
    BY <1>5, <2>1, <2>2
  <2>5. h = Body(h)
    <3> HIDE DEF g
    <3> QED
      BY <2>4
  <2> HIDE DEF h
  <2>6. /\ h[Nil] = base
        /\ \A m \in Below(t) : m # Nil => h[m] = LowerBoundStep(m, k, h[m.left], h[m.right])
    BY <2>1, <2>2, <2>5
  <2>7. CASE t = Nil
    BY <1>5, <2>3, <2>6, <2>7
  <2>8. CASE t # Nil
    <3>1. ASSUME NEW m \in Below(t), m \in Trees, m # Nil,
                 m.left # Nil => h[m.left] = F[m.left],
                 m.right # Nil => h[m.right] = F[m.right]
          PROVE  h[m] = F[m]
      <4>1. h[m.left] = F[m.left] /\ h[m.right] = F[m.right]
        BY <1>5, <2>6, <3>1, SMTT(30)
      <4> QED
        BY <1>5, <2>6, <3>1, <4>1, SMTT(30)
    <3>2. h[t] = F[t]
      BY <2>8, <3>1, SameBelow
    <3> QED
      BY <2>3, <3>2
  <2> QED
    BY <2>7, <2>8
<1>7. \A t \in Trees : t # Nil => t.left \in Trees /\ t.right \in Trees
  BY TreeProperties
<1> QED
  BY <1>5, <1>6, <1>7, NilProperties DEF C, base

UpperBoundStep(m, k, a, b) ==
    IF LessThan(k, Key(m)) THEN OrThis(m, a) ELSE PastLeft(m, b)

\* UpperBound() satisfies its definition.
LEMMA UpperBoundDef ==
    ASSUME Ordering, NEW k
    PROVE  /\ UpperBound(Nil, k) = Position(0, Nil)
           /\ \A t \in Trees :
                 /\ UpperBound(t, k) \in Positions
                 /\ t # Nil => UpperBound(t, k) = UpperBoundStep(t, k, UpperBound(t.left, k), UpperBound(t.right, k))
<1> DEFINE C == Positions
           D == (Trees \ {Nil}) \X C \X C
           base == Position(0, Nil)
           step == [x \in D |-> UpperBoundStep(x[1], k, x[2], x[3])]
<1>1. base \in C
  BY LinkProperties, PositionProperties
<1>2. \A m \in Trees \ {Nil} : \A a, b \in C : UpperBoundStep(m, k, a, b) \in C
  BY PastLeftProperties, OrThisProperties, PositionProperties, LinkProperties, KeyIsTyped, TreeProperties DEF UpperBoundStep
<1> HIDE DEF C, base
<1>3. step \in [D -> C]
  BY <1>2
<1>4. PICK F : Steps(F, C, D, base, step)
  <2>1. D = (Trees \ {Nil}) \X C \X C
    OBVIOUS
  <2> HIDE DEF step, D
  <2> QED
    BY ONLY <1>1, <1>3, <2>1, TreeRecursionSteps
<1>5. /\ F[Nil] = base
      /\ \A m \in Trees : F[m] \in C
      /\ \A m \in Trees : m # Nil => F[m] = UpperBoundStep(m, k, F[m.left], F[m.right])
  BY <1>4 DEF Steps
<1> HIDE DEF D, step
<1>6. ASSUME NEW t \in Trees
      PROVE  UpperBound(t, k) = F[t]
  <2> DEFINE Body(f) == [m \in Below(t) |->
               IF m = Nil THEN Position(0, Nil)
               ELSE IF LessThan(k, Key(m)) THEN OrThis(m, f[m.left])
               ELSE PastLeft(m, f[m.right])]
             g == [m \in Below(t) |-> F[m]]
             h == CHOOSE f : f = Body(f)
  <2>1. /\ t \in Below(t) /\ Nil \in Below(t)
        /\ \A m \in Below(t) : m \in Trees
        /\ \A m \in Below(t) : m # Nil => m.left \in Below(t) /\ m.right \in Below(t)
    BY TreeIsBelow, NilIsBelow
  <2>2. \A f : Body(f) = [m \in Below(t) |-> IF m = Nil THEN base ELSE UpperBoundStep(m, k, f[m.left], f[m.right])]
    BY DEF UpperBoundStep, base
  <2>3. UpperBound(t, k) = h[t]
    BY DEF UpperBound
  <2> HIDE DEF Body
  <2>4. g = Body(g)
    BY <1>5, <2>1, <2>2
  <2>5. h = Body(h)
    <3> HIDE DEF g
    <3> QED
      BY <2>4
  <2> HIDE DEF h
  <2>6. /\ h[Nil] = base
        /\ \A m \in Below(t) : m # Nil => h[m] = UpperBoundStep(m, k, h[m.left], h[m.right])
    BY <2>1, <2>2, <2>5
  <2>7. CASE t = Nil
    BY <1>5, <2>3, <2>6, <2>7
  <2>8. CASE t # Nil
    <3>1. ASSUME NEW m \in Below(t), m \in Trees, m # Nil,
                 m.left # Nil => h[m.left] = F[m.left],
                 m.right # Nil => h[m.right] = F[m.right]
          PROVE  h[m] = F[m]
      <4>1. h[m.left] = F[m.left] /\ h[m.right] = F[m.right]
        BY <1>5, <2>6, <3>1, SMTT(30)
      <4> QED
        BY <1>5, <2>6, <3>1, <4>1, SMTT(30)
    <3>2. h[t] = F[t]
      BY <2>8, <3>1, SameBelow
    <3> QED
      BY <2>3, <3>2
  <2> QED
    BY <2>7, <2>8
<1>7. \A t \in Trees : t # Nil => t.left \in Trees /\ t.right \in Trees
  BY TreeProperties
<1> QED
  BY <1>5, <1>6, <1>7, NilProperties DEF C, base


\* A node that was rebalanced is a tree.
LEMMA RebalanceIsTree ==
    ASSUME Ordering, NEW l \in Trees, NEW r \in Trees, NEW v \in Value
    PROVE  MaybeRebalance(Node(l, v, r)) \in Trees
BY RebalanceRearranges DEF Rearranges

LeftMostStep(m, a, b) == IF m.left = Nil THEN Key(m) ELSE a

\* The leftmost key satisfies its definition.
LEMMA LeftMostDef ==
    ASSUME Ordering
    PROVE  \A t \in Trees : t # Nil =>
              /\ LeftMost(t) \in KeyType
              /\ LeftMost(t) = LeftMostStep(t, LeftMost(t.left), LeftMost(t.right))
<1> SUFFICES ASSUME NEW s \in Trees, s # Nil
             PROVE  /\ LeftMost(s) \in KeyType
                    /\ LeftMost(s) = LeftMostStep(s, LeftMost(s.left), LeftMost(s.right))
  OBVIOUS
<1> DEFINE C == KeyType
           D == (Trees \ {Nil}) \X C \X C
           base == Key(s)
           step == [x \in D |-> LeftMostStep(x[1], x[2], x[3])]
<1>1. base \in C
  BY KeyIsTyped
<1>2. \A m \in Trees \ {Nil} : \A a, b \in C : LeftMostStep(m, a, b) \in C
  BY KeyIsTyped DEF LeftMostStep
<1> HIDE DEF C, base
<1>3. step \in [D -> C]
  BY <1>2
<1>4. PICK F : Steps(F, C, D, base, step)
  <2>1. D = (Trees \ {Nil}) \X C \X C
    OBVIOUS
  <2> HIDE DEF step, D
  <2> QED
    BY ONLY <1>1, <1>3, <2>1, TreeRecursionSteps
<1>5. /\ F[Nil] = base
      /\ \A m \in Trees : F[m] \in C
      /\ \A m \in Trees : m # Nil => F[m] = LeftMostStep(m, F[m.left], F[m.right])
  BY <1>4 DEF Steps
<1> HIDE DEF D, step
<1>6. ASSUME NEW t \in Trees, t # Nil
      PROVE  LeftMost(t) = F[t]
  <2> DEFINE Body(f) == [m \in Below(t) \ {Nil} |->
               IF m.left = Nil THEN Key(m) ELSE f[m.left]]
             g == [m \in Below(t) \ {Nil} |-> F[m]]
             h == CHOOSE f : f = Body(f)
  <2>1. /\ t \in Below(t)
        /\ \A m \in Below(t) : m \in Trees
        /\ \A m \in Below(t) : m # Nil => m.left \in Below(t) /\ m.right \in Below(t)
    BY TreeIsBelow
  <2>2. \A f : Body(f) = [m \in Below(t) \ {Nil} |-> LeftMostStep(m, f[m.left], f[m.right])]
    BY DEF LeftMostStep
  <2>3. LeftMost(t) = h[t]
    BY DEF LeftMost
  <2> HIDE DEF Body
  <2>4. g = Body(g)
    <3>1. \A m \in Below(t) \ {Nil} : LeftMostStep(m, g[m.left], g[m.right]) = F[m]
      BY <1>5, <2>1 DEF LeftMostStep
    <3> QED
      BY <2>2, <3>1
  <2>5. h = Body(h)
    <3> HIDE DEF g
    <3> QED
      BY <2>4
  <2> HIDE DEF h
  <2>6. \A m \in Below(t) : m # Nil => h[m] = LeftMostStep(m, h[m.left], h[m.right])
    BY <2>2, <2>5
  <2>7. ASSUME NEW m \in Below(t), m \in Trees, m # Nil,
               m.left # Nil => h[m.left] = F[m.left],
               m.right # Nil => h[m.right] = F[m.right]
        PROVE  h[m] = F[m]
    <3>1. LeftMostStep(m, h[m.left], h[m.right]) = LeftMostStep(m, F[m.left], F[m.right])
      BY <2>7 DEF LeftMostStep
    <3> QED
      BY <1>5, <2>6, <2>7, <3>1
  <2>8. h[t] = F[t]
    BY <1>6, <2>7, SameBelow
  <2> QED
    BY <2>3, <2>8
<1>7. LeftMostStep(s, LeftMost(s.left), LeftMost(s.right)) = LeftMostStep(s, F[s.left], F[s.right])
  <2>1. s.left \in Trees /\ s.right \in Trees
    BY TreeProperties
  <2>2. (s.left # Nil => LeftMost(s.left) = F[s.left]) /\ (s.right # Nil => LeftMost(s.right) = F[s.right])
    BY <1>6, <2>1
  <2> QED
    BY <2>2 DEF LeftMostStep
<1> QED
  BY <1>5, <1>6, <1>7 DEF C

\* A tree without its last node, and the value of that node.
Unlinkings == [root : Trees, removed : Value]

UnlinkRightMostStep(m, a, b) ==
    IF m.right = Nil THEN [root |-> m.left, removed |-> m.value]
    ELSE [b EXCEPT !.root = MaybeRebalance(Node(m.left, m.value, @))]

\* UnlinkRightMost() satisfies its definition.
LEMMA UnlinkRightMostDef ==
    ASSUME Ordering
    PROVE  \A t \in Trees : t # Nil =>
              /\ UnlinkRightMost(t) \in Unlinkings
              /\ UnlinkRightMost(t) = UnlinkRightMostStep(t, UnlinkRightMost(t.left), UnlinkRightMost(t.right))
<1> SUFFICES ASSUME NEW s \in Trees, s # Nil
             PROVE  /\ UnlinkRightMost(s) \in Unlinkings
                    /\ UnlinkRightMost(s) = UnlinkRightMostStep(s, UnlinkRightMost(s.left), UnlinkRightMost(s.right))
  OBVIOUS
<1> DEFINE C == Unlinkings
           D == (Trees \ {Nil}) \X C \X C
           base == [root |-> Nil, removed |-> s.value]
           step == [x \in D |-> UnlinkRightMostStep(x[1], x[2], x[3])]
<1>1. base \in C
  BY NilProperties, TreeProperties DEF Unlinkings
<1>2. ASSUME NEW m \in Trees \ {Nil}, NEW a \in C, NEW b \in C
      PROVE  UnlinkRightMostStep(m, a, b) \in C
  <2>1. m.left \in Trees /\ m.value \in Value /\ b.root \in Trees
    BY TreeProperties DEF Unlinkings
  <2>2. MaybeRebalance(Node(m.left, m.value, b.root)) \in Trees
    BY <2>1, RebalanceIsTree
  <2> QED
    BY <2>1, <2>2 DEF UnlinkRightMostStep, Unlinkings
<1> HIDE DEF C, base
<1>3. step \in [D -> C]
  BY <1>2
<1>4. PICK F : Steps(F, C, D, base, step)
  <2>1. D = (Trees \ {Nil}) \X C \X C
    OBVIOUS
  <2> HIDE DEF step, D
  <2> QED
    BY ONLY <1>1, <1>3, <2>1, TreeRecursionSteps
<1>5. /\ F[Nil] = base
      /\ \A m \in Trees : F[m] \in C
      /\ \A m \in Trees : m # Nil => F[m] = UnlinkRightMostStep(m, F[m.left], F[m.right])
  BY <1>4 DEF Steps
<1> HIDE DEF D, step
<1>6. ASSUME NEW t \in Trees, t # Nil
      PROVE  UnlinkRightMost(t) = F[t]
  <2> DEFINE Body(f) == [m \in Below(t) \ {Nil} |->
               IF m.right = Nil THEN [root |-> m.left, removed |-> m.value]
               ELSE [f[m.right] EXCEPT !.root = MaybeRebalance(Node(m.left, m.value, @))]]
             g == [m \in Below(t) \ {Nil} |-> F[m]]
             h == CHOOSE f : f = Body(f)
  <2>1. /\ t \in Below(t)
        /\ \A m \in Below(t) : m \in Trees
        /\ \A m \in Below(t) : m # Nil => m.left \in Below(t) /\ m.right \in Below(t)
    BY TreeIsBelow
  <2>2. \A f : Body(f) = [m \in Below(t) \ {Nil} |-> UnlinkRightMostStep(m, f[m.left], f[m.right])]
    BY DEF UnlinkRightMostStep
  <2>3. UnlinkRightMost(t) = h[t]
    BY DEF UnlinkRightMost
  <2> HIDE DEF Body
  <2>4. g = Body(g)
    <3>1. \A m \in Below(t) \ {Nil} : UnlinkRightMostStep(m, g[m.left], g[m.right]) = F[m]
      BY <1>5, <2>1 DEF UnlinkRightMostStep
    <3> QED
      BY <2>2, <3>1
  <2>5. h = Body(h)
    <3> HIDE DEF g
    <3> QED
      BY <2>4
  <2> HIDE DEF h
  <2>6. \A m \in Below(t) : m # Nil => h[m] = UnlinkRightMostStep(m, h[m.left], h[m.right])
    BY <2>2, <2>5
  <2>7. ASSUME NEW m \in Below(t), m \in Trees, m # Nil,
               m.left # Nil => h[m.left] = F[m.left],
               m.right # Nil => h[m.right] = F[m.right]
        PROVE  h[m] = F[m]
    <3>1. UnlinkRightMostStep(m, h[m.left], h[m.right]) = UnlinkRightMostStep(m, F[m.left], F[m.right])
      BY <2>7 DEF UnlinkRightMostStep
    <3> QED
      BY <1>5, <2>6, <2>7, <3>1
  <2>8. h[t] = F[t]
    BY <1>6, <2>7, SameBelow
  <2> QED
    BY <2>3, <2>8
<1>7. UnlinkRightMostStep(s, UnlinkRightMost(s.left), UnlinkRightMost(s.right)) = UnlinkRightMostStep(s, F[s.left], F[s.right])
  <2>1. s.left \in Trees /\ s.right \in Trees
    BY TreeProperties
  <2>2. (s.left # Nil => UnlinkRightMost(s.left) = F[s.left]) /\ (s.right # Nil => UnlinkRightMost(s.right) = F[s.right])
    BY <1>6, <2>1
  <2> QED
    BY <2>2 DEF UnlinkRightMostStep
<1> QED
  BY <1>5, <1>6, <1>7 DEF C


\* Select, as a function of the index.
SelectFrom(n) ==
    LET select[m \in Below(n)] == [i \in Nat |->
            IF Size(m) <= i THEN Nil
            ELSE IF Size(m.left) = i THEN <<Key(m)>>
            ELSE IF Size(m.left) > i THEN select[m.left][i]
            ELSE select[m.right][i - Size(m.left) - 1]]
    IN select[n]

SelectFromStep(m, a, b) ==
    [i \in Nat |->
        IF Size(m) <= i THEN Nil
        ELSE IF Size(m.left) = i THEN <<Key(m)>>
        ELSE IF Size(m.left) > i THEN a[i]
        ELSE b[i - Size(m.left) - 1]]

\* The function behind Select() satisfies its definition,
LEMMA SelectFromDef ==
    ASSUME Ordering
    PROVE  /\ SelectFrom(Nil) = [i \in Nat |-> Nil]
           /\ \A t \in Trees :
                 /\ SelectFrom(t) \in [Nat -> Links]
                 /\ t # Nil => SelectFrom(t) = SelectFromStep(t, SelectFrom(t.left), SelectFrom(t.right))
<1> DEFINE C == [Nat -> Links]
           D == (Trees \ {Nil}) \X C \X C
           base == [i \in Nat |-> Nil]
           step == [x \in D |-> SelectFromStep(x[1], x[2], x[3])]
<1>1. base \in C
  BY LinkProperties
<1>2. ASSUME NEW m \in Trees \ {Nil}, NEW a \in C, NEW b \in C
      PROVE  SelectFromStep(m, a, b) \in C
  <2>1. Size(m.left) \in Nat /\ Size(m) \in Nat /\ Key(m) \in KeyType
    BY TreeProperties, KeyIsTyped
  <2>2. ASSUME NEW i \in Nat, ~(Size(m) <= i), Size(m.left) # i, ~(Size(m.left) > i)
        PROVE  b[i - Size(m.left) - 1] \in Links
    <3>1. i - Size(m.left) - 1 \in Nat
      BY <2>1, <2>2
    <3> QED
      BY <3>1
  <2> QED
    BY <2>1, <2>2, LinkProperties DEF SelectFromStep
<1> HIDE DEF C, base
<1>3. step \in [D -> C]
  BY <1>2
<1>4. PICK F : Steps(F, C, D, base, step)
  <2>1. D = (Trees \ {Nil}) \X C \X C
    OBVIOUS
  <2> HIDE DEF step, D
  <2> QED
    BY ONLY <1>1, <1>3, <2>1, TreeRecursionSteps
<1>5. /\ F[Nil] = base
      /\ \A m \in Trees : F[m] \in C
      /\ \A m \in Trees : m # Nil => F[m] = SelectFromStep(m, F[m.left], F[m.right])
  BY <1>4 DEF Steps
<1> HIDE DEF D, step
<1>6. ASSUME NEW t \in Trees
      PROVE  SelectFrom(t) = F[t]
  <2> DEFINE Body(f) == [m \in Below(t) |->
               [i \in Nat |->
                   IF Size(m) <= i THEN Nil
                   ELSE IF Size(m.left) = i THEN <<Key(m)>>
                   ELSE IF Size(m.left) > i THEN f[m.left][i]
                   ELSE f[m.right][i - Size(m.left) - 1]]]
             g == [m \in Below(t) |-> F[m]]
             h == CHOOSE f : f = Body(f)
  <2>1. /\ t \in Below(t) /\ Nil \in Below(t)
        /\ \A m \in Below(t) : m \in Trees
        /\ \A m \in Below(t) : m # Nil => m.left \in Below(t) /\ m.right \in Below(t)
    BY TreeIsBelow, NilIsBelow
  <2>2. \A f : Body(f) = [m \in Below(t) |-> IF m = Nil THEN base ELSE SelectFromStep(m, f[m.left], f[m.right])]
    <3> DEFINE At(m, f, i) == IF Size(m) <= i THEN Nil
                              ELSE IF Size(m.left) = i THEN <<Key(m)>>
                              ELSE IF Size(m.left) > i THEN f[m.left][i]
                              ELSE f[m.right][i - Size(m.left) - 1]
    <3>1. ASSUME NEW f
          PROVE  [i \in Nat |-> At(Nil, f, i)] = base
      <4>1. \A i \in Nat : Size(Nil) <= i
        BY NilProperties
      <4> QED
        BY <4>1 DEF base
    <3>2. \A f : Body(f) = [m \in Below(t) |-> [i \in Nat |-> At(m, f, i)]]
      OBVIOUS
    <3>3. \A f : \A m : SelectFromStep(m, f[m.left], f[m.right]) = [i \in Nat |-> At(m, f, i)]
      BY DEF SelectFromStep
    <3> DEFINE Row(m, f) == [i \in Nat |-> At(m, f, i)]
    <3>4. ASSUME NEW f, NEW m
          PROVE  Row(m, f) = IF m = Nil THEN base ELSE SelectFromStep(m, f[m.left], f[m.right])
      <4> HIDE DEF At
      <4> QED
        BY <3>1, <3>3
    <3>5. \A f : Body(f) = [m \in Below(t) |-> Row(m, f)]
      BY <3>2
    <3> HIDE DEF Row, At, Body
    <3> QED
      BY <3>4, <3>5
  <2>3. SelectFrom(t) = h[t]
    BY DEF SelectFrom
  <2> HIDE DEF Body
  <2>4. g = Body(g)
    BY <1>5, <2>1, <2>2
  <2>5. h = Body(h)
    <3> HIDE DEF g
    <3> QED
      BY <2>4
  <2> HIDE DEF h
  <2>6. /\ h[Nil] = base
        /\ \A m \in Below(t) : m # Nil => h[m] = SelectFromStep(m, h[m.left], h[m.right])
    BY <2>1, <2>2, <2>5
  <2>7. CASE t = Nil
    BY <1>5, <2>3, <2>6, <2>7
  <2>8. CASE t # Nil
    <3>1. ASSUME NEW m \in Below(t), m \in Trees, m # Nil,
                 m.left # Nil => h[m.left] = F[m.left],
                 m.right # Nil => h[m.right] = F[m.right]
          PROVE  h[m] = F[m]
      <4>1. h[m.left] = F[m.left] /\ h[m.right] = F[m.right]
        BY <1>5, <2>6, <3>1, SMTT(30)
      <4> QED
        BY <1>5, <2>6, <3>1, <4>1, SMTT(30)
    <3>2. h[t] = F[t]
      BY <2>8, <3>1, SameBelow
    <3> QED
      BY <2>3, <3>2
  <2> QED
    BY <2>7, <2>8
<1>7. \A t \in Trees : t # Nil => t.left \in Trees /\ t.right \in Trees
  BY TreeProperties
<1> QED
  BY <1>5, <1>6, <1>7, NilProperties DEF C, base

\* and so does Select().
LEMMA SelectDef ==
    ASSUME Ordering, NEW t \in Trees, NEW i \in Nat
    PROVE  /\ Select(t, i) \in Links
           /\ Size(t) <= i => Select(t, i) = Nil
           /\ Size(t) > i =>
                 Select(t, i) = IF Size(t.left) = i THEN <<Key(t)>>
                                ELSE IF Size(t.left) > i THEN Select(t.left, i)
                                ELSE Select(t.right, i - Size(t.left) - 1)
<1>1. \A n, j : Select(n, j) = SelectFrom(n)[j]
  BY DEF Select, SelectFrom
<1>2. SelectFrom(t) \in [Nat -> Links]
  BY SelectFromDef
<1>3. CASE t = Nil
  BY <1>1, <1>2, <1>3, SelectFromDef, NilProperties
<1>4. CASE t # Nil
  <2>1. SelectFrom(t) = SelectFromStep(t, SelectFrom(t.left), SelectFrom(t.right))
    BY <1>4, SelectFromDef
  <2>2. Size(t) \in Nat
    BY TreeProperties
  <2> QED
    BY <1>1, <1>2, <2>1, <2>2 DEF SelectFromStep
<1> QED
  BY <1>3, <1>4

\* Insert, as a function of the rank so far.
InsertFrom(n, v, assign) ==
    LET insert[m \in Below(n)] == [rank \in Nat |->
            IF m = Nil THEN Inserted(Node(Nil, v, Nil), rank, TRUE)
            ELSE IF LessThan(Key(m), KeyOf(v))
            THEN LET sub == insert[m.right][rank + Size(m.left) + 1]
                 IN [sub EXCEPT !.root = MaybeRebalance(Node(m.left, m.value, @))]
            ELSE IF LessThan(KeyOf(v), Key(m))
            THEN LET sub == insert[m.left][rank]
                 IN [sub EXCEPT !.root = MaybeRebalance(Node(@, m.value, m.right))]
            ELSE Inserted(MaybeRebalance(IF assign THEN Node(m.left, v, m.right) ELSE m),
                          rank, FALSE)]
    IN insert[n]

InsertFromStep(m, v, assign, a, b) ==
    [rank \in Nat |->
        IF LessThan(Key(m), KeyOf(v))
        THEN LET sub == b[rank + Size(m.left) + 1]
             IN [sub EXCEPT !.root = MaybeRebalance(Node(m.left, m.value, @))]
        ELSE IF LessThan(KeyOf(v), Key(m))
        THEN LET sub == a[rank]
             IN [sub EXCEPT !.root = MaybeRebalance(Node(@, m.value, m.right))]
        ELSE Inserted(MaybeRebalance(IF assign THEN Node(m.left, v, m.right) ELSE m),
                      rank, FALSE)]

Insertions == [root : Trees, idx : Nat, did_insert : BOOLEAN]

\* The function behind Insert() satisfies its definition,
LEMMA InsertFromDef ==
    ASSUME Ordering, NEW v \in Value, NEW assign \in BOOLEAN
    PROVE  /\ InsertFrom(Nil, v, assign) = [rank \in Nat |-> Inserted(Node(Nil, v, Nil), rank, TRUE)]
           /\ \A t \in Trees :
                 /\ InsertFrom(t, v, assign) \in [Nat -> Insertions]
                 /\ t # Nil => InsertFrom(t, v, assign) = InsertFromStep(t, v, assign, InsertFrom(t.left, v, assign), InsertFrom(t.right, v, assign))
<1> DEFINE C == [Nat -> Insertions]
           D == (Trees \ {Nil}) \X C \X C
           base == [rank \in Nat |-> Inserted(Node(Nil, v, Nil), rank, TRUE)]
           step == [x \in D |-> InsertFromStep(x[1], v, assign, x[2], x[3])]
<1>1. base \in C
  BY NilProperties, NodeIsTree DEF Insertions, Inserted
<1>2. ASSUME NEW m \in Trees \ {Nil}, NEW a \in C, NEW b \in C
      PROVE  InsertFromStep(m, v, assign, a, b) \in C
  <2>1. /\ m.left \in Trees /\ m.right \in Trees /\ m.value \in Value
        /\ Size(m.left) \in Nat
        /\ m = Node(m.left, m.value, m.right)
    BY TreeProperties
  <2>2. ASSUME NEW n \in Trees
        PROVE  /\ MaybeRebalance(Node(m.left, m.value, n)) \in Trees
               /\ MaybeRebalance(Node(n, m.value, m.right)) \in Trees
    BY <2>1, RebalanceIsTree
  <2>3. MaybeRebalance(IF assign THEN Node(m.left, v, m.right) ELSE m) \in Trees
    BY <2>1, RebalanceIsTree
  <2>4. ASSUME NEW rank \in Nat
        PROVE  /\ [b[rank + Size(m.left) + 1] EXCEPT !.root = MaybeRebalance(Node(m.left, m.value, @))]
                     \in Insertions
               /\ [a[rank] EXCEPT !.root = MaybeRebalance(Node(@, m.value, m.right))] \in Insertions
               /\ Inserted(MaybeRebalance(IF assign THEN Node(m.left, v, m.right) ELSE m), rank, FALSE)
                     \in Insertions
    <3>1. rank + Size(m.left) + 1 \in Nat
      BY <2>1
    <3>2. b[rank + Size(m.left) + 1] \in Insertions /\ a[rank] \in Insertions
      BY <3>1
    <3> QED
      BY <2>2, <2>3, <3>2 DEF Insertions, Inserted
  <2> QED
    BY <2>4 DEF InsertFromStep
<1> HIDE DEF C, base
<1>3. step \in [D -> C]
  BY <1>2
<1>4. PICK F : Steps(F, C, D, base, step)
  <2>1. D = (Trees \ {Nil}) \X C \X C
    OBVIOUS
  <2> HIDE DEF step, D
  <2> QED
    BY ONLY <1>1, <1>3, <2>1, TreeRecursionSteps
<1>5. /\ F[Nil] = base
      /\ \A m \in Trees : F[m] \in C
      /\ \A m \in Trees : m # Nil => F[m] = InsertFromStep(m, v, assign, F[m.left], F[m.right])
  BY <1>4 DEF Steps
<1> HIDE DEF D, step
<1>6. ASSUME NEW t \in Trees
      PROVE  InsertFrom(t, v, assign) = F[t]
  <2> DEFINE Body(f) == [m \in Below(t) |->
               [rank \in Nat |->
                   IF m = Nil THEN Inserted(Node(Nil, v, Nil), rank, TRUE)
                   ELSE IF LessThan(Key(m), KeyOf(v))
                   THEN LET sub == f[m.right][rank + Size(m.left) + 1]
                        IN [sub EXCEPT !.root = MaybeRebalance(Node(m.left, m.value, @))]
                   ELSE IF LessThan(KeyOf(v), Key(m))
                   THEN LET sub == f[m.left][rank]
                        IN [sub EXCEPT !.root = MaybeRebalance(Node(@, m.value, m.right))]
                   ELSE Inserted(MaybeRebalance(IF assign THEN Node(m.left, v, m.right) ELSE m),
                                 rank, FALSE)]]
             g == [m \in Below(t) |-> F[m]]
             h == CHOOSE f : f = Body(f)
  <2>1. /\ t \in Below(t) /\ Nil \in Below(t)
        /\ \A m \in Below(t) : m \in Trees
        /\ \A m \in Below(t) : m # Nil => m.left \in Below(t) /\ m.right \in Below(t)
    BY TreeIsBelow, NilIsBelow
  <2>2. \A f : Body(f) = [m \in Below(t) |-> IF m = Nil THEN base ELSE InsertFromStep(m, v, assign, f[m.left], f[m.right])]
    <3> DEFINE Row(m, f) ==
               [rank \in Nat |->
                   IF m = Nil THEN Inserted(Node(Nil, v, Nil), rank, TRUE)
                   ELSE IF LessThan(Key(m), KeyOf(v))
                   THEN LET sub == f[m.right][rank + Size(m.left) + 1]
                        IN [sub EXCEPT !.root = MaybeRebalance(Node(m.left, m.value, @))]
                   ELSE IF LessThan(KeyOf(v), Key(m))
                   THEN LET sub == f[m.left][rank]
                        IN [sub EXCEPT !.root = MaybeRebalance(Node(@, m.value, m.right))]
                   ELSE Inserted(MaybeRebalance(IF assign THEN Node(m.left, v, m.right) ELSE m),
                                 rank, FALSE)]
    <3>1. ASSUME NEW f, NEW m
          PROVE  Row(m, f) = IF m = Nil THEN base ELSE InsertFromStep(m, v, assign, f[m.left], f[m.right])
      <4>1. m = Nil => Row(m, f) = base
        BY DEF base
      <4>2. m # Nil => Row(m, f) = InsertFromStep(m, v, assign, f[m.left], f[m.right])
        BY DEF InsertFromStep
      <4> HIDE DEF Row
      <4> QED
        BY <4>1, <4>2
    <3>2. \A f : Body(f) = [m \in Below(t) |-> Row(m, f)]
      OBVIOUS
    <3> HIDE DEF Row, Body
    <3> QED
      BY <3>1, <3>2
  <2>3. InsertFrom(t, v, assign) = h[t]
    BY DEF InsertFrom
  <2> HIDE DEF Body
  <2>4. g = Body(g)
    BY <1>5, <2>1, <2>2
  <2>5. h = Body(h)
    <3> HIDE DEF g
    <3> QED
      BY <2>4
  <2> HIDE DEF h
  <2>6. /\ h[Nil] = base
        /\ \A m \in Below(t) : m # Nil => h[m] = InsertFromStep(m, v, assign, h[m.left], h[m.right])
    BY <2>1, <2>2, <2>5
  <2>7. CASE t = Nil
    BY <1>5, <2>3, <2>6, <2>7
  <2>8. CASE t # Nil
    <3>1. ASSUME NEW m \in Below(t), m \in Trees, m # Nil,
                 m.left # Nil => h[m.left] = F[m.left],
                 m.right # Nil => h[m.right] = F[m.right]
          PROVE  h[m] = F[m]
      <4>1. h[m.left] = F[m.left] /\ h[m.right] = F[m.right]
        BY <1>5, <2>6, <3>1, SMTT(30)
      <4> QED
        BY <1>5, <2>6, <3>1, <4>1, SMTT(30)
    <3>2. h[t] = F[t]
      BY <2>8, <3>1, SameBelow
    <3> QED
      BY <2>3, <3>2
  <2> QED
    BY <2>7, <2>8
<1>7. \A t \in Trees : t # Nil => t.left \in Trees /\ t.right \in Trees
  BY TreeProperties
<1> QED
  BY <1>5, <1>6, <1>7, NilProperties, ZenonT(60) DEF C, base

\* and so does Insert(), in each of its cases.
LEMMA InsertDef ==
    ASSUME Ordering, NEW t \in Trees, NEW v \in Value, NEW assign \in BOOLEAN, NEW rank \in Nat
    PROVE  /\ Insert(t, v, rank, assign) \in Insertions
           /\ t = Nil => Insert(t, v, rank, assign) = Inserted(Node(Nil, v, Nil), rank, TRUE)
           /\ t # Nil /\ LessThan(Key(t), KeyOf(v)) =>
                 LET sub == Insert(t.right, v, rank + Size(t.left) + 1, assign)
                 IN  /\ sub \in Insertions
                     /\ Insert(t, v, rank, assign) =
                          Inserted(MaybeRebalance(Node(t.left, t.value, sub.root)), sub.idx, sub.did_insert)
           /\ t # Nil /\ ~LessThan(Key(t), KeyOf(v)) /\ LessThan(KeyOf(v), Key(t)) =>
                 LET sub == Insert(t.left, v, rank, assign)
                 IN  /\ sub \in Insertions
                     /\ Insert(t, v, rank, assign) =
                          Inserted(MaybeRebalance(Node(sub.root, t.value, t.right)), sub.idx, sub.did_insert)
           /\ t # Nil /\ ~LessThan(Key(t), KeyOf(v)) /\ ~LessThan(KeyOf(v), Key(t)) =>
                 Insert(t, v, rank, assign) =
                   Inserted(MaybeRebalance(IF assign THEN Node(t.left, v, t.right) ELSE t), rank, FALSE)
<1>1. \A n, r : Insert(n, v, r, assign) = InsertFrom(n, v, assign)[r]
  BY DEF Insert, InsertFrom
<1>2. \A n \in Trees : \A r \in Nat : Insert(n, v, r, assign) \in Insertions
  <2>1. \A n \in Trees : InsertFrom(n, v, assign) \in [Nat -> Insertions]
    BY InsertFromDef
  <2> QED
    BY <1>1, <2>1
<1>3. CASE t = Nil
  <2>1. InsertFrom(Nil, v, assign) = [r \in Nat |-> Inserted(Node(Nil, v, Nil), r, TRUE)]
    BY InsertFromDef
  <2> QED
    BY <1>1, <1>2, <1>3, <2>1
<1>4. CASE t # Nil
  <2> DEFINE right == Insert(t.right, v, rank + Size(t.left) + 1, assign)
             left == Insert(t.left, v, rank, assign)
  <2>1. InsertFrom(t, v, assign) =
          InsertFromStep(t, v, assign, InsertFrom(t.left, v, assign), InsertFrom(t.right, v, assign))
    BY <1>4, InsertFromDef
  <2>2. /\ right = InsertFrom(t.right, v, assign)[rank + Size(t.left) + 1]
        /\ left = InsertFrom(t.left, v, assign)[rank]
    BY <1>1
  <2>3. right \in Insertions /\ left \in Insertions
    <3>1. t.left \in Trees /\ t.right \in Trees /\ Size(t.left) \in Nat
      BY <1>4, TreeProperties
    <3>2. rank + Size(t.left) + 1 \in Nat
      BY <3>1
    <3> QED
      BY <1>2, <3>1, <3>2
  <2>4. Insert(t, v, rank, assign) =
          IF LessThan(Key(t), KeyOf(v))
          THEN [right EXCEPT !.root = MaybeRebalance(Node(t.left, t.value, @))]
          ELSE IF LessThan(KeyOf(v), Key(t))
          THEN [left EXCEPT !.root = MaybeRebalance(Node(@, t.value, t.right))]
          ELSE Inserted(MaybeRebalance(IF assign THEN Node(t.left, v, t.right) ELSE t), rank, FALSE)
    <3> DEFINE a == InsertFrom(t.left, v, assign)
               b == InsertFrom(t.right, v, assign)
    <3> HIDE DEF a, b
    <3>1. InsertFromStep(t, v, assign, a, b)[rank] =
            IF LessThan(Key(t), KeyOf(v))
            THEN [b[rank + Size(t.left) + 1] EXCEPT !.root = MaybeRebalance(Node(t.left, t.value, @))]
            ELSE IF LessThan(KeyOf(v), Key(t))
            THEN [a[rank] EXCEPT !.root = MaybeRebalance(Node(@, t.value, t.right))]
            ELSE Inserted(MaybeRebalance(IF assign THEN Node(t.left, v, t.right) ELSE t), rank, FALSE)
      BY DEF InsertFromStep
    <3>2. Insert(t, v, rank, assign) = InsertFromStep(t, v, assign, a, b)[rank]
      BY <1>1, <2>1 DEF a, b
    <3>3. right = b[rank + Size(t.left) + 1] /\ left = a[rank]
      BY <2>2 DEF a, b
    <3> HIDE DEF right, left
    <3> QED
      BY <3>1, <3>2, <3>3, Zenon
  <2> HIDE DEF right, left
  <2>5. ASSUME NEW sub \in Insertions, NEW n
        PROVE  [sub EXCEPT !.root = n] = Inserted(n, sub.idx, sub.did_insert)
    BY DEF Insertions, Inserted
  <2>6. /\ [right EXCEPT !.root = MaybeRebalance(Node(t.left, t.value, @))] =
             Inserted(MaybeRebalance(Node(t.left, t.value, right.root)), right.idx, right.did_insert)
        /\ [left EXCEPT !.root = MaybeRebalance(Node(@, t.value, t.right))] =
             Inserted(MaybeRebalance(Node(left.root, t.value, t.right)), left.idx, left.did_insert)
    BY <2>3, <2>5
  <2>7. Insert(t, v, rank, assign) \in Insertions
    BY <1>2
  <2> QED
    BY <1>4, <2>3, <2>4, <2>6, <2>7 DEF right, left
<1> QED
  BY <1>3, <1>4

\* What DeleteNode() leaves is a tree.
LEMMA DeleteNodeIsTree ==
    ASSUME Ordering, NEW t \in Trees, t # Nil
    PROVE  DeleteNode(t) \in Trees
<1>1. t.left \in Trees /\ t.right \in Trees
  BY TreeProperties
<1>2. t.left # Nil => UnlinkRightMost(t.left).root \in Trees /\ UnlinkRightMost(t.left).removed \in Value
  BY <1>1, UnlinkRightMostDef DEF Unlinkings
<1> QED
  BY <1>1, <1>2, RebalanceIsTree DEF DeleteNode

Erasures == [root : Trees, rank : Nat, successor : Links, extracted : Seq(Value)]

\* What Erase() returns where it finds the key has its type.
LEMMA AtNodeIsErasure ==
    ASSUME Ordering, NEW t \in Trees, t # Nil, NEW rank \in Nat, NEW next \in Links
    PROVE  AtNode(t, rank, next) \in Erasures
<1>1. DeleteNode(t) \in Trees /\ <<t.value>> \in Seq(Value)
  BY DeleteNodeIsTree, TreeProperties
<1>2. rank + Size(t.left) \in Nat
  <2>1. Size(t.left) \in Nat
    BY TreeProperties
  <2> QED
    BY <2>1
<1>3. (IF t.right # Nil THEN <<LeftMost(t.right)>> ELSE next) \in Links
  BY TreeProperties, LeftMostDef, LinkProperties
<1> QED
  BY <1>1, <1>2, <1>3 DEF AtNode, Erasures, Erased

\* Erase, as a function of the rank so far and of the successor.
EraseFrom(n, k) ==
    LET erase[m \in Below(n)] == [rank \in Nat |-> [next \in Links |->
            IF m = Nil THEN Erased(Nil, rank, Nil, Nil)
            ELSE IF LessThan(Key(m), k)
            THEN [erase[m.right][rank + 1 + Size(m.left)][next]
                     EXCEPT !.root = MaybeRebalance(Node(m.left, m.value, @))]
            ELSE IF LessThan(k, Key(m))
            THEN [erase[m.left][rank][<<Key(m)>>]
                     EXCEPT !.root = MaybeRebalance(Node(@, m.value, m.right))]
            ELSE AtNode(m, rank, next)]]
    IN erase[n]

EraseFromStep(m, k, a, b) ==
    [rank \in Nat |-> [next \in Links |->
        IF LessThan(Key(m), k)
        THEN [b[rank + 1 + Size(m.left)][next]
                 EXCEPT !.root = MaybeRebalance(Node(m.left, m.value, @))]
        ELSE IF LessThan(k, Key(m))
        THEN [a[rank][<<Key(m)>>]
                 EXCEPT !.root = MaybeRebalance(Node(@, m.value, m.right))]
        ELSE AtNode(m, rank, next)]]

\* The function behind Erase() satisfies its definition,
LEMMA EraseFromDef ==
    ASSUME Ordering, NEW k \in KeyType
    PROVE  /\ EraseFrom(Nil, k) = [rank \in Nat |-> [next \in Links |-> Erased(Nil, rank, Nil, Nil)]]
           /\ \A t \in Trees :
                 /\ EraseFrom(t, k) \in [Nat -> [Links -> Erasures]]
                 /\ t # Nil => EraseFrom(t, k) = EraseFromStep(t, k, EraseFrom(t.left, k), EraseFrom(t.right, k))
<1> DEFINE C == [Nat -> [Links -> Erasures]]
           D == (Trees \ {Nil}) \X C \X C
           base == [rank \in Nat |-> [next \in Links |-> Erased(Nil, rank, Nil, Nil)]]
           step == [x \in D |-> EraseFromStep(x[1], k, x[2], x[3])]
<1>1. base \in C
  BY NilProperties, LinkProperties DEF Erasures, Erased, Nil
<1>2. ASSUME NEW m \in Trees \ {Nil}, NEW a \in C, NEW b \in C
      PROVE  EraseFromStep(m, k, a, b) \in C
  <2>1. /\ m.left \in Trees /\ m.right \in Trees /\ m.value \in Value
        /\ Size(m.left) \in Nat
        /\ <<Key(m)>> \in Links
    BY TreeProperties, KeyIsTyped, LinkProperties
  <2>2. ASSUME NEW n \in Trees
        PROVE  /\ MaybeRebalance(Node(m.left, m.value, n)) \in Trees
               /\ MaybeRebalance(Node(n, m.value, m.right)) \in Trees
    BY <2>1, RebalanceIsTree
  <2>3. ASSUME NEW rank \in Nat, NEW next \in Links
        PROVE  /\ [b[rank + 1 + Size(m.left)][next] EXCEPT !.root = MaybeRebalance(Node(m.left, m.value, @))]
                     \in Erasures
               /\ [a[rank][<<Key(m)>>] EXCEPT !.root = MaybeRebalance(Node(@, m.value, m.right))] \in Erasures
               /\ AtNode(m, rank, next) \in Erasures
    <3>1. rank + 1 + Size(m.left) \in Nat
      BY <2>1
    <3>2. b[rank + 1 + Size(m.left)][next] \in Erasures /\ a[rank][<<Key(m)>>] \in Erasures
      BY <2>1, <3>1
    <3>3. AtNode(m, rank, next) \in Erasures
      BY AtNodeIsErasure
    <3> QED
      BY <2>2, <3>2, <3>3 DEF Erasures
  <2> QED
    BY <2>3 DEF EraseFromStep
<1> HIDE DEF C, base
<1>3. step \in [D -> C]
  BY <1>2
<1>4. PICK F : Steps(F, C, D, base, step)
  <2>1. D = (Trees \ {Nil}) \X C \X C
    OBVIOUS
  <2> HIDE DEF step, D
  <2> QED
    BY ONLY <1>1, <1>3, <2>1, TreeRecursionSteps
<1>5. /\ F[Nil] = base
      /\ \A m \in Trees : F[m] \in C
      /\ \A m \in Trees : m # Nil => F[m] = EraseFromStep(m, k, F[m.left], F[m.right])
  BY <1>4 DEF Steps
<1> HIDE DEF D, step
<1>6. ASSUME NEW t \in Trees
      PROVE  EraseFrom(t, k) = F[t]
  <2> DEFINE Body(f) == [m \in Below(t) |->
               [rank \in Nat |-> [next \in Links |->
                   IF m = Nil THEN Erased(Nil, rank, Nil, Nil)
                   ELSE IF LessThan(Key(m), k)
                   THEN [f[m.right][rank + 1 + Size(m.left)][next]
                            EXCEPT !.root = MaybeRebalance(Node(m.left, m.value, @))]
                   ELSE IF LessThan(k, Key(m))
                   THEN [f[m.left][rank][<<Key(m)>>]
                            EXCEPT !.root = MaybeRebalance(Node(@, m.value, m.right))]
                   ELSE AtNode(m, rank, next)]]]
             g == [m \in Below(t) |-> F[m]]
             h == CHOOSE f : f = Body(f)
  <2>1. /\ t \in Below(t) /\ Nil \in Below(t)
        /\ \A m \in Below(t) : m \in Trees
        /\ \A m \in Below(t) : m # Nil => m.left \in Below(t) /\ m.right \in Below(t)
    BY TreeIsBelow, NilIsBelow
  <2>2. \A f : Body(f) = [m \in Below(t) |-> IF m = Nil THEN base ELSE EraseFromStep(m, k, f[m.left], f[m.right])]
    <3> DEFINE Row(m, f) ==
               [rank \in Nat |-> [next \in Links |->
                   IF m = Nil THEN Erased(Nil, rank, Nil, Nil)
                   ELSE IF LessThan(Key(m), k)
                   THEN [f[m.right][rank + 1 + Size(m.left)][next]
                            EXCEPT !.root = MaybeRebalance(Node(m.left, m.value, @))]
                   ELSE IF LessThan(k, Key(m))
                   THEN [f[m.left][rank][<<Key(m)>>]
                            EXCEPT !.root = MaybeRebalance(Node(@, m.value, m.right))]
                   ELSE AtNode(m, rank, next)]]
    <3>1. ASSUME NEW f, NEW m
          PROVE  Row(m, f) = IF m = Nil THEN base ELSE EraseFromStep(m, k, f[m.left], f[m.right])
      <4>1. m = Nil => Row(m, f) = base
        BY DEF base
      <4>2. m # Nil => Row(m, f) = EraseFromStep(m, k, f[m.left], f[m.right])
        BY DEF EraseFromStep
      <4> HIDE DEF Row
      <4> QED
        BY <4>1, <4>2
    <3>2. \A f : Body(f) = [m \in Below(t) |-> Row(m, f)]
      OBVIOUS
    <3> HIDE DEF Row, Body
    <3> QED
      BY <3>1, <3>2
  <2>3. EraseFrom(t, k) = h[t]
    BY DEF EraseFrom
  <2> HIDE DEF Body
  <2>4. g = Body(g)
    BY <1>5, <2>1, <2>2
  <2>5. h = Body(h)
    <3> HIDE DEF g
    <3> QED
      BY <2>4
  <2> HIDE DEF h
  <2>6. /\ h[Nil] = base
        /\ \A m \in Below(t) : m # Nil => h[m] = EraseFromStep(m, k, h[m.left], h[m.right])
    BY <2>1, <2>2, <2>5
  <2>7. CASE t = Nil
    BY <1>5, <2>3, <2>6, <2>7
  <2>8. CASE t # Nil
    <3>1. ASSUME NEW m \in Below(t), m \in Trees, m # Nil,
                 m.left # Nil => h[m.left] = F[m.left],
                 m.right # Nil => h[m.right] = F[m.right]
          PROVE  h[m] = F[m]
      <4>1. h[m.left] = F[m.left] /\ h[m.right] = F[m.right]
        BY <1>5, <2>6, <3>1, SMTT(30)
      <4> QED
        BY <1>5, <2>6, <3>1, <4>1, SMTT(30)
    <3>2. h[t] = F[t]
      BY <2>8, <3>1, SameBelow
    <3> QED
      BY <2>3, <3>2
  <2> QED
    BY <2>7, <2>8
<1>7. \A t \in Trees : t # Nil => t.left \in Trees /\ t.right \in Trees
  BY TreeProperties
<1> QED
  BY <1>5, <1>6, <1>7, NilProperties DEF C, base

\* and so does Erase(), in each of its cases.
LEMMA EraseDef ==
    ASSUME Ordering, NEW t \in Trees, NEW k \in KeyType, NEW rank \in Nat, NEW next \in Links
    PROVE  /\ Erase(t, k, rank, next) \in Erasures
           /\ t = Nil => Erase(t, k, rank, next) = Erased(Nil, rank, Nil, Nil)
           /\ t # Nil /\ LessThan(Key(t), k) =>
                 LET sub == Erase(t.right, k, rank + 1 + Size(t.left), next)
                 IN  /\ sub \in Erasures
                     /\ Erase(t, k, rank, next) =
                          Erased(MaybeRebalance(Node(t.left, t.value, sub.root)),
                                 sub.rank, sub.successor, sub.extracted)
           /\ t # Nil /\ ~LessThan(Key(t), k) /\ LessThan(k, Key(t)) =>
                 LET sub == Erase(t.left, k, rank, <<Key(t)>>)
                 IN  /\ sub \in Erasures
                     /\ Erase(t, k, rank, next) =
                          Erased(MaybeRebalance(Node(sub.root, t.value, t.right)),
                                 sub.rank, sub.successor, sub.extracted)
           /\ t # Nil /\ ~LessThan(Key(t), k) /\ ~LessThan(k, Key(t)) =>
                 Erase(t, k, rank, next) = AtNode(t, rank, next)
<1>1. \A n, r, x : Erase(n, k, r, x) = EraseFrom(n, k)[r][x]
  BY DEF Erase, EraseFrom
<1>2. \A n \in Trees : \A r \in Nat : \A x \in Links : Erase(n, k, r, x) \in Erasures
  <2>1. \A n \in Trees : EraseFrom(n, k) \in [Nat -> [Links -> Erasures]]
    BY EraseFromDef
  <2> QED
    BY <1>1, <2>1
<1>3. CASE t = Nil
  <2>1. EraseFrom(Nil, k) = [r \in Nat |-> [x \in Links |-> Erased(Nil, r, Nil, Nil)]]
    BY EraseFromDef
  <2> QED
    BY <1>1, <1>2, <1>3, <2>1
<1>4. CASE t # Nil
  <2> DEFINE right == Erase(t.right, k, rank + 1 + Size(t.left), next)
             left == Erase(t.left, k, rank, <<Key(t)>>)
  <2>1. EraseFrom(t, k) = EraseFromStep(t, k, EraseFrom(t.left, k), EraseFrom(t.right, k))
    BY <1>4, EraseFromDef
  <2>2. /\ right = EraseFrom(t.right, k)[rank + 1 + Size(t.left)][next]
        /\ left = EraseFrom(t.left, k)[rank][<<Key(t)>>]
    BY <1>1
  <2>3. right \in Erasures /\ left \in Erasures
    <3>1. t.left \in Trees /\ t.right \in Trees /\ Size(t.left) \in Nat /\ <<Key(t)>> \in Links
      BY <1>4, TreeProperties, KeyIsTyped, LinkProperties
    <3>2. rank + 1 + Size(t.left) \in Nat
      BY <3>1
    <3> QED
      BY <1>2, <3>1, <3>2
  <2>4. Erase(t, k, rank, next) =
          IF LessThan(Key(t), k)
          THEN [right EXCEPT !.root = MaybeRebalance(Node(t.left, t.value, @))]
          ELSE IF LessThan(k, Key(t))
          THEN [left EXCEPT !.root = MaybeRebalance(Node(@, t.value, t.right))]
          ELSE AtNode(t, rank, next)
    <3> DEFINE a == EraseFrom(t.left, k)
               b == EraseFrom(t.right, k)
    <3> HIDE DEF a, b
    <3>1. EraseFromStep(t, k, a, b)[rank][next] =
            IF LessThan(Key(t), k)
            THEN [b[rank + 1 + Size(t.left)][next] EXCEPT !.root = MaybeRebalance(Node(t.left, t.value, @))]
            ELSE IF LessThan(k, Key(t))
            THEN [a[rank][<<Key(t)>>] EXCEPT !.root = MaybeRebalance(Node(@, t.value, t.right))]
            ELSE AtNode(t, rank, next)
      BY DEF EraseFromStep
    <3>2. Erase(t, k, rank, next) = EraseFromStep(t, k, a, b)[rank][next]
      BY <1>1, <2>1 DEF a, b
    <3>3. right = b[rank + 1 + Size(t.left)][next] /\ left = a[rank][<<Key(t)>>]
      BY <2>2 DEF a, b
    <3> HIDE DEF right, left
    <3> QED
      BY <3>1, <3>2, <3>3, Zenon
  <2> HIDE DEF right, left
  <2>5. ASSUME NEW sub \in Erasures, NEW n
        PROVE  [sub EXCEPT !.root = n] = Erased(n, sub.rank, sub.successor, sub.extracted)
    BY DEF Erasures, Erased
  <2>6. /\ [right EXCEPT !.root = MaybeRebalance(Node(t.left, t.value, @))] =
             Erased(MaybeRebalance(Node(t.left, t.value, right.root)),
                    right.rank, right.successor, right.extracted)
        /\ [left EXCEPT !.root = MaybeRebalance(Node(@, t.value, t.right))] =
             Erased(MaybeRebalance(Node(left.root, t.value, t.right)),
                    left.rank, left.successor, left.extracted)
    BY <2>3, <2>5
  <2>7. Erase(t, k, rank, next) \in Erasures
    BY <1>2
  <2> QED
    BY <1>4, <2>3, <2>4, <2>6, <2>7 DEF right, left
<1> QED
  BY <1>3, <1>4

-----------------------------------------------------------------------------
(* The values of a search tree                                             *)

\* The parts of a search tree have no value in common.
LEMMA PartsAreDisjoint ==
    ASSUME Ordering, NEW left \in Trees, NEW right \in Trees, NEW value \in Value,
           Ordered(Node(left, value, right))
    PROVE  /\ Ordered(left) /\ Ordered(right)
           /\ \A u \in Values(left) : LessThan(KeyOf(u), KeyOf(value)) /\ ~LessThan(KeyOf(value), KeyOf(u))
           /\ \A u \in Values(right) : LessThan(KeyOf(value), KeyOf(u)) /\ ~LessThan(KeyOf(u), KeyOf(value))
           /\ \A u \in Values(left), w \in Values(right) :
                 LessThan(KeyOf(u), KeyOf(w)) /\ ~LessThan(KeyOf(w), KeyOf(u))
           /\ value \notin Values(left) /\ value \notin Values(right)
           /\ Values(left) \cap Values(right) = {}
           /\ \A u \in Values(left) \cup Values(right) : KeyOf(u) # KeyOf(value)
           /\ \A u \in Values(left), w \in Values(right) : KeyOf(u) # KeyOf(w)
<1>1. /\ Ordered(left) /\ Ordered(right)
      /\ \A k \in Keys(left) : LessThan(k, KeyOf(value))
      /\ \A k \in Keys(right) : LessThan(KeyOf(value), k)
  BY OrderedNode
<1>2. /\ Values(left) \subseteq Value /\ Values(right) \subseteq Value
      /\ \A u \in Values(left) : KeyOf(u) \in Keys(left)
      /\ \A u \in Values(right) : KeyOf(u) \in Keys(right)
  BY ContentProperties
<1>3. KeyOf(value) \in KeyType /\ \A u \in Values(left) \cup Values(right) : KeyOf(u) \in KeyType
  BY <1>2 DEF Ordering
<1>4. /\ \A u \in Values(left) : LessThan(KeyOf(u), KeyOf(value))
      /\ \A u \in Values(right) : LessThan(KeyOf(value), KeyOf(u))
  BY <1>1, <1>2
<1>5. \A j, k \in KeyType : LessThan(j, k) => ~LessThan(k, j) /\ j # k
  BY DEF Ordering
<1>6. \A u \in Values(left), w \in Values(right) : LessThan(KeyOf(u), KeyOf(w))
  BY <1>3, <1>4 DEF Ordering
<1>7. /\ \A u \in Values(left) : ~LessThan(KeyOf(value), KeyOf(u)) /\ KeyOf(u) # KeyOf(value)
      /\ \A u \in Values(right) : ~LessThan(KeyOf(u), KeyOf(value)) /\ KeyOf(u) # KeyOf(value)
      /\ \A u \in Values(left), w \in Values(right) : ~LessThan(KeyOf(w), KeyOf(u)) /\ KeyOf(u) # KeyOf(w)
  BY <1>3, <1>4, <1>5, <1>6
<1>8. Values(left) \cap Values(right) = {}
  BY <1>7
<1> QED
  BY <1>1, <1>4, <1>6, <1>7, <1>8

\* The number of elements of a node and two subtrees.
LEMMA CardinalityOfParts ==
    ASSUME NEW A, NEW B, NEW x, IsFiniteSet(A), IsFiniteSet(B),
           A \cap B = {}, x \notin A, x \notin B
    PROVE  /\ IsFiniteSet({x} \cup A \cup B)
           /\ Cardinality({x} \cup A \cup B) = 1 + Cardinality(A) + Cardinality(B)
           /\ IsFiniteSet(A \cup B)
           /\ Cardinality(A \cup B) = Cardinality(A) + Cardinality(B)
           /\ Cardinality(A) \in Nat /\ Cardinality(B) \in Nat
<1>1. /\ IsFiniteSet(A \cup B)
      /\ Cardinality(A \cup B) = Cardinality(A) + Cardinality(B) - Cardinality(A \cap B)
  BY FS_Union
<1>2. Cardinality({}) = 0
  BY FS_EmptySet
<1>3. Cardinality(A) \in Nat /\ Cardinality(B) \in Nat
  BY FS_CardinalityType
<1>4. Cardinality(A \cup B) = Cardinality(A) + Cardinality(B)
  <2>1. Cardinality(A \cap B) = 0
    BY <1>2, Zenon
  <2> QED
    BY <1>1, <1>3, <2>1
<1>5. /\ IsFiniteSet((A \cup B) \cup {x})
      /\ Cardinality((A \cup B) \cup {x}) = Cardinality(A \cup B) + 1
  BY <1>1, FS_AddElement
<1>6. {x} \cup A \cup B = (A \cup B) \cup {x}
  OBVIOUS
<1> QED
  BY <1>1, <1>3, <1>4, <1>5, <1>6

\* A search tree has as many values, and as many nodes, as its size says.
LEMMA SizeCounts ==
    ASSUME Ordering, NEW t \in Trees, Ordered(t)
    PROVE  /\ IsFiniteSet(Values(t)) /\ Cardinality(Values(t)) = Size(t)
           /\ IsFiniteSet(Nodes(t)) /\ Cardinality(Nodes(t)) = Size(t)
<1> DEFINE P == {n \in Trees : Ordered(n) =>
                    /\ IsFiniteSet(Values(n)) /\ Cardinality(Values(n)) = Size(n)
                    /\ IsFiniteSet(Nodes(n)) /\ Cardinality(Nodes(n)) = Size(n)}
<1>1. Nil \in P
  BY ContentOfNil, NodesDef, NilProperties, FS_EmptySet
<1>2. ASSUME NEW left \in Trees, NEW right \in Trees, NEW value \in Value,
             left \in P, right \in P
      PROVE  Node(left, value, right) \in P
  <2> DEFINE n == Node(left, value, right)
  <2>1. n \in Trees /\ Size(n) = 1 + Size(left) + Size(right)
    BY NodeIsTree, NodeProperties
  <2> SUFFICES ASSUME Ordered(n)
               PROVE  /\ IsFiniteSet(Values(n)) /\ Cardinality(Values(n)) = Size(n)
                      /\ IsFiniteSet(Nodes(n)) /\ Cardinality(Nodes(n)) = Size(n)
    BY <2>1
  <2>2. /\ Ordered(left) /\ Ordered(right)
        /\ value \notin Values(left) /\ value \notin Values(right)
        /\ Values(left) \cap Values(right) = {}
    BY PartsAreDisjoint
  <2>3. Values(n) = {value} \cup Values(left) \cup Values(right)
    BY ContentOfNode
  <2>4. Nodes(n) = {n} \cup Nodes(left) \cup Nodes(right)
    BY NodesOfNode
  <2>5. n.value = value
    BY NodeProperties
  <2> HIDE DEF n
  <2>6. n \notin Nodes(left) /\ n \notin Nodes(right) /\ Nodes(left) \cap Nodes(right) = {}
    BY <2>2, <2>5 DEF Values
  <2>7. /\ IsFiniteSet(Values(left)) /\ Cardinality(Values(left)) = Size(left)
        /\ IsFiniteSet(Nodes(left)) /\ Cardinality(Nodes(left)) = Size(left)
        /\ IsFiniteSet(Values(right)) /\ Cardinality(Values(right)) = Size(right)
        /\ IsFiniteSet(Nodes(right)) /\ Cardinality(Nodes(right)) = Size(right)
    BY <1>2, <2>2
  <2>8. IsFiniteSet(Values(n)) /\ Cardinality(Values(n)) = Size(n)
    <3>1. /\ IsFiniteSet({value} \cup Values(left) \cup Values(right))
          /\ Cardinality({value} \cup Values(left) \cup Values(right)) =
                1 + Cardinality(Values(left)) + Cardinality(Values(right))
      BY <2>2, <2>7, CardinalityOfParts
    <3> QED
      BY <2>1, <2>3, <2>7, <3>1
  <2>9. IsFiniteSet(Nodes(n)) /\ Cardinality(Nodes(n)) = Size(n)
    <3>1. /\ IsFiniteSet({n} \cup Nodes(left) \cup Nodes(right))
          /\ Cardinality({n} \cup Nodes(left) \cup Nodes(right)) =
                1 + Cardinality(Nodes(left)) + Cardinality(Nodes(right))
      BY <2>6, <2>7, CardinalityOfParts
    <3> QED
      BY <2>1, <2>4, <2>7, <3>1
  <2> QED
    BY <2>8, <2>9
<1>3. Trees \subseteq P
  <2> HIDE DEF P
  <2> QED
    BY <1>1, <1>2, TreeInduction
<1> QED
  BY <1>3

\* No two values of a search tree have one key.
LEMMA KeysDiffer ==
    ASSUME Ordering, NEW t \in Trees, Ordered(t)
    PROVE  \A u, w \in Values(t) : KeyOf(u) = KeyOf(w) => u = w
<1> DEFINE P == {n \in Trees : Ordered(n) => \A u, w \in Values(n) : KeyOf(u) = KeyOf(w) => u = w}
<1>1. Nil \in P
  BY ContentOfNil, NilProperties
<1>2. ASSUME NEW left \in Trees, NEW right \in Trees, NEW value \in Value,
             left \in P, right \in P
      PROVE  Node(left, value, right) \in P
  <2> DEFINE n == Node(left, value, right)
  <2>1. n \in Trees
    BY NodeIsTree
  <2> SUFFICES ASSUME Ordered(n), NEW u \in Values(n), NEW w \in Values(n), KeyOf(u) = KeyOf(w)
               PROVE  u = w
    BY <2>1
  <2>2. /\ Ordered(left) /\ Ordered(right)
        /\ \A x \in Values(left) \cup Values(right) : KeyOf(x) # KeyOf(value)
        /\ \A x \in Values(left), y \in Values(right) : KeyOf(x) # KeyOf(y)
    BY PartsAreDisjoint
  <2>3. Values(n) = {value} \cup Values(left) \cup Values(right)
    BY ContentOfNode
  <2> HIDE DEF n
  <2> QED
    BY <1>2, <2>2, <2>3
<1>3. Trees \subseteq P
  <2> HIDE DEF P
  <2> QED
    BY <1>1, <1>2, TreeInduction
<1> QED
  BY <1>3

\* Of a search tree every node is the root of one.
LEMMA NodesOfTree ==
    ASSUME NEW t \in Trees
    PROVE  \A n \in Nodes(t) : n \in Trees /\ n # Nil /\ Nodes(n) \subseteq Nodes(t)
<1> DEFINE P == {m \in Trees : \A n \in Nodes(m) : Nodes(n) \subseteq Nodes(m)}
<1>1. Nil \in P
  BY NodesDef, NilProperties
<1>2. ASSUME NEW left \in Trees, NEW right \in Trees, NEW value \in Value,
             left \in P, right \in P
      PROVE  Node(left, value, right) \in P
  <2> DEFINE m == Node(left, value, right)
  <2>1. m \in Trees /\ Nodes(m) = {m} \cup Nodes(left) \cup Nodes(right)
    BY NodesOfNode, NodeIsTree
  <2> HIDE DEF m
  <2>2. m \in P
    BY <1>2, <2>1
  <2> QED
    BY <2>2 DEF m
<1>3. Trees \subseteq P
  <2> HIDE DEF P
  <2> QED
    BY <1>1, <1>2, TreeInduction
<1> QED
  BY <1>3, NodesDef

\* A tree in order is a search tree with right sizes, as the runs check it.
LEMMA OrderedIsSearchTree ==
    ASSUME Ordering, NEW t \in Trees, Ordered(t)
    PROVE  IsSearchTree(t)
<1> SUFFICES ASSUME NEW n \in Nodes(t)
             PROVE  n.size = Cardinality(Nodes(n))
  BY DEF IsSearchTree, Ordered
<1>1. n \in Trees /\ n # Nil /\ Nodes(n) \subseteq Nodes(t)
  BY NodesOfTree
<1>2. Ordered(n)
  BY <1>1 DEF Ordered
<1>3. n.size = Size(n)
  BY <1>1 DEF Size
<1> QED
  BY <1>1, <1>2, <1>3, SizeCounts

-----------------------------------------------------------------------------
(* Ranks                                                                   *)

\* How many keys of a tree are less than k.
RankIn(t, k) == Cardinality({u \in Values(t) : LessThan(KeyOf(u), k)})

\* The rank of a key in a node is found on the way down to it: to the right it
\* counts the node and its left subtree.
LEMMA RankInNode ==
    ASSUME Ordering, NEW left \in Trees, NEW right \in Trees, NEW value \in Value,
           Ordered(Node(left, value, right)), NEW k \in KeyType
    PROVE  /\ RankIn(left, k) \in Nat /\ RankIn(right, k) \in Nat
           /\ LessThan(KeyOf(value), k) =>
                 RankIn(Node(left, value, right), k) = 1 + Size(left) + RankIn(right, k)
           /\ ~LessThan(KeyOf(value), k) =>
                 RankIn(Node(left, value, right), k) = RankIn(left, k)
           /\ k = KeyOf(value) => RankIn(left, k) = Size(left)
           /\ k = KeyOf(value) => RankIn(Node(left, value, right), k) = Size(left)
<1> DEFINE n == Node(left, value, right)
           L(t) == {u \in Values(t) : LessThan(KeyOf(u), k)}
<1>1. /\ Ordered(left) /\ Ordered(right)
      /\ \A u \in Values(left) : LessThan(KeyOf(u), KeyOf(value)) /\ ~LessThan(KeyOf(value), KeyOf(u))
      /\ \A u \in Values(right) : LessThan(KeyOf(value), KeyOf(u)) /\ ~LessThan(KeyOf(u), KeyOf(value))
      /\ value \notin Values(left) /\ value \notin Values(right)
      /\ Values(left) \cap Values(right) = {}
  BY PartsAreDisjoint
<1>2. Values(n) = {value} \cup Values(left) \cup Values(right)
  BY ContentOfNode
<1>3. /\ IsFiniteSet(Values(left)) /\ Cardinality(Values(left)) = Size(left)
      /\ IsFiniteSet(Values(right)) /\ Cardinality(Values(right)) = Size(right)
      /\ Size(left) \in Nat
  BY <1>1, SizeCounts, TreeProperties
<1>4. /\ KeyOf(value) \in KeyType
      /\ \A u \in Values(left) \cup Values(right) : KeyOf(u) \in KeyType
  BY ContentProperties DEF Ordering
<1> HIDE DEF n
<1>5. IsFiniteSet(L(left)) /\ IsFiniteSet(L(right))
  BY <1>3, FS_Subset
<1>6. Cardinality(L(left)) \in Nat /\ Cardinality(L(right)) \in Nat
  BY <1>5, FS_CardinalityType
<1>7. ASSUME LessThan(KeyOf(value), k)
      PROVE  RankIn(n, k) = 1 + Size(left) + RankIn(right, k)
  <2>1. \A u \in Values(left) : LessThan(KeyOf(u), k)
    BY <1>1, <1>4, <1>7 DEF Ordering
  <2>2. L(n) = {value} \cup Values(left) \cup L(right)
    BY <1>2, <1>7, <2>1
  <2>3. Values(left) \cap L(right) = {} /\ value \notin L(right)
    BY <1>1
  <2>4. Cardinality({value} \cup Values(left) \cup L(right)) =
          1 + Cardinality(Values(left)) + Cardinality(L(right))
    <3> DEFINE R == L(right)
    <3>1. IsFiniteSet(R) /\ Values(left) \cap R = {} /\ value \notin R
      BY <1>5, <2>3
    <3> HIDE DEF R
    <3>2. Cardinality({value} \cup Values(left) \cup R) = 1 + Cardinality(Values(left)) + Cardinality(R)
      BY <1>1, <1>3, <3>1, CardinalityOfParts
    <3> QED
      BY <3>2 DEF R
  <2> QED
    BY <1>3, <2>2, <2>4 DEF RankIn
<1>8. ASSUME ~LessThan(KeyOf(value), k)
      PROVE  RankIn(n, k) = RankIn(left, k)
  <2>1. \A u \in Values(right) : ~LessThan(KeyOf(u), k)
    BY <1>1, <1>4, <1>8 DEF Ordering
  <2>2. L(n) = L(left)
    BY <1>2, <1>8, <2>1
  <2> QED
    BY <2>2 DEF RankIn
<1>9. k = KeyOf(value) => RankIn(left, k) = Size(left) /\ ~LessThan(KeyOf(value), k)
  <2> SUFFICES ASSUME k = KeyOf(value)
               PROVE  RankIn(left, k) = Size(left) /\ ~LessThan(KeyOf(value), k)
    OBVIOUS
  <2>1. L(left) = Values(left)
    BY <1>1
  <2> QED
    BY <1>3, <1>4, <2>1 DEF RankIn, Ordering
<1> QED
  BY <1>6, <1>7, <1>8, <1>9 DEF n, RankIn

\* Nothing comes before a key in the empty tree.
LEMMA RankOfNil == \A k : RankIn(Nil, k) = 0
<1> SUFFICES ASSUME NEW k PROVE RankIn(Nil, k) = 0
  OBVIOUS
<1>1. {u \in Values(Nil) : LessThan(KeyOf(u), k)} = {}
  BY ContentOfNil
<1> QED
  BY <1>1, FS_EmptySet DEF RankIn

\* A rank is at most the size.
LEMMA RankIsBounded ==
    ASSUME Ordering, NEW t \in Trees, Ordered(t), NEW k
    PROVE  RankIn(t, k) \in Nat /\ RankIn(t, k) <= Size(t)
<1>1. IsFiniteSet(Values(t)) /\ Cardinality(Values(t)) = Size(t)
  BY SizeCounts
<1> DEFINE L == {u \in Values(t) : LessThan(KeyOf(u), k)}
<1>2. L \subseteq Values(t)
  OBVIOUS
<1> HIDE DEF L
<1>3. IsFiniteSet(L) /\ Cardinality(L) <= Cardinality(Values(t)) /\ Cardinality(L) \in Nat
  BY <1>1, <1>2, FS_Subset, FS_CardinalityType
<1> QED
  BY <1>1, <1>3 DEF RankIn, L

\* A tree with the nodes of two subtrees and a value between them.
Joins(m, left, value, right) ==
    /\ m \in Trees
    /\ Size(m) = 1 + Size(left) + Size(right)
    /\ Values(m) = {value} \cup Values(left) \cup Values(right)
    /\ Ordered(m) <=> /\ Ordered(left) /\ Ordered(right)
                      /\ \A u \in Values(left) : LessThan(KeyOf(u), KeyOf(value))
                      /\ \A u \in Values(right) : LessThan(KeyOf(value), KeyOf(u))

\* A node joins its subtrees and its value,
LEMMA NodeJoins ==
    ASSUME NEW left \in Trees, NEW right \in Trees, NEW value \in Value
    PROVE  Joins(Node(left, value, right), left, value, right)
<1>1. /\ \A k \in Keys(left) : \E u \in Values(left) : k = KeyOf(u)
      /\ \A u \in Values(left) : KeyOf(u) \in Keys(left)
      /\ \A k \in Keys(right) : \E u \in Values(right) : k = KeyOf(u)
      /\ \A u \in Values(right) : KeyOf(u) \in Keys(right)
  BY ContentProperties
<1> DEFINE n == Node(left, value, right)
<1>2. n \in Trees /\ Size(n) = 1 + Size(left) + Size(right)
  BY NodeIsTree, NodeProperties
<1>3. Values(n) = {value} \cup Values(left) \cup Values(right)
  BY ContentOfNode
<1>4. Ordered(n) <=> /\ Ordered(left) /\ Ordered(right)
                     /\ \A k \in Keys(left) : LessThan(k, KeyOf(value))
                     /\ \A k \in Keys(right) : LessThan(KeyOf(value), k)
  BY OrderedNode
<1> HIDE DEF n
<1> QED
  BY <1>1, <1>2, <1>3, <1>4 DEF Joins, n

\* also after MaybeRebalance.
LEMMA RebalancedJoins ==
    ASSUME Ordering, NEW left \in Trees, NEW right \in Trees, NEW value \in Value
    PROVE  Joins(MaybeRebalance(Node(left, value, right)), left, value, right)
<1> DEFINE n == Node(left, value, right)
           m == MaybeRebalance(n)
<1>1. Joins(n, left, value, right)
  BY NodeJoins
<1>2. Rearranges(m, n)
  BY RebalanceRearranges
<1> HIDE DEF m, n
<1>3. Joins(m, left, value, right)
  BY <1>1, <1>2 DEF Joins, Rearranges
<1> QED
  BY <1>3 DEF m, n

\* A change of one subtree by one node is made good by the rotations.
LEMMA RebalancedIsBalanced ==
    ASSUME NEW left \in Trees, NEW right \in Trees, NEW value \in Value,
           NEW l \in Trees, NEW r \in Trees, NEW w \in Value,
           Balanced(Node(left, value, right)), Balanced(l), Balanced(r),
           \/ Size(r) = Size(right) /\ Size(l) \in {Size(left) - 1, Size(left), Size(left) + 1}
           \/ Size(l) = Size(left) /\ Size(r) \in {Size(right) - 1, Size(right), Size(right) + 1}
    PROVE  Balanced(MaybeRebalance(Node(l, w, r)))
<1>1. Fits(Size(left), Size(right))
  BY BalancedNode, NodeInBalance
<1>2. Size(left) \in Nat /\ Size(right) \in Nat
  BY TreeProperties
<1>3. OffByOne(Size(l), Size(r))
  BY <1>1, <1>2 DEF OffByOne
<1> QED
  BY <1>3, RebalanceRestores

-----------------------------------------------------------------------------
(* Insertion                                                               *)

\* What insertion makes of a tree: its values with the new one, or, if its key
\* was there, with the new one in the place of the old one on request.
InsertResult(t, v, rank, assign, result) ==
    /\ result \in Insertions
    /\ Ordered(result.root)
    /\ Balanced(t) => Balanced(result.root)
    /\ result.did_insert =>
          /\ \A u \in Values(t) : KeyOf(u) # KeyOf(v)
          /\ Values(result.root) = {v} \cup Values(t)
          /\ Size(result.root) = Size(t) + 1
          /\ result.idx = rank + RankIn(t, KeyOf(v))
    /\ ~result.did_insert =>
          /\ \E u \in Values(t) : KeyOf(u) = KeyOf(v)
          /\ Values(result.root) =
                IF assign THEN {v} \cup {u \in Values(t) : KeyOf(u) # KeyOf(v)} ELSE Values(t)
          /\ Size(result.root) = Size(t)

\* Insert() at a node returns what it should if it does below.
LEMMA InsertResultOfNode ==
    ASSUME Ordering, NEW v \in Value, NEW assign \in BOOLEAN, NEW rank \in Nat,
           NEW left \in Trees, NEW right \in Trees, NEW value \in Value,
           Ordered(Node(left, value, right)),
           LessThan(KeyOf(value), KeyOf(v)) =>
              InsertResult(right, v, rank + Size(left) + 1, assign,
                           Insert(right, v, rank + Size(left) + 1, assign)),
           ~LessThan(KeyOf(value), KeyOf(v)) /\ LessThan(KeyOf(v), KeyOf(value)) =>
              InsertResult(left, v, rank, assign, Insert(left, v, rank, assign))
    PROVE  InsertResult(Node(left, value, right), v, rank, assign,
                        Insert(Node(left, value, right), v, rank, assign))
<1> DEFINE n == Node(left, value, right)
           result == Insert(n, v, rank, assign)
<1>1. /\ n \in Trees /\ n # Nil /\ n.left = left /\ n.right = right /\ n.value = value
      /\ Key(n) = KeyOf(value) /\ Size(n) = 1 + Size(left) + Size(right)
  BY NodeIsTree, NodeProperties
<1>2. /\ Ordered(left) /\ Ordered(right)
      /\ \A u \in Values(left) : LessThan(KeyOf(u), KeyOf(value)) /\ ~LessThan(KeyOf(value), KeyOf(u))
      /\ \A u \in Values(right) : LessThan(KeyOf(value), KeyOf(u)) /\ ~LessThan(KeyOf(u), KeyOf(value))
      /\ \A u \in Values(left) \cup Values(right) : KeyOf(u) # KeyOf(value)
  BY PartsAreDisjoint
<1>3. Values(n) = {value} \cup Values(left) \cup Values(right)
  BY ContentOfNode
<1>4. Size(left) \in Nat /\ Size(right) \in Nat
  BY TreeProperties
<1>5. /\ KeyOf(value) \in KeyType /\ KeyOf(v) \in KeyType
      /\ \A u \in Values(left) \cup Values(right) : KeyOf(u) \in KeyType
  BY ContentProperties DEF Ordering
<1>6. /\ LessThan(KeyOf(value), KeyOf(v)) =>
           RankIn(n, KeyOf(v)) = 1 + Size(left) + RankIn(right, KeyOf(v))
      /\ ~LessThan(KeyOf(value), KeyOf(v)) => RankIn(n, KeyOf(v)) = RankIn(left, KeyOf(v))
      /\ RankIn(left, KeyOf(v)) \in Nat /\ RankIn(right, KeyOf(v)) \in Nat
  BY <1>5, RankInNode
<1>7. result \in Insertions
  BY <1>1, InsertDef
<1>8. CASE LessThan(KeyOf(value), KeyOf(v))
  <2> DEFINE sub == Insert(right, v, rank + Size(left) + 1, assign)
             m == MaybeRebalance(Node(left, value, sub.root))
  <2>1. InsertResult(right, v, rank + Size(left) + 1, assign, sub)
    BY <1>8
  <2>2. sub \in Insertions /\ result = Inserted(m, sub.idx, sub.did_insert)
    <3> HIDE DEF n
    <3>1. LET s == Insert(n.right, v, rank + Size(n.left) + 1, assign)
          IN  /\ s \in Insertions
              /\ Insert(n, v, rank, assign) =
                   Inserted(MaybeRebalance(Node(n.left, n.value, s.root)), s.idx, s.did_insert)
      <4>1. n \in Trees /\ n # Nil /\ LessThan(Key(n), KeyOf(v))
        BY <1>1, <1>8, Zenon
      <4> QED
        BY <4>1, InsertDef, ZenonT(60)
    <3> QED
      BY <1>1, <3>1, ZenonT(60)
  <2>3. sub.root \in Trees /\ sub.idx \in Nat /\ sub.did_insert \in BOOLEAN
    BY <2>2 DEF Insertions
  <2>4. Joins(m, left, value, sub.root)
    BY <2>3, RebalancedJoins
  <2>5. result.root = m /\ result.idx = sub.idx /\ result.did_insert = sub.did_insert
    BY <2>2 DEF Inserted
  <2>6. ASSUME Balanced(n) PROVE Balanced(m)
    <3>1. Balanced(left) /\ Balanced(right)
      BY <2>6, BalancedNode
    <3>2. Size(sub.root) \in {Size(right), Size(right) + 1} /\ Balanced(sub.root)
      BY <2>1, <2>3, <3>1 DEF InsertResult
    <3> HIDE DEF sub
    <3> QED
      BY <2>3, <2>6, <3>1, <3>2, RebalancedIsBalanced
  <2> HIDE DEF sub, m, result, n
  <2>7. \A u \in Values(sub.root) : LessThan(KeyOf(value), KeyOf(u))
    BY <1>2, <1>8, <2>1, <2>3 DEF InsertResult
  <2>8. Ordered(m)
    BY <1>2, <2>1, <2>4, <2>7 DEF InsertResult, Joins
  <2>9. \A u \in {value} \cup Values(left) : KeyOf(u) # KeyOf(v)
    BY <1>2, <1>5, <1>8 DEF Ordering
  <2>10. ASSUME result.did_insert
         PROVE  /\ \A u \in Values(n) : KeyOf(u) # KeyOf(v)
                /\ Values(m) = {v} \cup Values(n)
                /\ Size(m) = Size(n) + 1
                /\ result.idx = rank + RankIn(n, KeyOf(v))
    <3>1. /\ \A u \in Values(right) : KeyOf(u) # KeyOf(v)
          /\ Values(sub.root) = {v} \cup Values(right)
          /\ Size(sub.root) = Size(right) + 1
          /\ sub.idx = rank + Size(left) + 1 + RankIn(right, KeyOf(v))
      BY <2>1, <2>5, <2>10 DEF InsertResult
    <3>2. Values(m) = {value} \cup Values(left) \cup Values(sub.root) /\ Size(m) = 1 + Size(left) + Size(sub.root)
      BY <2>4 DEF Joins
    <3>3. Size(m) = Size(n) + 1
      BY <1>1, <1>4, <3>1, <3>2
    <3>4. result.idx = rank + RankIn(n, KeyOf(v))
      BY <1>4, <1>6, <1>8, <2>5, <3>1
    <3> QED
      BY <1>3, <2>9, <3>1, <3>2, <3>3, <3>4
  <2>11. ASSUME ~result.did_insert
         PROVE  /\ \E u \in Values(n) : KeyOf(u) = KeyOf(v)
                /\ Values(m) = IF assign THEN {v} \cup {u \in Values(n) : KeyOf(u) # KeyOf(v)} ELSE Values(n)
                /\ Size(m) = Size(n)
    <3>1. /\ \E u \in Values(right) : KeyOf(u) = KeyOf(v)
          /\ Values(sub.root) =
                IF assign THEN {v} \cup {u \in Values(right) : KeyOf(u) # KeyOf(v)} ELSE Values(right)
          /\ Size(sub.root) = Size(right)
      BY <2>1, <2>5, <2>11 DEF InsertResult
    <3>2. Values(m) = {value} \cup Values(left) \cup Values(sub.root) /\ Size(m) = 1 + Size(left) + Size(sub.root)
      BY <2>4 DEF Joins
    <3>3. {u \in Values(n) : KeyOf(u) # KeyOf(v)} =
             {value} \cup Values(left) \cup {u \in Values(right) : KeyOf(u) # KeyOf(v)}
      BY <1>3, <2>9
    <3>4. Size(m) = Size(n)
      BY <1>1, <3>1, <3>2
    <3>5. CASE assign
      BY <1>3, <3>1, <3>2, <3>3, <3>4, <3>5
    <3>6. CASE ~assign
      BY <1>3, <3>1, <3>2, <3>4, <3>6
    <3> QED
      BY <3>5, <3>6
  <2>12. InsertResult(n, v, rank, assign, result)
    BY <1>7, <2>5, <2>6, <2>8, <2>10, <2>11 DEF InsertResult
  <2> QED
    BY <2>12 DEF n, result
<1>9. CASE ~LessThan(KeyOf(value), KeyOf(v)) /\ LessThan(KeyOf(v), KeyOf(value))
  <2> DEFINE sub == Insert(left, v, rank, assign)
             m == MaybeRebalance(Node(sub.root, value, right))
  <2>1. InsertResult(left, v, rank, assign, sub)
    BY <1>9
  <2>2. sub \in Insertions /\ result = Inserted(m, sub.idx, sub.did_insert)
    <3> HIDE DEF n
    <3>1. LET s == Insert(n.left, v, rank, assign)
          IN  /\ s \in Insertions
              /\ Insert(n, v, rank, assign) =
                   Inserted(MaybeRebalance(Node(s.root, n.value, n.right)), s.idx, s.did_insert)
      <4>1. n \in Trees /\ n # Nil /\ ~LessThan(Key(n), KeyOf(v)) /\ LessThan(KeyOf(v), Key(n))
        BY <1>1, <1>9, Zenon
      <4> QED
        BY <4>1, InsertDef, ZenonT(60)
    <3> QED
      BY <1>1, <3>1, ZenonT(60)
  <2>3. sub.root \in Trees /\ sub.idx \in Nat /\ sub.did_insert \in BOOLEAN
    BY <2>2 DEF Insertions
  <2>4. Joins(m, sub.root, value, right)
    BY <2>3, RebalancedJoins
  <2>5. result.root = m /\ result.idx = sub.idx /\ result.did_insert = sub.did_insert
    BY <2>2 DEF Inserted
  <2>6. ASSUME Balanced(n) PROVE Balanced(m)
    <3>1. Balanced(left) /\ Balanced(right)
      BY <2>6, BalancedNode
    <3>2. Size(sub.root) \in {Size(left), Size(left) + 1} /\ Balanced(sub.root)
      BY <2>1, <2>3, <3>1 DEF InsertResult
    <3> HIDE DEF sub
    <3> QED
      BY <2>3, <2>6, <3>1, <3>2, RebalancedIsBalanced
  <2> HIDE DEF sub, m, result, n
  <2>7. \A u \in Values(sub.root) : LessThan(KeyOf(u), KeyOf(value))
    BY <1>2, <1>9, <2>1, <2>3 DEF InsertResult
  <2>8. Ordered(m)
    BY <1>2, <2>1, <2>4, <2>7 DEF InsertResult, Joins
  <2>9. \A u \in {value} \cup Values(right) : KeyOf(u) # KeyOf(v)
    BY <1>2, <1>5, <1>9 DEF Ordering
  <2>10. ASSUME result.did_insert
         PROVE  /\ \A u \in Values(n) : KeyOf(u) # KeyOf(v)
                /\ Values(m) = {v} \cup Values(n)
                /\ Size(m) = Size(n) + 1
                /\ result.idx = rank + RankIn(n, KeyOf(v))
    <3>1. /\ \A u \in Values(left) : KeyOf(u) # KeyOf(v)
          /\ Values(sub.root) = {v} \cup Values(left)
          /\ Size(sub.root) = Size(left) + 1
          /\ sub.idx = rank + RankIn(left, KeyOf(v))
      BY <2>1, <2>5, <2>10 DEF InsertResult
    <3>2. Values(m) = {value} \cup Values(sub.root) \cup Values(right) /\ Size(m) = 1 + Size(sub.root) + Size(right)
      BY <2>4 DEF Joins
    <3>3. Size(m) = Size(n) + 1
      BY <1>1, <1>4, <3>1, <3>2
    <3>4. result.idx = rank + RankIn(n, KeyOf(v))
      BY <1>6, <1>9, <2>5, <3>1
    <3> QED
      BY <1>3, <2>9, <3>1, <3>2, <3>3, <3>4
  <2>11. ASSUME ~result.did_insert
         PROVE  /\ \E u \in Values(n) : KeyOf(u) = KeyOf(v)
                /\ Values(m) = IF assign THEN {v} \cup {u \in Values(n) : KeyOf(u) # KeyOf(v)} ELSE Values(n)
                /\ Size(m) = Size(n)
    <3>1. /\ \E u \in Values(left) : KeyOf(u) = KeyOf(v)
          /\ Values(sub.root) =
                IF assign THEN {v} \cup {u \in Values(left) : KeyOf(u) # KeyOf(v)} ELSE Values(left)
          /\ Size(sub.root) = Size(left)
      BY <2>1, <2>5, <2>11 DEF InsertResult
    <3>2. Values(m) = {value} \cup Values(sub.root) \cup Values(right) /\ Size(m) = 1 + Size(sub.root) + Size(right)
      BY <2>4 DEF Joins
    <3>3. {u \in Values(n) : KeyOf(u) # KeyOf(v)} =
             {value} \cup {u \in Values(left) : KeyOf(u) # KeyOf(v)} \cup Values(right)
      BY <1>3, <2>9
    <3>4. Size(m) = Size(n)
      BY <1>1, <3>1, <3>2
    <3>5. CASE assign
      BY <1>3, <3>1, <3>2, <3>3, <3>4, <3>5
    <3>6. CASE ~assign
      BY <1>3, <3>1, <3>2, <3>4, <3>6
    <3> QED
      BY <3>5, <3>6
  <2>12. InsertResult(n, v, rank, assign, result)
    BY <1>7, <2>5, <2>6, <2>8, <2>10, <2>11 DEF InsertResult
  <2> QED
    BY <2>12 DEF n, result
<1>10. CASE ~LessThan(KeyOf(value), KeyOf(v)) /\ ~LessThan(KeyOf(v), KeyOf(value))
  <2> DEFINE w == IF assign THEN v ELSE value
             m == MaybeRebalance(Node(left, w, right))
  <2>1. KeyOf(v) = KeyOf(value)
    BY <1>5, <1>10 DEF Ordering
  <2>2. (IF assign THEN Node(left, v, right) ELSE n) = Node(left, w, right)
    OBVIOUS
  <2>3. result = Inserted(MaybeRebalance(IF assign THEN Node(left, v, right) ELSE n), rank, FALSE)
    <3> HIDE DEF n
    <3>1. Insert(n, v, rank, assign) =
            Inserted(MaybeRebalance(IF assign THEN Node(n.left, v, n.right) ELSE n), rank, FALSE)
      <4>1. n \in Trees /\ n # Nil /\ ~LessThan(Key(n), KeyOf(v)) /\ ~LessThan(KeyOf(v), Key(n))
        BY <1>1, <1>10, Zenon
      <4> QED
        BY <4>1, InsertDef, ZenonT(60)
    <3> QED
      BY <1>1, <3>1, ZenonT(60)
  <2>4. result = Inserted(m, rank, FALSE)
    BY <2>2, <2>3
  <2>5. result.root = m /\ ~result.did_insert
    BY <2>4 DEF Inserted
  <2>6. w \in Value /\ KeyOf(w) = KeyOf(v)
    BY <2>1
  <2>7. Joins(m, left, w, right)
    BY <2>6, RebalancedJoins
  <2>8. ASSUME Balanced(n) PROVE Balanced(m)
    <3>1. Balanced(left) /\ Balanced(right)
      BY <2>8, BalancedNode
    <3> HIDE DEF w
    <3> QED
      BY <2>6, <2>8, <3>1, RebalancedIsBalanced
  <2> HIDE DEF m, result, n
  <2>9. Ordered(m)
    BY <1>2, <2>1, <2>6, <2>7 DEF Joins
  <2>10. Values(m) = {w} \cup Values(left) \cup Values(right) /\ Size(m) = Size(n)
    BY <1>1, <2>7 DEF Joins
  <2>11. {u \in Values(n) : KeyOf(u) # KeyOf(v)} = Values(left) \cup Values(right)
    BY <1>2, <1>3, <2>1
  <2>12. Values(m) = IF assign THEN {v} \cup {u \in Values(n) : KeyOf(u) # KeyOf(v)} ELSE Values(n)
    BY <1>3, <2>10, <2>11
  <2>13. \E u \in Values(n) : KeyOf(u) = KeyOf(v)
    BY <1>3, <2>1
  <2>14. InsertResult(n, v, rank, assign, result)
    BY <1>7, <2>5, <2>8, <2>9, <2>10, <2>12, <2>13 DEF InsertResult
  <2> QED
    BY <2>14 DEF n, result
<1> QED
  BY <1>8, <1>9, <1>10

\* Insertion into a search tree.
LEMMA InsertResults ==
    ASSUME Ordering, NEW t \in Trees, Ordered(t), NEW v \in Value, NEW assign \in BOOLEAN, NEW rank \in Nat
    PROVE  InsertResult(t, v, rank, assign, Insert(t, v, rank, assign))
<1> DEFINE P == {n \in Trees : Ordered(n) =>
                    \A r \in Nat : InsertResult(n, v, r, assign, Insert(n, v, r, assign))}
<1>1. Nil \in P
  <2> SUFFICES ASSUME NEW r \in Nat
               PROVE  InsertResult(Nil, v, r, assign, Insert(Nil, v, r, assign))
    BY NilProperties
  <2> DEFINE result == Insert(Nil, v, r, assign)
             m == Node(Nil, v, Nil)
  <2>1. result = Inserted(m, r, TRUE) /\ result \in Insertions
    BY InsertDef, NilProperties
  <2>2. result.root = m /\ result.idx = r /\ result.did_insert
    BY <2>1 DEF Inserted
  <2>3. Joins(m, Nil, v, Nil)
    BY NilProperties, NodeJoins
  <2>4. Ordered(m) /\ Values(m) = {v} /\ Size(m) = 1
    BY <2>3, NilIsOrdered, ContentOfNil, NilProperties DEF Joins
  <2>5. Balanced(m)
    BY BalancedNode, NodeInBalance, NilIsOrdered, NilProperties, EmptyFits
  <2> HIDE DEF result, m
  <2>6. /\ \A u \in Values(Nil) : KeyOf(u) # KeyOf(v)
        /\ Values(m) = {v} \cup Values(Nil)
        /\ Size(m) = Size(Nil) + 1
        /\ r = r + RankIn(Nil, KeyOf(v))
    BY <2>4, ContentOfNil, RankOfNil, NilProperties
  <2>7. InsertResult(Nil, v, r, assign, result)
    BY <2>1, <2>2, <2>4, <2>5, <2>6 DEF InsertResult
  <2> QED
    BY <2>7 DEF result
<1>2. ASSUME NEW left \in Trees, NEW right \in Trees, NEW value \in Value,
             left \in P, right \in P
      PROVE  Node(left, value, right) \in P
  <2>1. Node(left, value, right) \in Trees
    BY NodeIsTree
  <2> SUFFICES ASSUME Ordered(Node(left, value, right)), NEW r \in Nat
               PROVE  InsertResult(Node(left, value, right), v, r, assign,
                                   Insert(Node(left, value, right), v, r, assign))
    BY <2>1
  <2>2. Ordered(left) /\ Ordered(right)
    BY PartsAreDisjoint
  <2>3. Size(left) \in Nat
    BY TreeProperties
  <2>4. r + Size(left) + 1 \in Nat
    BY <2>3
  <2>5. /\ InsertResult(right, v, r + Size(left) + 1, assign, Insert(right, v, r + Size(left) + 1, assign))
        /\ InsertResult(left, v, r, assign, Insert(left, v, r, assign))
    BY <1>2, <2>2, <2>4
  <2> QED
    BY <2>5, InsertResultOfNode
<1>3. Trees \subseteq P
  <2> HIDE DEF P
  <2> QED
    BY <1>1, <1>2, TreeInduction
<1> QED
  BY <1>3

-----------------------------------------------------------------------------
(* Deletion                                                                *)

UnlinkResult(t, result) ==
    /\ result \in Unlinkings
    /\ Ordered(result.root)
    /\ Balanced(t) => Balanced(result.root)
    /\ result.removed \in Values(t)
    /\ Values(result.root) = Values(t) \ {result.removed}
    /\ \A u \in Values(result.root) : LessThan(KeyOf(u), KeyOf(result.removed))
    /\ Size(result.root) = Size(t) - 1

\* UnlinkRightMost takes the greatest value out of a search tree.
LEMMA UnlinkResults ==
    ASSUME Ordering, NEW t \in Trees, t # Nil, Ordered(t)
    PROVE  UnlinkResult(t, UnlinkRightMost(t))
<1> DEFINE P == {n \in Trees : Ordered(n) /\ n # Nil => UnlinkResult(n, UnlinkRightMost(n))}
<1>1. Nil \in P
  BY NilProperties
<1>2. ASSUME NEW left \in Trees, NEW right \in Trees, NEW value \in Value,
             left \in P, right \in P
      PROVE  Node(left, value, right) \in P
  <2> DEFINE n == Node(left, value, right)
             result == UnlinkRightMost(n)
  <2>1. /\ n \in Trees /\ n # Nil /\ n.left = left /\ n.right = right /\ n.value = value
        /\ Size(n) = 1 + Size(left) + Size(right)
    BY NodeIsTree, NodeProperties
  <2> SUFFICES ASSUME Ordered(n)
               PROVE  UnlinkResult(n, result)
    BY <2>1
  <2>2. /\ Ordered(left) /\ Ordered(right)
        /\ \A u \in Values(left) : LessThan(KeyOf(u), KeyOf(value))
        /\ \A u \in Values(right) : LessThan(KeyOf(value), KeyOf(u))
        /\ \A u \in Values(left), w \in Values(right) : LessThan(KeyOf(u), KeyOf(w))
        /\ value \notin Values(left) /\ value \notin Values(right)
        /\ Values(left) \cap Values(right) = {}
    BY PartsAreDisjoint
  <2>3. Values(n) = {value} \cup Values(left) \cup Values(right)
    BY ContentOfNode
  <2>4. Size(left) \in Nat /\ Size(right) \in Nat
    BY TreeProperties
  <2>5. result \in Unlinkings
    <3> HIDE DEF n
    <3> QED
      BY <2>1, UnlinkRightMostDef
  <2>6. Balanced(n) => Balanced(left) /\ Balanced(right)
    BY BalancedNode
  <2>7. CASE right = Nil
    <3>1. result = [root |-> left, removed |-> value]
      <4> HIDE DEF n
      <4>1. UnlinkRightMost(n) = [root |-> n.left, removed |-> n.value]
        BY <2>1, <2>7, UnlinkRightMostDef DEF UnlinkRightMostStep
      <4> QED
        BY <2>1, <4>1
    <3>2. result.root = left /\ result.removed = value
      BY <3>1
    <3>3. Values(right) = {} /\ Size(right) = 0
      BY <2>7, ContentOfNil, NilProperties
    <3> HIDE DEF n, result
    <3> QED
      BY <2>1, <2>2, <2>3, <2>4, <2>5, <2>6, <3>2, <3>3 DEF UnlinkResult
  <2>8. CASE right # Nil
    <3> DEFINE sub == UnlinkRightMost(right)
               m == MaybeRebalance(Node(left, value, sub.root))
    <3>1. UnlinkResult(right, sub)
      BY <1>2, <2>2, <2>8
    <3>2. sub.root \in Trees /\ sub.removed \in Value
      BY <3>1 DEF UnlinkResult, Unlinkings
    <3>3. result.root = m /\ result.removed = sub.removed
      <4> HIDE DEF n
      <4>1. UnlinkRightMost(n) =
              [UnlinkRightMost(n.right) EXCEPT !.root = MaybeRebalance(Node(n.left, n.value, @))]
        BY <2>1, <2>8, UnlinkRightMostDef DEF UnlinkRightMostStep
      <4>2. result = [sub EXCEPT !.root = MaybeRebalance(Node(left, value, @))]
        BY <2>1, <4>1, Zenon
      <4>3. sub \in Unlinkings
        BY <3>1 DEF UnlinkResult
      <4> HIDE DEF result, sub
      <4> QED
        BY <4>2, <4>3 DEF Unlinkings
    <3>4. Joins(m, left, value, sub.root)
      BY <3>2, RebalancedJoins
    <3>5. ASSUME Balanced(n) PROVE Balanced(m)
      <4>1. Size(sub.root) = Size(right) - 1 /\ Balanced(sub.root)
        BY <2>6, <3>1, <3>5 DEF UnlinkResult
      <4> HIDE DEF sub
      <4> QED
        BY <2>6, <3>2, <3>5, <4>1, RebalancedIsBalanced
    <3> HIDE DEF n, result, sub, m
    <3>6. Ordered(m)
      BY <2>2, <3>1, <3>4 DEF Joins, UnlinkResult
    <3>7. sub.removed \in Values(right) /\ Values(sub.root) = Values(right) \ {sub.removed}
      BY <3>1 DEF UnlinkResult
    <3>8. Values(m) = {value} \cup Values(left) \cup Values(sub.root) /\ Size(m) = 1 + Size(left) + Size(sub.root)
      BY <3>4 DEF Joins
    <3>9. sub.removed \in Values(n) /\ Values(m) = Values(n) \ {sub.removed}
      BY <2>2, <2>3, <3>7, <3>8
    <3>10. \A u \in Values(m) : LessThan(KeyOf(u), KeyOf(sub.removed))
      BY <2>2, <3>1, <3>7, <3>8 DEF UnlinkResult
    <3>11. Size(m) = Size(n) - 1
      BY <2>1, <2>4, <3>1, <3>8 DEF UnlinkResult
    <3> QED
      BY <2>5, <3>3, <3>5, <3>6, <3>9, <3>10, <3>11 DEF UnlinkResult
  <2> QED
    BY <2>7, <2>8
<1>3. Trees \subseteq P
  <2> HIDE DEF P
  <2> QED
    BY <1>1, <1>2, TreeInduction
<1> QED
  BY <1>3

\* A node without its root, whose place its predecessor has taken.
LEMMA DeleteNodeResult ==
    ASSUME Ordering, NEW left \in Trees, NEW right \in Trees, NEW value \in Value,
           Ordered(Node(left, value, right))
    PROVE  /\ DeleteNode(Node(left, value, right)) \in Trees
           /\ Ordered(DeleteNode(Node(left, value, right)))
           /\ Balanced(Node(left, value, right)) => Balanced(DeleteNode(Node(left, value, right)))
           /\ Values(DeleteNode(Node(left, value, right))) = Values(left) \cup Values(right)
           /\ Size(DeleteNode(Node(left, value, right))) = Size(left) + Size(right)
<1> DEFINE n == Node(left, value, right)
           m == DeleteNode(n)
<1>1. n.left = left /\ n.right = right /\ n.value = value
  BY NodeProperties
<1>2. /\ Ordered(left) /\ Ordered(right)
      /\ \A u \in Values(left), w \in Values(right) : LessThan(KeyOf(u), KeyOf(w))
  BY PartsAreDisjoint
<1>3. Size(left) \in Nat /\ Size(right) \in Nat
  BY TreeProperties
<1>4. Balanced(n) => Balanced(left) /\ Balanced(right)
  BY BalancedNode
<1>5. CASE left = Nil
  <2>1. m = right
    <3> HIDE DEF n
    <3> QED
      BY <1>1, <1>5 DEF DeleteNode
  <2>2. Values(left) = {} /\ Size(left) = 0
    BY <1>5, ContentOfNil, NilProperties
  <2> HIDE DEF m, n
  <2>3. /\ m \in Trees /\ Ordered(m) /\ (Balanced(n) => Balanced(m))
        /\ Values(m) = Values(left) \cup Values(right) /\ Size(m) = Size(left) + Size(right)
    BY <1>2, <1>3, <1>4, <2>1, <2>2
  <2> QED
    BY <2>3 DEF m, n
<1>6. CASE left # Nil
  <2> DEFINE sub == UnlinkRightMost(left)
  <2>1. UnlinkResult(left, sub)
    BY <1>2, <1>6, UnlinkResults
  <2>2. m = MaybeRebalance(Node(sub.root, sub.removed, right))
    <3> HIDE DEF n
    <3>1. m = MaybeRebalance(Node(UnlinkRightMost(n.left).root, UnlinkRightMost(n.left).removed, n.right))
      BY <1>1, <1>6 DEF DeleteNode
    <3> QED
      BY <1>1, <3>1
  <2> HIDE DEF sub
  <2>3. sub.root \in Trees /\ sub.removed \in Value
    BY <2>1 DEF UnlinkResult, Unlinkings
  <2>4. Joins(m, sub.root, sub.removed, right)
    BY <2>2, <2>3, RebalancedJoins
  <2>5. ASSUME Balanced(n) PROVE Balanced(m)
    <3>1. Size(sub.root) = Size(left) - 1 /\ Balanced(sub.root)
      BY <1>4, <2>1, <2>5 DEF UnlinkResult
    <3> HIDE DEF m
    <3> QED
      BY <1>4, <2>2, <2>3, <2>5, <3>1, RebalancedIsBalanced
  <2> HIDE DEF m, n
  <2>6. Ordered(m)
    BY <1>2, <2>1, <2>4 DEF Joins, UnlinkResult
  <2>7. Values(m) = Values(left) \cup Values(right)
    BY <2>1, <2>4 DEF Joins, UnlinkResult
  <2>8. Size(m) = Size(left) + Size(right)
    BY <1>3, <2>1, <2>4 DEF Joins, UnlinkResult
  <2>9. m \in Trees
    BY <2>4 DEF Joins
  <2> QED
    BY <2>5, <2>6, <2>7, <2>8, <2>9 DEF m, n
<1> QED
  BY <1>5, <1>6

\* LeftMost is the least key.
LEMMA LeftMostIsLeast ==
    ASSUME Ordering, NEW t \in Trees, t # Nil, Ordered(t)
    PROVE  \E u \in Values(t) :
              LeftMost(t) = KeyOf(u) /\ \A w \in Values(t) : ~LessThan(KeyOf(w), KeyOf(u))
<1> DEFINE P == {n \in Trees : Ordered(n) /\ n # Nil =>
                    \E u \in Values(n) :
                       LeftMost(n) = KeyOf(u) /\ \A w \in Values(n) : ~LessThan(KeyOf(w), KeyOf(u))}
<1>1. Nil \in P
  BY NilProperties
<1>2. ASSUME NEW left \in Trees, NEW right \in Trees, NEW value \in Value,
             left \in P, right \in P
      PROVE  Node(left, value, right) \in P
  <2> DEFINE n == Node(left, value, right)
  <2>1. n \in Trees /\ n # Nil /\ n.left = left /\ n.right = right /\ Key(n) = KeyOf(value)
    BY NodeIsTree, NodeProperties
  <2> SUFFICES ASSUME Ordered(n)
               PROVE  \E u \in Values(n) :
                         LeftMost(n) = KeyOf(u) /\ \A w \in Values(n) : ~LessThan(KeyOf(w), KeyOf(u))
    BY <2>1
  <2>2. /\ Ordered(left)
        /\ \A u \in Values(left) : ~LessThan(KeyOf(value), KeyOf(u))
        /\ \A u \in Values(right) : ~LessThan(KeyOf(u), KeyOf(value))
        /\ \A u \in Values(left), w \in Values(right) : ~LessThan(KeyOf(w), KeyOf(u))
    BY PartsAreDisjoint
  <2>3. Values(n) = {value} \cup Values(left) \cup Values(right)
    BY ContentOfNode
  <2>4. ~LessThan(KeyOf(value), KeyOf(value))
    BY DEF Ordering
  <2> HIDE DEF n
  <2>5. CASE left = Nil
    <3>1. LeftMost(n) = KeyOf(value)
      BY <2>1, <2>5, LeftMostDef DEF LeftMostStep
    <3>2. Values(left) = {}
      BY <2>5, ContentOfNil
    <3> QED
      BY <2>2, <2>3, <2>4, <3>1, <3>2
  <2>6. CASE left # Nil
    <3>1. LeftMost(n) = LeftMost(left)
      BY <2>1, <2>6, LeftMostDef DEF LeftMostStep
    <3>2. PICK u \in Values(left) :
             LeftMost(left) = KeyOf(u) /\ \A w \in Values(left) : ~LessThan(KeyOf(w), KeyOf(u))
      BY <1>2, <2>2, <2>6
    <3> QED
      BY <2>2, <2>3, <3>1, <3>2
  <2> QED
    BY <2>5, <2>6
<1>3. Trees \subseteq P
  <2> HIDE DEF P
  <2> QED
    BY <1>1, <1>2, TreeInduction
<1> QED
  BY <1>3

\* A pointer to the first node after a key, or what stands for it if there is
\* none.
IsNext(pointer, t, k, otherwise) ==
    \/ \E w \in Values(t) :
          /\ LessThan(k, KeyOf(w)) /\ pointer = <<KeyOf(w)>>
          /\ \A x \in Values(t) : LessThan(k, KeyOf(x)) => ~LessThan(KeyOf(x), KeyOf(w))
    \/ (\A w \in Values(t) : ~LessThan(k, KeyOf(w))) /\ pointer = otherwise

\* What erasure makes of a tree: its values without the one with the key, whose
\* successor and rank it returns.
EraseResult(t, k, rank, next, result) ==
    /\ result \in Erasures
    /\ Ordered(result.root)
    /\ Balanced(t) => Balanced(result.root)
    /\ Values(result.root) = {u \in Values(t) : KeyOf(u) # k}
    /\ result.rank = rank + RankIn(t, k)
    /\ Size(result.root) \in {Size(t) - 1, Size(t)}
    /\ (\A u \in Values(t) : KeyOf(u) # k) => result.successor = Nil /\ result.extracted = Nil
    /\ \A u \in Values(t) : KeyOf(u) = k =>
          result.extracted = <<u>> /\ IsNext(result.successor, t, k, next)

\* The first node after a key of a node is after it in the right subtree, if
\* the key is not in the left one, and otherwise in the left subtree or the node.
LEMMA NextInNode ==
    ASSUME Ordering, NEW left \in Trees, NEW right \in Trees, NEW value \in Value,
           Ordered(Node(left, value, right)), NEW k \in KeyType, NEW pointer, NEW otherwise
    PROVE  /\ ~LessThan(k, KeyOf(value)) /\ IsNext(pointer, right, k, otherwise) =>
                 IsNext(pointer, Node(left, value, right), k, otherwise)
           /\ LessThan(k, KeyOf(value)) /\ IsNext(pointer, left, k, <<KeyOf(value)>>) =>
                 IsNext(pointer, Node(left, value, right), k, otherwise)
<1> DEFINE n == Node(left, value, right)
<1>1. /\ \A u \in Values(left) : LessThan(KeyOf(u), KeyOf(value)) /\ ~LessThan(KeyOf(value), KeyOf(u))
      /\ \A u \in Values(right) : LessThan(KeyOf(value), KeyOf(u)) /\ ~LessThan(KeyOf(u), KeyOf(value))
      /\ \A u \in Values(left), w \in Values(right) : ~LessThan(KeyOf(w), KeyOf(u))
  BY PartsAreDisjoint
<1>2. Values(n) = {value} \cup Values(left) \cup Values(right)
  BY ContentOfNode
<1>3. /\ KeyOf(value) \in KeyType
      /\ \A u \in Values(left) \cup Values(right) : KeyOf(u) \in KeyType
  BY ContentProperties DEF Ordering
<1> HIDE DEF n
<1>4. ASSUME ~LessThan(k, KeyOf(value)), IsNext(pointer, right, k, otherwise)
      PROVE  IsNext(pointer, n, k, otherwise)
  <2>1. \A u \in Values(left) : ~LessThan(k, KeyOf(u))
    BY <1>1, <1>3, <1>4 DEF Ordering
  <2> QED
    BY <1>2, <1>4, <2>1 DEF IsNext
<1>5. ASSUME LessThan(k, KeyOf(value)), IsNext(pointer, left, k, <<KeyOf(value)>>)
      PROVE  IsNext(pointer, n, k, otherwise)
  <2>1. ~LessThan(KeyOf(value), KeyOf(value))
    BY <1>3 DEF Ordering
  <2>2. CASE \E w \in Values(left) :
          /\ LessThan(k, KeyOf(w)) /\ pointer = <<KeyOf(w)>>
          /\ \A x \in Values(left) : LessThan(k, KeyOf(x)) => ~LessThan(KeyOf(x), KeyOf(w))
    BY <1>1, <1>2, <2>2 DEF IsNext
  <2>3. CASE (\A w \in Values(left) : ~LessThan(k, KeyOf(w))) /\ pointer = <<KeyOf(value)>>
    BY <1>1, <1>2, <1>5, <2>1, <2>3 DEF IsNext
  <2> QED
    BY <1>5, <2>2, <2>3 DEF IsNext
<1> QED
  BY <1>4, <1>5 DEF n

\* Erase() at a node returns what it should if it does below.
LEMMA EraseResultOfNode ==
    ASSUME Ordering, NEW k \in KeyType, NEW rank \in Nat, NEW next \in Links,
           NEW left \in Trees, NEW right \in Trees, NEW value \in Value,
           Ordered(Node(left, value, right)),
           LessThan(KeyOf(value), k) =>
              EraseResult(right, k, rank + 1 + Size(left), next,
                          Erase(right, k, rank + 1 + Size(left), next)),
           ~LessThan(KeyOf(value), k) /\ LessThan(k, KeyOf(value)) =>
              EraseResult(left, k, rank, <<KeyOf(value)>>, Erase(left, k, rank, <<KeyOf(value)>>))
    PROVE  EraseResult(Node(left, value, right), k, rank, next,
                       Erase(Node(left, value, right), k, rank, next))
<1> DEFINE n == Node(left, value, right)
           result == Erase(n, k, rank, next)
<1>1. /\ n \in Trees /\ n # Nil /\ n.left = left /\ n.right = right /\ n.value = value
      /\ Key(n) = KeyOf(value) /\ Size(n) = 1 + Size(left) + Size(right)
  BY NodeIsTree, NodeProperties
<1>2. /\ Ordered(left) /\ Ordered(right)
      /\ \A u \in Values(left) : LessThan(KeyOf(u), KeyOf(value)) /\ ~LessThan(KeyOf(value), KeyOf(u))
      /\ \A u \in Values(right) : LessThan(KeyOf(value), KeyOf(u)) /\ ~LessThan(KeyOf(u), KeyOf(value))
      /\ \A u \in Values(left) \cup Values(right) : KeyOf(u) # KeyOf(value)
  BY PartsAreDisjoint
<1>3. Values(n) = {value} \cup Values(left) \cup Values(right)
  BY ContentOfNode
<1>4. Size(left) \in Nat /\ Size(right) \in Nat
  BY TreeProperties
<1>5. /\ KeyOf(value) \in KeyType
      /\ \A u \in Values(left) \cup Values(right) : KeyOf(u) \in KeyType
  BY ContentProperties DEF Ordering
<1>6. /\ LessThan(KeyOf(value), k) => RankIn(n, k) = 1 + Size(left) + RankIn(right, k)
      /\ ~LessThan(KeyOf(value), k) => RankIn(n, k) = RankIn(left, k)
      /\ RankIn(left, k) \in Nat /\ RankIn(right, k) \in Nat
      /\ k = KeyOf(value) => RankIn(n, k) = Size(left)
  BY <1>5, RankInNode
<1>7. result \in Erasures
  BY <1>1, EraseDef
<1>8. /\ ~LessThan(k, KeyOf(value)) => \A p : IsNext(p, right, k, next) => IsNext(p, n, k, next)
      /\ LessThan(k, KeyOf(value)) => \A p : IsNext(p, left, k, <<KeyOf(value)>>) => IsNext(p, n, k, next)
  BY NextInNode
<1>9. CASE LessThan(KeyOf(value), k)
  <2> DEFINE sub == Erase(right, k, rank + 1 + Size(left), next)
             m == MaybeRebalance(Node(left, value, sub.root))
  <2>1. EraseResult(right, k, rank + 1 + Size(left), next, sub)
    BY <1>9
  <2>2. sub \in Erasures /\ result = Erased(m, sub.rank, sub.successor, sub.extracted)
    <3> HIDE DEF n
    <3>1. n \in Trees /\ n # Nil /\ LessThan(Key(n), k)
      BY <1>1, <1>9, Zenon
    <3>2. LET s == Erase(n.right, k, rank + 1 + Size(n.left), next)
          IN  /\ s \in Erasures
              /\ Erase(n, k, rank, next) =
                   Erased(MaybeRebalance(Node(n.left, n.value, s.root)), s.rank, s.successor, s.extracted)
      BY <3>1, EraseDef, Zenon
    <3> QED
      BY <1>1, <3>2, Zenon
  <2>3. sub.root \in Trees /\ sub.rank \in Nat
    BY <2>2 DEF Erasures
  <2>4. Joins(m, left, value, sub.root)
    BY <2>3, RebalancedJoins
  <2>5. /\ result.root = m /\ result.rank = sub.rank
        /\ result.successor = sub.successor /\ result.extracted = sub.extracted
    BY <2>2 DEF Erased
  <2>6. ASSUME Balanced(n) PROVE Balanced(m)
    <3>1. Balanced(left) /\ Balanced(right)
      BY <2>6, BalancedNode
    <3>2. Size(sub.root) \in {Size(right) - 1, Size(right)} /\ Balanced(sub.root)
      BY <2>1, <2>3, <3>1 DEF EraseResult
    <3> HIDE DEF sub
    <3> QED
      BY <2>3, <2>6, <3>1, <3>2, RebalancedIsBalanced
  <2> HIDE DEF sub, m, result, n
  <2>7. Values(sub.root) = {u \in Values(right) : KeyOf(u) # k}
    BY <2>1 DEF EraseResult
  <2>8. Ordered(m)
    BY <1>2, <2>1, <2>4, <2>7 DEF EraseResult, Joins
  <2>9. \A u \in {value} \cup Values(left) : KeyOf(u) # k
    BY <1>2, <1>5, <1>9 DEF Ordering
  <2>10. Values(m) = {u \in Values(n) : KeyOf(u) # k}
    BY <1>3, <2>4, <2>7, <2>9 DEF Joins
  <2>11. result.rank = rank + RankIn(n, k)
    BY <1>4, <1>6, <1>9, <2>1, <2>5 DEF EraseResult
  <2>12. Size(m) \in {Size(n) - 1, Size(n)}
    <3>1. Size(sub.root) \in {Size(right) - 1, Size(right)} /\ Size(m) = 1 + Size(left) + Size(sub.root)
      BY <2>1, <2>4 DEF EraseResult, Joins
    <3> QED
      BY <1>1, <1>4, <3>1
  <2>13. ASSUME \A u \in Values(n) : KeyOf(u) # k
         PROVE  result.successor = Nil /\ result.extracted = Nil
    BY <1>3, <2>1, <2>5, <2>13 DEF EraseResult
  <2>14. ASSUME NEW u \in Values(n), KeyOf(u) = k
         PROVE  result.extracted = <<u>> /\ IsNext(result.successor, n, k, next)
    <3>1. u \in Values(right)
      BY <1>3, <2>9, <2>14
    <3>2. result.extracted = <<u>> /\ IsNext(result.successor, right, k, next)
      BY <2>1, <2>5, <2>14, <3>1 DEF EraseResult
    <3>3. ~LessThan(k, KeyOf(value))
      BY <1>5, <1>9 DEF Ordering
    <3> QED
      BY <1>8, <3>2, <3>3
  <2>15. EraseResult(n, k, rank, next, result)
    BY <1>7, <2>5, <2>6, <2>8, <2>10, <2>11, <2>12, <2>13, <2>14 DEF EraseResult
  <2> QED
    BY <2>15 DEF n, result
<1>10. CASE ~LessThan(KeyOf(value), k) /\ LessThan(k, KeyOf(value))
  <2> DEFINE sub == Erase(left, k, rank, <<KeyOf(value)>>)
             m == MaybeRebalance(Node(sub.root, value, right))
  <2>1. EraseResult(left, k, rank, <<KeyOf(value)>>, sub)
    BY <1>10
  <2>2. sub \in Erasures /\ result = Erased(m, sub.rank, sub.successor, sub.extracted)
    <3> HIDE DEF n
    <3>1. n \in Trees /\ n # Nil /\ ~LessThan(Key(n), k) /\ LessThan(k, Key(n))
      BY <1>1, <1>10, Zenon
    <3>2. LET s == Erase(n.left, k, rank, <<Key(n)>>)
          IN  /\ s \in Erasures
              /\ Erase(n, k, rank, next) =
                   Erased(MaybeRebalance(Node(s.root, n.value, n.right)), s.rank, s.successor, s.extracted)
      BY <3>1, EraseDef, Zenon
    <3> QED
      BY <1>1, <3>2, Zenon
  <2>3. sub.root \in Trees /\ sub.rank \in Nat
    BY <2>2 DEF Erasures
  <2>4. Joins(m, sub.root, value, right)
    BY <2>3, RebalancedJoins
  <2>5. /\ result.root = m /\ result.rank = sub.rank
        /\ result.successor = sub.successor /\ result.extracted = sub.extracted
    BY <2>2 DEF Erased
  <2>6. ASSUME Balanced(n) PROVE Balanced(m)
    <3>1. Balanced(left) /\ Balanced(right)
      BY <2>6, BalancedNode
    <3>2. Size(sub.root) \in {Size(left) - 1, Size(left)} /\ Balanced(sub.root)
      BY <2>1, <2>3, <3>1 DEF EraseResult
    <3> HIDE DEF sub
    <3> QED
      BY <2>3, <2>6, <3>1, <3>2, RebalancedIsBalanced
  <2> HIDE DEF sub, m, result, n
  <2>7. Values(sub.root) = {u \in Values(left) : KeyOf(u) # k}
    BY <2>1 DEF EraseResult
  <2>8. Ordered(m)
    BY <1>2, <2>1, <2>4, <2>7 DEF EraseResult, Joins
  <2>9. \A u \in {value} \cup Values(right) : KeyOf(u) # k
    BY <1>2, <1>5, <1>10 DEF Ordering
  <2>10. Values(m) = {u \in Values(n) : KeyOf(u) # k}
    BY <1>3, <2>4, <2>7, <2>9 DEF Joins
  <2>11. result.rank = rank + RankIn(n, k)
    BY <1>6, <1>10, <2>1, <2>5 DEF EraseResult
  <2>12. Size(m) \in {Size(n) - 1, Size(n)}
    <3>1. Size(sub.root) \in {Size(left) - 1, Size(left)} /\ Size(m) = 1 + Size(sub.root) + Size(right)
      BY <2>1, <2>4 DEF EraseResult, Joins
    <3> QED
      BY <1>1, <1>4, <3>1
  <2>13. ASSUME \A u \in Values(n) : KeyOf(u) # k
         PROVE  result.successor = Nil /\ result.extracted = Nil
    BY <1>3, <2>1, <2>5, <2>13 DEF EraseResult
  <2>14. ASSUME NEW u \in Values(n), KeyOf(u) = k
         PROVE  result.extracted = <<u>> /\ IsNext(result.successor, n, k, next)
    <3>1. u \in Values(left)
      BY <1>3, <2>9, <2>14
    <3>2. result.extracted = <<u>> /\ IsNext(result.successor, left, k, <<KeyOf(value)>>)
      BY <2>1, <2>5, <2>14, <3>1 DEF EraseResult
    <3> QED
      BY <1>8, <1>10, <3>2
  <2>15. EraseResult(n, k, rank, next, result)
    BY <1>7, <2>5, <2>6, <2>8, <2>10, <2>11, <2>12, <2>13, <2>14 DEF EraseResult
  <2> QED
    BY <2>15 DEF n, result
<1>11. CASE ~LessThan(KeyOf(value), k) /\ ~LessThan(k, KeyOf(value))
  <2> DEFINE m == DeleteNode(n)
             successor == IF right # Nil THEN <<LeftMost(right)>> ELSE next
  <2>1. k = KeyOf(value)
    BY <1>5, <1>11 DEF Ordering
  <2>2. result = Erased(m, rank + Size(left), successor, <<value>>)
    <3> HIDE DEF n
    <3>1. n \in Trees /\ n # Nil /\ ~LessThan(Key(n), k) /\ ~LessThan(k, Key(n))
      BY <1>1, <1>11, Zenon
    <3>2. Erase(n, k, rank, next) = AtNode(n, rank, next)
      BY <3>1, EraseDef, Zenon
    <3>3. Erase(n, k, rank, next) =
             Erased(DeleteNode(n), rank + Size(n.left),
                    IF n.right # Nil THEN <<LeftMost(n.right)>> ELSE next, <<n.value>>)
      BY <3>2, Zenon DEF AtNode
    <3> QED
      BY <1>1, <3>3, Zenon
  <2>3. /\ result.root = m /\ result.rank = rank + Size(left)
        /\ result.successor = successor /\ result.extracted = <<value>>
    BY <2>2 DEF Erased
  <2>4. /\ m \in Trees /\ Ordered(m) /\ (Balanced(n) => Balanced(m))
        /\ Values(m) = Values(left) \cup Values(right)
        /\ Size(m) = Size(left) + Size(right)
    BY DeleteNodeResult
  <2>5. IsNext(successor, right, k, next)
    <3>1. CASE right = Nil
      BY <3>1, ContentOfNil DEF IsNext
    <3>2. CASE right # Nil
      <4>1. PICK u \in Values(right) :
               LeftMost(right) = KeyOf(u) /\ \A w \in Values(right) : ~LessThan(KeyOf(w), KeyOf(u))
        BY <1>2, <3>2, LeftMostIsLeast
      <4>2. successor = <<KeyOf(u)>>
        BY <3>2, <4>1
      <4> HIDE DEF successor
      <4> QED
        BY <1>2, <2>1, <4>1, <4>2 DEF IsNext
    <3> QED
      BY <3>1, <3>2
  <2> HIDE DEF m, n, result, successor
  <2>6. IsNext(successor, n, k, next)
    BY <1>8, <1>11, <2>5
  <2>7. Values(m) = {u \in Values(n) : KeyOf(u) # k}
    BY <1>2, <1>3, <2>1, <2>4
  <2>8. Size(m) \in {Size(n) - 1, Size(n)}
    BY <1>1, <1>4, <2>4
  <2>9. value \in Values(n) /\ \A u \in Values(n) : KeyOf(u) = k => u = value
    BY <1>2, <1>3, <2>1
  <2>10. result.rank = rank + RankIn(n, k)
    BY <1>6, <2>1, <2>3
  <2>11. EraseResult(n, k, rank, next, result)
    <3>1. ASSUME \A u \in Values(n) : KeyOf(u) # k PROVE FALSE
      BY <2>1, <2>9, <3>1
    <3>2. \A u \in Values(n) : KeyOf(u) = k => result.extracted = <<u>> /\ IsNext(result.successor, n, k, next)
      BY <2>3, <2>6, <2>9
    <3> QED
      BY <1>7, <2>3, <2>4, <2>7, <2>8, <2>10, <3>1, <3>2 DEF EraseResult
  <2> QED
    BY <2>11 DEF n, result
<1> QED
  BY <1>9, <1>10, <1>11

\* Erasure from a search tree.
LEMMA EraseResults ==
    ASSUME Ordering, NEW t \in Trees, Ordered(t), NEW k \in KeyType, NEW rank \in Nat, NEW next \in Links
    PROVE  EraseResult(t, k, rank, next, Erase(t, k, rank, next))
<1> DEFINE P == {n \in Trees : Ordered(n) =>
                    \A r \in Nat, x \in Links : EraseResult(n, k, r, x, Erase(n, k, r, x))}
<1>1. Nil \in P
  <2> SUFFICES ASSUME NEW r \in Nat, NEW x \in Links
               PROVE  EraseResult(Nil, k, r, x, Erase(Nil, k, r, x))
    BY NilProperties
  <2> DEFINE result == Erase(Nil, k, r, x)
  <2>1. result = Erased(Nil, r, Nil, Nil) /\ result \in Erasures
    BY EraseDef, NilProperties, ZenonT(60)
  <2> HIDE DEF result
  <2>2. result.root = Nil /\ result.rank = r /\ result.successor = Nil /\ result.extracted = Nil
    BY <2>1 DEF Erased
  <2>3. Values(result.root) = {u \in Values(Nil) : KeyOf(u) # k}
    BY <2>2, ContentOfNil
  <2>4. result.rank = r + RankIn(Nil, k)
    BY <2>2, RankOfNil
  <2>5. EraseResult(Nil, k, r, x, result)
    BY <2>1, <2>2, <2>3, <2>4, ContentOfNil, NilIsOrdered DEF EraseResult
  <2> QED
    BY <2>5 DEF result
<1>2. ASSUME NEW left \in Trees, NEW right \in Trees, NEW value \in Value,
             left \in P, right \in P
      PROVE  Node(left, value, right) \in P
  <2>1. Node(left, value, right) \in Trees
    BY NodeIsTree
  <2> SUFFICES ASSUME Ordered(Node(left, value, right)), NEW r \in Nat, NEW x \in Links
               PROVE  EraseResult(Node(left, value, right), k, r, x,
                                  Erase(Node(left, value, right), k, r, x))
    BY <2>1
  <2>2. Ordered(left) /\ Ordered(right)
    BY PartsAreDisjoint
  <2>3. Size(left) \in Nat
    BY TreeProperties
  <2>4. r + 1 + Size(left) \in Nat
    BY <2>3
  <2>5. <<KeyOf(value)>> \in Links
    BY LinkProperties DEF Ordering
  <2>6. /\ EraseResult(right, k, r + 1 + Size(left), x, Erase(right, k, r + 1 + Size(left), x))
        /\ EraseResult(left, k, r, <<KeyOf(value)>>, Erase(left, k, r, <<KeyOf(value)>>))
    BY <1>2, <2>2, <2>4, <2>5
  <2> QED
    BY <2>6, EraseResultOfNode
<1>3. Trees \subseteq P
  <2> HIDE DEF P
  <2> QED
    BY <1>1, <1>2, TreeInduction
<1> QED
  BY <1>3

-----------------------------------------------------------------------------
(* Queries                                                                 *)

\* The position of the first node of a tree whose key is among some keys.
IsFirst(position, t, keys) ==
    \/ \E u \in Values(t) :
          /\ KeyOf(u) \in keys
          /\ \A w \in Values(t) : KeyOf(w) \in keys => ~LessThan(KeyOf(w), KeyOf(u))
          /\ position = Position(RankIn(t, KeyOf(u)), <<KeyOf(u)>>)
    \/ (\A u \in Values(t) : KeyOf(u) \notin keys) /\ position.node = Nil

\* Without a first value there is none to look for.
LEMMA NoneIsFirst ==
    ASSUME NEW t, NEW keys, NEW p, IsFirst(p, t, keys), p.node = Nil
    PROVE  \A u \in Values(t) : KeyOf(u) \notin keys
<1>1. ASSUME NEW u \in Values(t), p = Position(RankIn(t, KeyOf(u)), <<KeyOf(u)>>)
      PROVE  FALSE
  <2>1. p.node = <<KeyOf(u)>>
    BY <1>1, PositionProperties
  <2> QED
    BY <2>1 DEF Nil
<1> QED
  BY <1>1 DEF IsFirst

\* The first one is in the left subtree, or it is the node, or it is in the right
\* subtree, where its rank counts what it has passed.
LEMMA FirstInNode ==
    ASSUME Ordering, NEW left \in Trees, NEW right \in Trees, NEW value \in Value,
           Ordered(Node(left, value, right)), NEW keys, NEW p \in Positions
    PROVE  /\ IsFirst(p, left, keys) /\ p.node # Nil => IsFirst(p, Node(left, value, right), keys)
           /\ (\A u \in Values(left) : KeyOf(u) \notin keys) /\ KeyOf(value) \in keys =>
                 IsFirst(Position(Size(left), <<KeyOf(value)>>), Node(left, value, right), keys)
           /\ (\A u \in Values(left) : KeyOf(u) \notin keys) /\ KeyOf(value) \notin keys /\ IsFirst(p, right, keys) =>
                 IsFirst(Position(Size(left) + 1 + p.idx, p.node), Node(left, value, right), keys)
<1> DEFINE n == Node(left, value, right)
<1>1. /\ \A u \in Values(left) : LessThan(KeyOf(u), KeyOf(value)) /\ ~LessThan(KeyOf(value), KeyOf(u))
      /\ \A u \in Values(right) : LessThan(KeyOf(value), KeyOf(u)) /\ ~LessThan(KeyOf(u), KeyOf(value))
      /\ \A u \in Values(left), w \in Values(right) : ~LessThan(KeyOf(w), KeyOf(u))
  BY PartsAreDisjoint
<1>2. Values(n) = {value} \cup Values(left) \cup Values(right)
  BY ContentOfNode
<1>3. /\ KeyOf(value) \in KeyType
      /\ \A u \in Values(left) \cup Values(right) : KeyOf(u) \in KeyType
  BY ContentProperties DEF Ordering
<1>4. /\ \A u \in Values(left) : RankIn(n, KeyOf(u)) = RankIn(left, KeyOf(u))
      /\ \A u \in Values(right) : RankIn(n, KeyOf(u)) = 1 + Size(left) + RankIn(right, KeyOf(u))
      /\ RankIn(n, KeyOf(value)) = Size(left)
  BY <1>1, <1>3, RankInNode
<1>5. ~LessThan(KeyOf(value), KeyOf(value))
  BY <1>3 DEF Ordering
<1>6. Size(left) \in Nat /\ \A u \in Values(right) : RankIn(right, KeyOf(u)) \in Nat
  BY <1>3, TreeProperties, RankInNode
<1> HIDE DEF n
<1>7. ASSUME IsFirst(p, left, keys), p.node # Nil
      PROVE  IsFirst(p, n, keys)
  <2>1. PICK u \in Values(left) :
          /\ KeyOf(u) \in keys
          /\ \A w \in Values(left) : KeyOf(w) \in keys => ~LessThan(KeyOf(w), KeyOf(u))
          /\ p = Position(RankIn(left, KeyOf(u)), <<KeyOf(u)>>)
    BY <1>7 DEF IsFirst
  <2> QED
    BY <1>1, <1>2, <1>4, <2>1 DEF IsFirst
<1>8. ASSUME \A u \in Values(left) : KeyOf(u) \notin keys, KeyOf(value) \in keys
      PROVE  IsFirst(Position(Size(left), <<KeyOf(value)>>), n, keys)
  BY <1>1, <1>2, <1>4, <1>5, <1>8 DEF IsFirst
<1>9. ASSUME \A u \in Values(left) : KeyOf(u) \notin keys, KeyOf(value) \notin keys, IsFirst(p, right, keys)
      PROVE  IsFirst(Position(Size(left) + 1 + p.idx, p.node), n, keys)
  <2>1. CASE \E u \in Values(right) :
          /\ KeyOf(u) \in keys
          /\ \A w \in Values(right) : KeyOf(w) \in keys => ~LessThan(KeyOf(w), KeyOf(u))
          /\ p = Position(RankIn(right, KeyOf(u)), <<KeyOf(u)>>)
    <3>1. PICK u \in Values(right) :
             /\ KeyOf(u) \in keys
             /\ \A w \in Values(right) : KeyOf(w) \in keys => ~LessThan(KeyOf(w), KeyOf(u))
             /\ p = Position(RankIn(right, KeyOf(u)), <<KeyOf(u)>>)
      BY <2>1
    <3>2. p.idx = RankIn(right, KeyOf(u)) /\ p.node = <<KeyOf(u)>>
      BY <3>1, PositionProperties
    <3>3. Size(left) + 1 + p.idx = RankIn(n, KeyOf(u))
      BY <1>4, <1>6, <3>2
    <3>4. \A w \in Values(n) : KeyOf(w) \in keys => ~LessThan(KeyOf(w), KeyOf(u))
      BY <1>2, <1>9, <3>1
    <3>5. u \in Values(n)
      BY <1>2
    <3> QED
      BY <3>1, <3>2, <3>3, <3>4, <3>5 DEF IsFirst
  <2>2. CASE (\A u \in Values(right) : KeyOf(u) \notin keys) /\ p.node = Nil
    <3>1. Position(Size(left) + 1 + p.idx, p.node).node = Nil
      BY <2>2, PositionProperties
    <3> QED
      BY <1>2, <1>9, <2>2, <3>1 DEF IsFirst
  <2> QED
    BY <1>9, <2>1, <2>2 DEF IsFirst
<1> QED
  BY <1>7, <1>8, <1>9 DEF n

\* Find
LEMMA FindIsFirst ==
    ASSUME Ordering, NEW t \in Trees, Ordered(t), NEW k \in KeyType
    PROVE  IsFirst(Find(t, k), t, {k})
<1> DEFINE P == {n \in Trees : Ordered(n) => IsFirst(Find(n, k), n, {k})}
<1>1. Nil \in P
  BY FindDef, ContentOfNil, PositionProperties, NilProperties DEF IsFirst
<1>2. ASSUME NEW left \in Trees, NEW right \in Trees, NEW value \in Value,
             left \in P, right \in P
      PROVE  Node(left, value, right) \in P
  <2> DEFINE n == Node(left, value, right)
  <2>1. n \in Trees /\ n # Nil /\ n.left = left /\ n.right = right /\ Key(n) = KeyOf(value)
    BY NodeIsTree, NodeProperties
  <2> SUFFICES ASSUME Ordered(n)
               PROVE  IsFirst(Find(n, k), n, {k})
    BY <2>1
  <2>2. /\ Ordered(left) /\ Ordered(right)
        /\ \A u \in Values(left) : LessThan(KeyOf(u), KeyOf(value))
        /\ \A u \in Values(right) : LessThan(KeyOf(value), KeyOf(u))
    BY PartsAreDisjoint
  <2>3. Values(n) = {value} \cup Values(left) \cup Values(right)
    BY ContentOfNode
  <2>4. /\ KeyOf(value) \in KeyType
        /\ \A u \in Values(left) \cup Values(right) : KeyOf(u) \in KeyType
    BY ContentProperties DEF Ordering
  <2>5. Find(left, k) \in Positions /\ Find(right, k) \in Positions
    BY FindDef
  <2>6. IsFirst(Find(left, k), left, {k}) /\ IsFirst(Find(right, k), right, {k})
    BY <1>2, <2>2
  <2>7. /\ IsFirst(Find(left, k), left, {k}) /\ Find(left, k).node # Nil => IsFirst(Find(left, k), n, {k})
        /\ (\A u \in Values(left) : KeyOf(u) \notin {k}) /\ KeyOf(value) \in {k} =>
              IsFirst(Position(Size(left), <<KeyOf(value)>>), n, {k})
        /\ (\A u \in Values(left) : KeyOf(u) \notin {k}) /\ KeyOf(value) \notin {k}
              /\ IsFirst(Find(right, k), right, {k}) =>
              IsFirst(Position(Size(left) + 1 + Find(right, k).idx, Find(right, k).node), n, {k})
    BY <2>5, FirstInNode
  <2> HIDE DEF n
  <2>8. Find(n, k) = FindStep(n, k, Find(left, k), Find(right, k))
    BY <2>1, FindDef
  <2>9. CASE LessThan(k, KeyOf(value))
    <3>1. Find(n, k) = Find(left, k)
      BY <2>1, <2>8, <2>9 DEF FindStep
    <3>2. \A u \in {value} \cup Values(right) : KeyOf(u) # k
      BY <2>2, <2>4, <2>9 DEF Ordering
    <3>3. ASSUME Find(left, k).node = Nil
          PROVE  IsFirst(Find(left, k), n, {k})
      <4>1. \A u \in Values(left) : KeyOf(u) # k
        BY <2>6, <3>3, NoneIsFirst
      <4> QED
        BY <2>3, <3>2, <3>3, <4>1 DEF IsFirst
    <3> QED
      BY <2>6, <2>7, <3>1, <3>3
  <2>10. CASE ~LessThan(k, KeyOf(value)) /\ LessThan(KeyOf(value), k)
    <3>1. Find(n, k) = PastLeft(n, Find(right, k))
      BY <2>1, <2>8, <2>10 DEF FindStep
    <3>2. \A u \in {value} \cup Values(left) : KeyOf(u) # k
      BY <2>2, <2>4, <2>10 DEF Ordering
    <3>3. Find(n, k) = Position(Size(left) + 1 + Find(right, k).idx, Find(right, k).node)
      BY <2>1, <2>5, <3>1, PastLeftProperties
    <3> QED
      BY <2>6, <2>7, <3>2, <3>3
  <2>11. CASE ~LessThan(k, KeyOf(value)) /\ ~LessThan(KeyOf(value), k)
    <3>1. Find(n, k) = Position(Size(left), <<KeyOf(value)>>)
      BY <2>1, <2>8, <2>11 DEF FindStep
    <3>2. KeyOf(value) = k /\ \A u \in Values(left) : KeyOf(u) # k
      BY <2>2, <2>4, <2>11 DEF Ordering
    <3> QED
      BY <2>7, <3>1, <3>2
  <2> QED
    BY <2>9, <2>10, <2>11
<1>3. Trees \subseteq P
  <2> HIDE DEF P
  <2> QED
    BY <1>1, <1>2, TreeInduction
<1> QED
  BY <1>3

\* LowerBound: the first key that is not less than k.
LEMMA LowerBoundIsFirst ==
    ASSUME Ordering, NEW t \in Trees, Ordered(t), NEW k \in KeyType
    PROVE  IsFirst(LowerBound(t, k), t, {j \in KeyType : ~LessThan(j, k)})
<1> DEFINE K == {j \in KeyType : ~LessThan(j, k)}
           P == {n \in Trees : Ordered(n) => IsFirst(LowerBound(n, k), n, K)}
<1>1. Nil \in P
  BY LowerBoundDef, ContentOfNil, PositionProperties, NilProperties DEF IsFirst
<1>2. ASSUME NEW left \in Trees, NEW right \in Trees, NEW value \in Value,
             left \in P, right \in P
      PROVE  Node(left, value, right) \in P
  <2> DEFINE n == Node(left, value, right)
  <2>1. n \in Trees /\ n # Nil /\ n.left = left /\ n.right = right /\ Key(n) = KeyOf(value)
    BY NodeIsTree, NodeProperties
  <2> SUFFICES ASSUME Ordered(n)
               PROVE  IsFirst(LowerBound(n, k), n, K)
    BY <2>1
  <2>2. /\ Ordered(left) /\ Ordered(right)
        /\ \A u \in Values(left) : LessThan(KeyOf(u), KeyOf(value))
        /\ \A u \in Values(right) : LessThan(KeyOf(value), KeyOf(u))
    BY PartsAreDisjoint
  <2>3. Values(n) = {value} \cup Values(left) \cup Values(right)
    BY ContentOfNode
  <2>4. /\ KeyOf(value) \in KeyType
        /\ \A u \in Values(left) \cup Values(right) : KeyOf(u) \in KeyType
    BY ContentProperties DEF Ordering
  <2>5. LowerBound(left, k) \in Positions /\ LowerBound(right, k) \in Positions
    BY LowerBoundDef
  <2>6. IsFirst(LowerBound(left, k), left, K) /\ IsFirst(LowerBound(right, k), right, K)
    BY <1>2, <2>2
  <2>7. /\ IsFirst(LowerBound(left, k), left, K) /\ LowerBound(left, k).node # Nil =>
              IsFirst(LowerBound(left, k), n, K)
        /\ (\A u \in Values(left) : KeyOf(u) \notin K) /\ KeyOf(value) \in K =>
              IsFirst(Position(Size(left), <<KeyOf(value)>>), n, K)
        /\ (\A u \in Values(left) : KeyOf(u) \notin K) /\ KeyOf(value) \notin K
              /\ IsFirst(LowerBound(right, k), right, K) =>
              IsFirst(Position(Size(left) + 1 + LowerBound(right, k).idx, LowerBound(right, k).node), n, K)
    <3> HIDE DEF K
    <3> QED
      BY <2>5, FirstInNode
  <2> HIDE DEF n
  <2>8. LowerBound(n, k) = LowerBoundStep(n, k, LowerBound(left, k), LowerBound(right, k))
    BY <2>1, LowerBoundDef
  <2>9. CASE LessThan(k, KeyOf(value))
    <3>1. LowerBound(n, k) = OrThis(n, LowerBound(left, k))
      BY <2>1, <2>8, <2>9 DEF LowerBoundStep
    <3>2. KeyOf(value) \in K
      BY <2>4, <2>9 DEF Ordering
    <3> HIDE DEF K
    <3>3. CASE LowerBound(left, k).node = Nil
      <4>1. \A u \in Values(left) : KeyOf(u) \notin K
        BY <2>6, <3>3, NoneIsFirst
      <4>2. LowerBound(n, k) = Position(Size(left), <<KeyOf(value)>>)
        BY <2>1, <3>1, <3>3 DEF OrThis
      <4> QED
        BY <2>7, <3>2, <4>1, <4>2
    <3>4. CASE LowerBound(left, k).node # Nil
      BY <2>6, <2>7, <3>1, <3>4 DEF OrThis
    <3> QED
      BY <3>3, <3>4
  <2>10. CASE ~LessThan(k, KeyOf(value)) /\ LessThan(KeyOf(value), k)
    <3>1. LowerBound(n, k) = PastLeft(n, LowerBound(right, k))
      BY <2>1, <2>8, <2>10 DEF LowerBoundStep
    <3>2. \A u \in {value} \cup Values(left) : KeyOf(u) \notin K
      BY <2>2, <2>4, <2>10 DEF Ordering
    <3>3. LowerBound(n, k) = Position(Size(left) + 1 + LowerBound(right, k).idx, LowerBound(right, k).node)
      BY <2>1, <2>5, <3>1, PastLeftProperties
    <3> HIDE DEF K
    <3> QED
      BY <2>6, <2>7, <3>2, <3>3
  <2>11. CASE ~LessThan(k, KeyOf(value)) /\ ~LessThan(KeyOf(value), k)
    <3>1. LowerBound(n, k) = Position(Size(left), <<KeyOf(value)>>)
      BY <2>1, <2>8, <2>11 DEF LowerBoundStep
    <3>2. KeyOf(value) \in K /\ \A u \in Values(left) : KeyOf(u) \notin K
      BY <2>2, <2>4, <2>11 DEF Ordering
    <3> HIDE DEF K
    <3> QED
      BY <2>7, <3>1, <3>2
  <2> QED
    BY <2>9, <2>10, <2>11
<1>3. Trees \subseteq P
  <2> HIDE DEF P
  <2> QED
    BY <1>1, <1>2, TreeInduction
<1> QED
  BY <1>3

\* UpperBound: the first key that is greater than k.
LEMMA UpperBoundIsFirst ==
    ASSUME Ordering, NEW t \in Trees, Ordered(t), NEW k \in KeyType
    PROVE  IsFirst(UpperBound(t, k), t, {j \in KeyType : LessThan(k, j)})
<1> DEFINE K == {j \in KeyType : LessThan(k, j)}
           P == {n \in Trees : Ordered(n) => IsFirst(UpperBound(n, k), n, K)}
<1>1. Nil \in P
  BY UpperBoundDef, ContentOfNil, PositionProperties, NilProperties DEF IsFirst
<1>2. ASSUME NEW left \in Trees, NEW right \in Trees, NEW value \in Value,
             left \in P, right \in P
      PROVE  Node(left, value, right) \in P
  <2> DEFINE n == Node(left, value, right)
  <2>1. n \in Trees /\ n # Nil /\ n.left = left /\ n.right = right /\ Key(n) = KeyOf(value)
    BY NodeIsTree, NodeProperties
  <2> SUFFICES ASSUME Ordered(n)
               PROVE  IsFirst(UpperBound(n, k), n, K)
    BY <2>1
  <2>2. /\ Ordered(left) /\ Ordered(right)
        /\ \A u \in Values(left) : LessThan(KeyOf(u), KeyOf(value))
        /\ \A u \in Values(right) : LessThan(KeyOf(value), KeyOf(u))
    BY PartsAreDisjoint
  <2>3. Values(n) = {value} \cup Values(left) \cup Values(right)
    BY ContentOfNode
  <2>4. /\ KeyOf(value) \in KeyType
        /\ \A u \in Values(left) \cup Values(right) : KeyOf(u) \in KeyType
    BY ContentProperties DEF Ordering
  <2>5. UpperBound(left, k) \in Positions /\ UpperBound(right, k) \in Positions
    BY UpperBoundDef
  <2>6. IsFirst(UpperBound(left, k), left, K) /\ IsFirst(UpperBound(right, k), right, K)
    BY <1>2, <2>2
  <2>7. /\ IsFirst(UpperBound(left, k), left, K) /\ UpperBound(left, k).node # Nil =>
              IsFirst(UpperBound(left, k), n, K)
        /\ (\A u \in Values(left) : KeyOf(u) \notin K) /\ KeyOf(value) \in K =>
              IsFirst(Position(Size(left), <<KeyOf(value)>>), n, K)
        /\ (\A u \in Values(left) : KeyOf(u) \notin K) /\ KeyOf(value) \notin K
              /\ IsFirst(UpperBound(right, k), right, K) =>
              IsFirst(Position(Size(left) + 1 + UpperBound(right, k).idx, UpperBound(right, k).node), n, K)
    <3> HIDE DEF K
    <3> QED
      BY <2>5, FirstInNode
  <2> HIDE DEF n
  <2>8. UpperBound(n, k) = UpperBoundStep(n, k, UpperBound(left, k), UpperBound(right, k))
    BY <2>1, UpperBoundDef
  <2>9. CASE LessThan(k, KeyOf(value))
    <3>1. UpperBound(n, k) = OrThis(n, UpperBound(left, k))
      BY <2>1, <2>8, <2>9 DEF UpperBoundStep
    <3>2. KeyOf(value) \in K
      BY <2>4, <2>9
    <3> HIDE DEF K
    <3>3. CASE UpperBound(left, k).node = Nil
      <4>1. \A u \in Values(left) : KeyOf(u) \notin K
        BY <2>6, <3>3, NoneIsFirst
      <4>2. UpperBound(n, k) = Position(Size(left), <<KeyOf(value)>>)
        BY <2>1, <3>1, <3>3 DEF OrThis
      <4> QED
        BY <2>7, <3>2, <4>1, <4>2
    <3>4. CASE UpperBound(left, k).node # Nil
      BY <2>6, <2>7, <3>1, <3>4 DEF OrThis
    <3> QED
      BY <3>3, <3>4
  <2>10. CASE ~LessThan(k, KeyOf(value))
    <3>1. UpperBound(n, k) = PastLeft(n, UpperBound(right, k))
      BY <2>1, <2>8, <2>10 DEF UpperBoundStep
    <3>2. \A u \in {value} \cup Values(left) : KeyOf(u) \notin K
      BY <2>2, <2>4, <2>10 DEF Ordering
    <3>3. UpperBound(n, k) = Position(Size(left) + 1 + UpperBound(right, k).idx, UpperBound(right, k).node)
      BY <2>1, <2>5, <3>1, PastLeftProperties
    <3> HIDE DEF K
    <3> QED
      BY <2>6, <2>7, <3>2, <3>3
  <2> QED
    BY <2>9, <2>10
<1>3. Trees \subseteq P
  <2> HIDE DEF P
  <2> QED
    BY <1>1, <1>2, TreeInduction
<1> QED
  BY <1>3

\* Select finds the key of every rank, and the keys have ranks below the size.
LEMMA SelectsByRank ==
    ASSUME Ordering, NEW t \in Trees, Ordered(t)
    PROVE  /\ \A u \in Values(t) : /\ RankIn(t, KeyOf(u)) \in Nat /\ RankIn(t, KeyOf(u)) < Size(t)
                                   /\ Select(t, RankIn(t, KeyOf(u))) = <<KeyOf(u)>>
           /\ \A i \in Nat : i < Size(t) =>
                 \E u \in Values(t) : i = RankIn(t, KeyOf(u)) /\ Select(t, i) = <<KeyOf(u)>>
<1> DEFINE Q(n) == /\ \A u \in Values(n) : /\ RankIn(n, KeyOf(u)) \in Nat /\ RankIn(n, KeyOf(u)) < Size(n)
                                           /\ Select(n, RankIn(n, KeyOf(u))) = <<KeyOf(u)>>
                   /\ \A i \in Nat : i < Size(n) =>
                         \E u \in Values(n) : i = RankIn(n, KeyOf(u)) /\ Select(n, i) = <<KeyOf(u)>>
           P == {n \in Trees : Ordered(n) => Q(n)}
<1>1. Nil \in P
  BY ContentOfNil, NilProperties
<1>2. ASSUME NEW left \in Trees, NEW right \in Trees, NEW value \in Value,
             left \in P, right \in P
      PROVE  Node(left, value, right) \in P
  <2> DEFINE n == Node(left, value, right)
  <2>1. /\ n \in Trees /\ n # Nil /\ n.left = left /\ n.right = right /\ Key(n) = KeyOf(value)
        /\ Size(n) = 1 + Size(left) + Size(right)
    BY NodeIsTree, NodeProperties
  <2> SUFFICES ASSUME Ordered(n)
               PROVE  Q(n)
    BY <2>1
  <2>2. /\ Ordered(left) /\ Ordered(right)
        /\ \A u \in Values(left) : LessThan(KeyOf(u), KeyOf(value)) /\ ~LessThan(KeyOf(value), KeyOf(u))
        /\ \A u \in Values(right) : LessThan(KeyOf(value), KeyOf(u))
    BY PartsAreDisjoint
  <2>3. Values(n) = {value} \cup Values(left) \cup Values(right)
    BY ContentOfNode
  <2>4. /\ KeyOf(value) \in KeyType
        /\ \A u \in Values(left) \cup Values(right) : KeyOf(u) \in KeyType
    BY ContentProperties DEF Ordering
  <2>5. Size(left) \in Nat /\ Size(right) \in Nat
    BY TreeProperties
  <2>6. /\ \A u \in Values(left) : RankIn(n, KeyOf(u)) = RankIn(left, KeyOf(u))
        /\ \A u \in Values(right) : RankIn(n, KeyOf(u)) = 1 + Size(left) + RankIn(right, KeyOf(u))
        /\ RankIn(n, KeyOf(value)) = Size(left)
    BY <2>2, <2>4, RankInNode
  <2> HIDE DEF n
  <2>7. Q(left) /\ Q(right)
    BY <1>2, <2>2
  <2>8. \A i \in Nat : i < Size(n) =>
           Select(n, i) = IF Size(left) = i THEN <<KeyOf(value)>>
                          ELSE IF Size(left) > i THEN Select(left, i)
                          ELSE Select(right, i - Size(left) - 1)
    <3> SUFFICES ASSUME NEW i \in Nat, i < Size(n)
                 PROVE  Select(n, i) = IF Size(left) = i THEN <<KeyOf(value)>>
                                       ELSE IF Size(left) > i THEN Select(left, i)
                                       ELSE Select(right, i - Size(left) - 1)
      OBVIOUS
    <3>1. Size(n) > i
      BY <2>1, <2>5
    <3>2. Select(n, i) = IF Size(n.left) = i THEN <<Key(n)>>
                         ELSE IF Size(n.left) > i THEN Select(n.left, i)
                         ELSE Select(n.right, i - Size(n.left) - 1)
      BY <2>1, <3>1, SelectDef, Zenon
    <3> QED
      BY <2>1, <3>2, Zenon
  <2>9. ASSUME NEW u \in Values(n)
        PROVE  /\ RankIn(n, KeyOf(u)) \in Nat /\ RankIn(n, KeyOf(u)) < Size(n)
               /\ Select(n, RankIn(n, KeyOf(u))) = <<KeyOf(u)>>
    <3>1. CASE u = value
      BY <2>1, <2>5, <2>6, <2>8, <3>1
    <3>2. CASE u \in Values(left)
      BY <2>1, <2>5, <2>6, <2>7, <2>8, <3>2
    <3>3. CASE u \in Values(right)
      <4>1. /\ RankIn(right, KeyOf(u)) \in Nat /\ RankIn(right, KeyOf(u)) < Size(right)
            /\ Select(right, RankIn(right, KeyOf(u))) = <<KeyOf(u)>>
        BY <2>7, <3>3
      <4>2. RankIn(n, KeyOf(u)) = 1 + Size(left) + RankIn(right, KeyOf(u))
        BY <2>6, <3>3
      <4>3. /\ RankIn(n, KeyOf(u)) \in Nat /\ RankIn(n, KeyOf(u)) < Size(n)
            /\ RankIn(n, KeyOf(u)) # Size(left) /\ ~(Size(left) > RankIn(n, KeyOf(u)))
            /\ RankIn(n, KeyOf(u)) - Size(left) - 1 = RankIn(right, KeyOf(u))
        BY <2>1, <2>5, <4>1, <4>2
      <4> QED
        BY <2>8, <4>1, <4>3
    <3> QED
      BY <2>3, <3>1, <3>2, <3>3
  <2>10. ASSUME NEW i \in Nat, i < Size(n)
         PROVE  \E u \in Values(n) : i = RankIn(n, KeyOf(u)) /\ Select(n, i) = <<KeyOf(u)>>
    <3>1. CASE Size(left) = i
      BY <2>3, <2>6, <2>8, <2>10, <3>1
    <3>2. CASE Size(left) > i
      <4>1. PICK u \in Values(left) : i = RankIn(left, KeyOf(u)) /\ Select(left, i) = <<KeyOf(u)>>
        BY <2>5, <2>7, <3>2
      <4>2. Select(n, i) = Select(left, i)
        BY <2>5, <2>8, <2>10, <3>2
      <4> QED
        BY <2>3, <2>6, <4>1, <4>2
    <3>3. CASE Size(left) < i
      <4> DEFINE j == i - Size(left) - 1
      <4>1. j \in Nat /\ j < Size(right) /\ i = 1 + Size(left) + j
        BY <2>1, <2>5, <2>10, <3>3
      <4>2. Select(n, i) = Select(right, j)
        BY <2>5, <2>8, <2>10, <3>3
      <4> HIDE DEF j
      <4>3. PICK u \in Values(right) : j = RankIn(right, KeyOf(u)) /\ Select(right, j) = <<KeyOf(u)>>
        BY <2>7, <4>1
      <4> QED
        BY <2>3, <2>6, <4>1, <4>2, <4>3
    <3> QED
      BY <2>5, <3>1, <3>2, <3>3
  <2> QED
    BY <2>9, <2>10
<1>3. Trees \subseteq P
  <2> HIDE DEF P
  <2> QED
    BY <1>1, <1>2, TreeInduction
<1> QED
  BY <1>3

=============================================================================
