--------------------------- MODULE OSTreeHeadProofs ---------------------------
(***************************************************************************)
(* Proofs about OSTreeHead for every set of timestamps and values: in      *)
(* whatever order entries are inserted and removed, the tree holds them in *)
(* order, finds them at their ranks, and stays within the bounds that the  *)
(* comments of ostree.cc promise.                                          *)
(*                                                                         *)
(* The lemmas about the operators of OSTree are for the simulator that     *)
(* uses the tree, too.                                                     *)
(***************************************************************************)
EXTENDS OSTreeHead, FiniteSetTheorems, SequenceTheorems, TLAPS

\* The proofs about trees with sizes, for the trees of this module.
Raw == INSTANCE RawOrderStatisticSetProofs WITH
    KeyType <- Nat, Value <- Entry, LessThan <- Later, KeyOf <- TimestampOf

-----------------------------------------------------------------------------
(* Trees with sizes                                                        *)

\* The trees of the two modules are the same, and so is what is said of them.
LEMMA SameTrees ==
    /\ Nil = Raw!Nil
    /\ \A n : Size(n) = Raw!Size(n) /\ Key(n) = Raw!Key(n)
    /\ Tree = Raw!Tree
    /\ \A n : Below(n) = Raw!Below(n)
    /\ \A l, v, r : Node(l, v, r) = Raw!Node(l, v, r)
BY DEF Nil, Raw!Nil, Size, Raw!Size, Key, Raw!Key, Tree, Raw!Tree, Below, Raw!Below, Node, Raw!Node

LEMMA SameContents ==
    /\ \A n : Nodes(n) = Raw!Nodes(n)
    /\ \A n : Values(n) = Raw!Values(n)
    /\ \A n : Keys(n) = Raw!Keys(n)
    /\ \A S : Cardinality(S) = Raw!Cardinality(S)
    /\ \A n : IsSearchTree(n) <=> Raw!IsSearchTree(n)
<1>1. \A n : Nodes(n) = Raw!Nodes(n)
  BY DEF Nodes, Raw!Nodes, Nil, Raw!Nil, Size, Raw!Size, Tree, Raw!Tree, Below, Raw!Below
<1>2. \A n : Values(n) = Raw!Values(n) /\ Keys(n) = Raw!Keys(n)
  BY <1>1, SameTrees DEF Values, Raw!Values, Keys, Raw!Keys
<1>3. \A S : Cardinality(S) = Raw!Cardinality(S)
  BY DEF Cardinality, Raw!Cardinality
<1>4. \A n : IsSearchTree(n) <=> Raw!IsSearchTree(n)
  BY <1>1, <1>2, <1>3, SameTrees, Zenon DEF IsSearchTree, Raw!IsSearchTree
<1> QED
  BY <1>1, <1>2, <1>3, <1>4

\* The trees of any height.
Trees == UNION {Tree[h] : h \in Nat}

Ordered(t) ==
    \A n \in Nodes(t) :
        /\ \A k \in Keys(n.left) : k > Key(n)
        /\ \A k \in Keys(n.right) : Key(n) > k

\* The entries that are later than a timestamp.
RankIn(t, ts) == Cardinality({e \in Values(t) : e.ts > ts})

LEMMA SameNotions ==
    /\ Trees = Raw!Trees
    /\ \A t : Ordered(t) <=> Raw!Ordered(t)
    /\ \A t, k : RankIn(t, k) = Raw!RankIn(t, k)
<1>1. Trees = Raw!Trees
  BY SameTrees DEF Trees, Raw!Trees
<1>2. \A t : Ordered(t) <=> Raw!Ordered(t)
  BY SameTrees, SameContents DEF Ordered, Raw!Ordered, Later
<1>3. \A t, k : RankIn(t, k) = Raw!RankIn(t, k)
  BY SameContents DEF RankIn, Raw!RankIn, Later, TimestampOf
<1> QED
  BY <1>1, <1>2, <1>3

\* Later timestamps come first.
LEMMA LaterFirst == Raw!Ordering
BY DEF Raw!Ordering, Later, TimestampOf, Entry

LEMMA NodeProperties ==
    ASSUME NEW left, NEW right, NEW value
    PROVE  /\ Node(left, value, right) # Nil
           /\ Node(left, value, right).left = left
           /\ Node(left, value, right).right = right
           /\ Node(left, value, right).value = value
           /\ Node(left, value, right).size = 1 + Size(left) + Size(right)
           /\ Size(Node(left, value, right)) = 1 + Size(left) + Size(right)
           /\ Key(Node(left, value, right)) = value.ts
<1>1. /\ Node(left, value, right) # Nil
      /\ Node(left, value, right).left = left
      /\ Node(left, value, right).right = right
      /\ Node(left, value, right).value = value
      /\ Size(Node(left, value, right)) = 1 + Size(left) + Size(right)
  BY Raw!NodeProperties, SameTrees
<1> QED
  BY <1>1 DEF Node, Key, TimestampOf

LEMMA NilProperties == Size(Nil) = 0 /\ Nil \in Trees
BY Raw!NilProperties, SameTrees, SameNotions

LEMMA TreeProperties ==
    ASSUME NEW t \in Trees
    PROVE  /\ Size(t) \in Nat
           /\ Size(t) = 0 <=> t = Nil
           /\ t # Nil => /\ t.left \in Trees /\ t.right \in Trees
                         /\ t.value \in Entry
                         /\ t = Node(t.left, t.value, t.right)
                         /\ t.size = Size(t)
                         /\ Size(t) = 1 + Size(t.left) + Size(t.right)
<1>1. /\ Size(t) \in Nat
      /\ Size(t) = 0 <=> t = Nil
      /\ t # Nil => /\ t.left \in Trees /\ t.right \in Trees
                    /\ t.value \in Entry
                    /\ t = Node(t.left, t.value, t.right)
                    /\ Size(t) = 1 + Size(t.left) + Size(t.right)
  BY Raw!TreeProperties, SameTrees, SameNotions
<1> QED
  BY <1>1 DEF Size

LEMMA NodeIsTree ==
    ASSUME NEW left \in Trees, NEW right \in Trees, NEW value \in Entry
    PROVE  Node(left, value, right) \in Trees
BY Raw!NodeIsTree, SameTrees, SameNotions

LEMMA TreeInduction ==
    ASSUME NEW P, Nil \in P,
           \A left, right \in Trees : \A value \in Entry :
              left \in P /\ right \in P => Node(left, value, right) \in P
    PROVE  Trees \subseteq P
BY Raw!TreeInduction, SameTrees, SameNotions

LEMMA TreeIsBelow ==
    ASSUME NEW t \in Trees
    PROVE  /\ t \in Below(t) /\ Nil \in Below(t)
           /\ Below(t) \subseteq Trees
           /\ \A m \in Below(t) : m # Nil => m.left \in Below(t) /\ m.right \in Below(t)
BY Raw!TreeIsBelow, Raw!NilIsBelow, SameTrees, SameNotions

LEMMA NodesOfTree ==
    /\ Nodes(Nil) = {}
    /\ \A t \in Trees : /\ Nodes(t) \subseteq Trees \ {Nil}
                        /\ t # Nil => Nodes(t) = {t} \cup Nodes(t.left) \cup Nodes(t.right)
BY Raw!NodesDef, SameTrees, SameContents, SameNotions

LEMMA NodesOfNode ==
    ASSUME NEW left \in Trees, NEW right \in Trees, NEW value \in Entry
    PROVE  Nodes(Node(left, value, right)) = {Node(left, value, right)} \cup Nodes(left) \cup Nodes(right)
BY Raw!NodesOfNode, SameTrees, SameContents, SameNotions

LEMMA ContentOfNode ==
    ASSUME NEW left \in Trees, NEW right \in Trees, NEW value \in Entry
    PROVE  /\ Values(Node(left, value, right)) = {value} \cup Values(left) \cup Values(right)
           /\ Keys(Node(left, value, right)) = {value.ts} \cup Keys(left) \cup Keys(right)
BY Raw!ContentOfNode, SameTrees, SameContents, SameNotions DEF TimestampOf

LEMMA ContentOfNil == Values(Nil) = {} /\ Keys(Nil) = {}
BY Raw!ContentOfNil, SameTrees, SameContents

LEMMA ContentProperties ==
    ASSUME NEW t \in Trees
    PROVE  /\ Values(t) \subseteq Entry
           /\ Keys(t) = {e.ts : e \in Values(t)}
BY Raw!ContentProperties, SameContents, SameNotions DEF TimestampOf

LEMMA OrderedNode ==
    ASSUME NEW left \in Trees, NEW right \in Trees, NEW value \in Entry
    PROVE  Ordered(Node(left, value, right)) <=>
             /\ Ordered(left) /\ Ordered(right)
             /\ \A e \in Values(left) : e.ts > value.ts
             /\ \A e \in Values(right) : value.ts > e.ts
<1>1. Ordered(Node(left, value, right)) <=>
        /\ Ordered(left) /\ Ordered(right)
        /\ \A k \in Keys(left) : k > value.ts
        /\ \A k \in Keys(right) : value.ts > k
  BY Raw!OrderedNode, SameTrees, SameContents, SameNotions DEF Later, TimestampOf
<1> QED
  BY <1>1, ContentProperties

LEMMA NilIsOrdered == Ordered(Nil)
BY Raw!NilIsOrdered, SameTrees, SameNotions

LEMMA OrderedIsSearchTree ==
    ASSUME NEW t \in Trees, Ordered(t)
    PROVE  IsSearchTree(t)
BY Raw!OrderedIsSearchTree, LaterFirst, SameContents, SameNotions

LEMMA SizeCounts ==
    ASSUME NEW t \in Trees, Ordered(t)
    PROVE  IsFiniteSet(Values(t)) /\ Cardinality(Values(t)) = Size(t)
<1>1. \A S : IsFiniteSet(S) <=> Raw!IsFiniteSet(S)
  BY DEF IsFiniteSet, Raw!IsFiniteSet
<1> QED
  BY <1>1, Raw!SizeCounts, LaterFirst, SameTrees, SameContents, SameNotions

LEMMA KeysDiffer ==
    ASSUME NEW t \in Trees, Ordered(t)
    PROVE  \A d, e \in Values(t) : d.ts = e.ts => d = e
BY Raw!KeysDiffer, LaterFirst, SameContents, SameNotions DEF TimestampOf

LEMMA RankInNode ==
    ASSUME NEW left \in Trees, NEW right \in Trees, NEW value \in Entry,
           Ordered(Node(left, value, right)), NEW ts \in Nat
    PROVE  /\ RankIn(left, ts) \in Nat /\ RankIn(right, ts) \in Nat
           /\ value.ts > ts =>
                 RankIn(Node(left, value, right), ts) = 1 + Size(left) + RankIn(right, ts)
           /\ ~(value.ts > ts) => RankIn(Node(left, value, right), ts) = RankIn(left, ts)
           /\ ts = value.ts => RankIn(Node(left, value, right), ts) = Size(left)
BY Raw!RankInNode, LaterFirst, SameTrees, SameContents, SameNotions DEF Later, TimestampOf

LEMMA RankIsBounded ==
    ASSUME NEW t \in Trees, Ordered(t), NEW ts \in Nat
    PROVE  RankIn(t, ts) \in Nat /\ RankIn(t, ts) <= Size(t)
BY Raw!RankIsBounded, LaterFirst, SameTrees, SameNotions


-----------------------------------------------------------------------------
(* Recursion                                                               *)

\* What a set of natural numbers needs in order to contain all of them.
LEMMA SetOfNaturals ==
    ASSUME NEW P, 0 \in P, \A n \in Nat : n \in P => n + 1 \in P
    PROVE  Nat \subseteq P
BY Raw!SetOfNaturals

\* An induction over ranks.
LEMMA RankInduction ==
    ASSUME NEW S, NEW rank \in [S -> Nat], NEW P,
           \A x \in S : (\A y \in S : rank[y] < rank[x] => y \in P) => x \in P
    PROVE  S \subseteq P
<1> DEFINE Q == {n \in Nat : \A x \in S : rank[x] < n => x \in P}
<1>1. 0 \in Q
  OBVIOUS
<1>2. ASSUME NEW n \in Nat, n \in Q PROVE n + 1 \in Q
  <2>1. ASSUME NEW x \in S, rank[x] < n + 1 PROVE x \in P
    <3>1. \A y \in S : rank[y] < rank[x] => y \in P
      BY <1>2, <2>1
    <3> QED
      BY <3>1
  <2> QED
    BY <2>1
<1>3. Nat \subseteq Q
  <2> HIDE DEF Q
  <2> QED
    BY <1>1, <1>2, SetOfNaturals
<1>4. \A x \in S : rank[x] + 1 \in Q /\ rank[x] < rank[x] + 1
  BY <1>3
<1> QED
  BY <1>4

\* f is computed by recursion from x to the smaller a[x] and b[x].
Recurs(f, X, inner, a, b, leaf, step) ==
    \A x \in X : f[x] = IF x \in inner THEN step[<<x, f[a[x]], f[b[x]]>>] ELSE leaf[x]

\* A recursion that goes down in ranks has a result, of the types T.
LEMMA RankedRecursion ==
    ASSUME NEW S, NEW rank \in [S -> Nat], NEW C, NEW T \in [S -> SUBSET C],
           NEW inner, NEW a \in [S -> S], NEW b \in [S -> S],
           \A x \in S : x \in inner => rank[a[x]] < rank[x] /\ rank[b[x]] < rank[x],
           NEW leaf, \A x \in S : x \notin inner => leaf[x] \in T[x],
           NEW step, \A x \in S : x \in inner =>
                        \A u \in T[a[x]], v \in T[b[x]] : step[<<x, u, v>>] \in T[x]
    PROVE  \E f : /\ \A x \in S : f[x] \in T[x]
                  /\ Recurs(f, S, inner, a, b, leaf, step)
<1> DEFINE X(n) == {x \in S : rank[x] < n}
           Good(f, n) == /\ \A x \in X(n) : f[x] \in T[x]
                         /\ Recurs(f, X(n), inner, a, b, leaf, step)
           P == {n \in Nat : \E f : Good(f, n)}
<1>1. 0 \in P
  <2>1. X(0) = {}
    OBVIOUS
  <2>2. Good(<<>>, 0)
    BY <2>1 DEF Recurs
  <2> QED
    BY <2>2
<1>2. ASSUME NEW n \in Nat, n \in P PROVE n + 1 \in P
  <2>1. PICK f : Good(f, n)
    BY <1>2
  <2> DEFINE g == [x \in X(n + 1) |-> IF x \in inner THEN step[<<x, f[a[x]], f[b[x]]>>] ELSE leaf[x]]
  <2>2. \A x \in X(n) : x \in X(n + 1) /\ g[x] = f[x]
    BY <2>1 DEF Recurs
  <2>3. \A x \in X(n + 1) : x \in inner => a[x] \in X(n) /\ b[x] \in X(n)
    <3> SUFFICES ASSUME NEW x \in X(n + 1), x \in inner
                 PROVE  a[x] \in X(n) /\ b[x] \in X(n)
      OBVIOUS
    <3>1. /\ x \in S /\ rank[x] \in Nat /\ rank[x] < n + 1
          /\ a[x] \in S /\ b[x] \in S /\ rank[a[x]] \in Nat /\ rank[b[x]] \in Nat
          /\ rank[a[x]] < rank[x] /\ rank[b[x]] < rank[x]
      OBVIOUS
    <3> QED
      BY <3>1
  <2>4. \A x \in X(n + 1) : g[x] = IF x \in inner THEN step[<<x, f[a[x]], f[b[x]]>>] ELSE leaf[x]
    OBVIOUS
  <2> HIDE DEF g
  <2>5. ASSUME NEW x \in X(n + 1)
        PROVE  g[x] \in T[x]
    <3>1. CASE x \in inner
      <4>1. f[a[x]] \in T[a[x]] /\ f[b[x]] \in T[b[x]]
        BY <2>1, <2>3, <3>1
      <4>2. step[<<x, f[a[x]], f[b[x]]>>] \in T[x]
        BY <3>1, <4>1
      <4> QED
        BY <2>4, <3>1, <4>2
    <3>2. CASE x \notin inner
      BY <2>4, <3>2
    <3> QED
      BY <3>1, <3>2
  <2>6. Recurs(g, X(n + 1), inner, a, b, leaf, step)
    <3> SUFFICES ASSUME NEW x \in X(n + 1)
                 PROVE  g[x] = IF x \in inner THEN step[<<x, g[a[x]], g[b[x]]>>] ELSE leaf[x]
      BY DEF Recurs
    <3>1. x \in inner => g[a[x]] = f[a[x]] /\ g[b[x]] = f[b[x]]
      BY <2>2, <2>3
    <3> HIDE DEF X
    <3> QED
      BY <2>4, <3>1
  <2>7. Good(g, n + 1)
    BY <2>5, <2>6
  <2> HIDE DEF Good
  <2> QED
    BY <2>7
<1>3. Nat \subseteq P
  <2> HIDE DEF P
  <2> QED
    BY <1>1, <1>2, SetOfNaturals
<1> DEFINE G(n) == CHOOSE f : Good(f, n)
           F == [x \in S |-> G(rank[x] + 1)[x]]
<1>4. \A n \in Nat : Good(G(n), n)
  BY <1>3
<1> HIDE DEF G
<1>5. ASSUME NEW x \in S
      PROVE  \A n \in Nat : rank[x] < n => F[x] = G(n)[x]
  <2> DEFINE Q == {y \in S : \A m, n \in Nat : rank[y] < m /\ rank[y] < n => G(m)[y] = G(n)[y]}
  <2>1. ASSUME NEW y \in S, \A z \in S : rank[z] < rank[y] => z \in Q
        PROVE  y \in Q
    <3> SUFFICES ASSUME NEW m \in Nat, NEW n \in Nat, rank[y] < m, rank[y] < n
                 PROVE  G(m)[y] = G(n)[y]
      OBVIOUS
    <3>1. /\ G(m)[y] = IF y \in inner THEN step[<<y, G(m)[a[y]], G(m)[b[y]]>>] ELSE leaf[y]
          /\ G(n)[y] = IF y \in inner THEN step[<<y, G(n)[a[y]], G(n)[b[y]]>>] ELSE leaf[y]
      <4>1. y \in X(m) /\ y \in X(n)
        OBVIOUS
      <4> HIDE DEF X
      <4> QED
        BY <1>4, <4>1 DEF Recurs
    <3>2. ASSUME y \in inner
          PROVE  G(m)[a[y]] = G(n)[a[y]] /\ G(m)[b[y]] = G(n)[b[y]]
      <4>1. /\ a[y] \in Q /\ b[y] \in Q
            /\ rank[y] \in Nat /\ rank[a[y]] \in Nat /\ rank[b[y]] \in Nat
            /\ rank[a[y]] < rank[y] /\ rank[b[y]] < rank[y]
        BY <2>1, <3>2
      <4>2. rank[a[y]] < m /\ rank[a[y]] < n /\ rank[b[y]] < m /\ rank[b[y]] < n
        BY <4>1
      <4> QED
        BY <4>1, <4>2
    <3> QED
      BY <3>1, <3>2
  <2>2. S \subseteq Q
    <3> HIDE DEF Q
    <3> QED
      BY <2>1, RankInduction
  <2>3. rank[x] + 1 \in Nat /\ rank[x] < rank[x] + 1
    OBVIOUS
  <2> QED
    BY <2>2, <2>3
<1>6. ASSUME NEW x \in S
      PROVE  /\ F[x] \in T[x]
             /\ F[x] = IF x \in inner THEN step[<<x, F[a[x]], F[b[x]]>>] ELSE leaf[x]
  <2> DEFINE n == rank[x] + 1
  <2>1. n \in Nat /\ x \in X(n) /\ rank[x] < n
    OBVIOUS
  <2>2. F[x] = G(n)[x]
    BY <1>5, <2>1
  <2>3. ASSUME x \in inner PROVE F[a[x]] = G(n)[a[x]] /\ F[b[x]] = G(n)[b[x]]
    <3>1. rank[a[x]] < n /\ rank[b[x]] < n /\ a[x] \in S /\ b[x] \in S
      BY <2>1, <2>3
    <3> HIDE DEF n, F
    <3> QED
      BY <1>5, <2>1, <3>1
  <2> HIDE DEF F, n, X
  <2>4. /\ G(n)[x] \in T[x]
        /\ G(n)[x] = IF x \in inner THEN step[<<x, G(n)[a[x]], G(n)[b[x]]>>] ELSE leaf[x]
    BY <1>4, <2>1 DEF Recurs
  <2> QED
    BY <2>2, <2>3, <2>4
<1> HIDE DEF F
<1> QED
  BY <1>6 DEF Recurs


\* A set of trees that has the subtrees of each.
HasSubtrees(S) ==
    /\ S \subseteq Trees
    /\ Nil \in S
    /\ \A m \in S : m # Nil => m.left \in S /\ m.right \in S

\* F is computed on S from its values at subtrees, and has values of types T.
Follows(F, S, T, D, base, step) ==
    /\ F[Nil] = base
    /\ \A m \in S : F[m] \in T[m]
    /\ \A m \in S : m # Nil => /\ <<m, F[m.left], F[m.right]>> \in D
                               /\ F[m] = step[<<m, F[m.left], F[m.right]>>]

\* Recursion over trees.
LEMMA TreeRecursion ==
    ASSUME NEW S, HasSubtrees(S), NEW C, NEW T \in [S -> SUBSET C], NEW base \in T[Nil],
           NEW D, D = (S \ {Nil}) \X C \X C, NEW step,
           \A m \in S \ {Nil} : \A u \in C, v \in C :
              u \in T[m.left] /\ v \in T[m.right] => step[<<m, u, v>>] \in T[m]
    PROVE  \E F : Follows(F, S, T, D, base, step)
<1> DEFINE rank == [m \in S |-> Size(m)]
           inner == S \ {Nil}
           a == [m \in S |-> IF m = Nil THEN Nil ELSE m.left]
           b == [m \in S |-> IF m = Nil THEN Nil ELSE m.right]
           leaf == [m \in S |-> base]
<1>1. rank \in [S -> Nat] /\ a \in [S -> S] /\ b \in [S -> S]
  BY TreeProperties DEF HasSubtrees
<1>2. \A m \in S : m \in inner =>
         a[m] = m.left /\ b[m] = m.right /\ rank[a[m]] < rank[m] /\ rank[b[m]] < rank[m]
  <2> SUFFICES ASSUME NEW m \in S, m # Nil
               PROVE  a[m] = m.left /\ b[m] = m.right /\ rank[a[m]] < rank[m] /\ rank[b[m]] < rank[m]
    OBVIOUS
  <2>1. /\ m \in Trees /\ m.left \in S /\ m.right \in S
        /\ Size(m) = 1 + Size(m.left) + Size(m.right)
    BY TreeProperties DEF HasSubtrees
  <2>2. Size(m.left) \in Nat /\ Size(m.right) \in Nat
    BY <2>1, TreeProperties
  <2> QED
    BY <2>1, <2>2
<1>3. \A m \in S : m \notin inner => m = Nil /\ leaf[m] = base
  OBVIOUS
<1> HIDE DEF rank, a, b, leaf
<1>4. \A m \in S : T[m] \subseteq C
  OBVIOUS
<1>5. \A m \in S : m \in inner =>
         \A u \in T[a[m]], v \in T[b[m]] : step[<<m, u, v>>] \in T[m]
  <2> SUFFICES ASSUME NEW m \in S, m # Nil, NEW u \in T[m.left], NEW v \in T[m.right]
               PROVE  step[<<m, u, v>>] \in T[m]
    BY <1>2
  <2>1. u \in C /\ v \in C
    BY <1>4 DEF HasSubtrees
  <2> QED
    BY <2>1
<1>6. PICK F : /\ \A m \in S : F[m] \in T[m]
               /\ Recurs(F, S, inner, a, b, leaf, step)
  <2>1. \A m \in S : m \notin inner => leaf[m] \in T[m]
    BY <1>3
  <2>2. \A m \in S : m \in inner => rank[a[m]] < rank[m] /\ rank[b[m]] < rank[m]
    BY <1>2
  <2> HIDE DEF inner
  <2> QED
    BY <1>1, <1>5, <2>1, <2>2, RankedRecursion
<1>7. F[Nil] = base
  BY <1>3, <1>6 DEF Recurs, HasSubtrees
<1>8. \A m \in S : m # Nil => F[m] = step[<<m, F[m.left], F[m.right]>>]
  BY <1>2, <1>6 DEF Recurs
<1>9. \A m \in S : m # Nil => <<m, F[m.left], F[m.right]>> \in D
  BY <1>4, <1>6 DEF HasSubtrees
<1> QED
  BY <1>6, <1>7, <1>8, <1>9 DEF Follows

\* All trees are such a set, and those in order.
LEMMA TreesHaveSubtrees == HasSubtrees(Trees)
BY TreeProperties, NilProperties DEF HasSubtrees

OrderedTrees == {t \in Trees : Ordered(t)}

LEMMA OrderedTreesHaveSubtrees == HasSubtrees(OrderedTrees)
<1> SUFFICES ASSUME NEW t \in Trees, Ordered(t), t # Nil
             PROVE  Ordered(t.left) /\ Ordered(t.right)
  BY TreesHaveSubtrees, NilIsOrdered DEF HasSubtrees, OrderedTrees
<1>1. /\ t.left \in Trees /\ t.right \in Trees /\ t.value \in Entry
      /\ t = Node(t.left, t.value, t.right)
  BY TreeProperties
<1> QED
  BY <1>1, OrderedNode

\* A function that is computed on the subtrees of t like F agrees with it.
LEMMA SameBelow ==
    ASSUME NEW S, HasSubtrees(S), NEW t \in S, NEW F, NEW h,
           \A m \in Below(t) :
              /\ m \in S
              /\ m # Nil => h[m.left] = F[m.left] /\ h[m.right] = F[m.right]
              => h[m] = F[m]
    PROVE  h[t] = F[t]
<1> DEFINE P == {m \in Trees : m \in S /\ m \in Below(t) => h[m] = F[m]}
<1>1. t \in Trees /\ S \subseteq Trees
  BY DEF HasSubtrees
<1>2. Nil \in P
  BY NilProperties
<1>3. ASSUME NEW left \in Trees, NEW right \in Trees, NEW value \in Entry,
             left \in P, right \in P
      PROVE  Node(left, value, right) \in P
  <2> DEFINE m == Node(left, value, right)
  <2>1. m \in Trees /\ m # Nil /\ m.left = left /\ m.right = right
    BY NodeIsTree, NodeProperties
  <2> HIDE DEF m
  <2>2. ASSUME m \in S, m \in Below(t) PROVE h[m] = F[m]
    <3>1. left \in Below(t) /\ right \in Below(t) /\ left \in S /\ right \in S
      BY <1>1, <2>1, <2>2, TreeIsBelow DEF HasSubtrees
    <3>2. h[left] = F[left] /\ h[right] = F[right]
      BY <1>3, <3>1
    <3> QED
      BY <2>1, <2>2, <3>2
  <2> QED
    BY <2>1, <2>2 DEF m
<1>4. Trees \subseteq P
  <2> HIDE DEF P
  <2> QED
    BY <1>2, <1>3, TreeInduction
<1> QED
  BY <1>1, <1>4, TreeIsBelow

-----------------------------------------------------------------------------
(* The entries from left to right                                          *)

\* ToArray() satisfies its definition.
LEMMA ToArrayDef ==
    /\ ToArray(Nil) = <<>>
    /\ \A t \in Trees :
          /\ ToArray(t) \in Seq(Entry)
          /\ t # Nil => ToArray(t) = ToArray(t.left) \o <<t.value>> \o ToArray(t.right)
<1> DEFINE C == Seq(Entry)
           D == (Trees \ {Nil}) \X C \X C
           T == [m \in Trees |-> C]
           step == [x \in D |-> x[2] \o <<x[1].value>> \o x[3]]
<1>1. ASSUME NEW m \in Trees \ {Nil}, NEW u \in C, NEW v \in C
      PROVE  step[<<m, u, v>>] \in T[m]
  <2>1. m.value \in Entry
    BY TreeProperties
  <2> QED
    BY <2>1
<1>2. <<>> \in T[Nil]
  BY NilProperties
<1>3. \A x \in D : step[x] = x[2] \o <<x[1].value>> \o x[3]
  OBVIOUS
<1>4. PICK F : Follows(F, Trees, T, D, <<>>, step)
  <2>1. T \in [Trees -> SUBSET C] /\ D = (Trees \ {Nil}) \X C \X C
    OBVIOUS
  <2> HIDE DEF T, D, step, C
  <2> QED
    BY <1>1, <1>2, <2>1, TreesHaveSubtrees, TreeRecursion
<1>5. /\ F[Nil] = <<>>
      /\ \A m \in Trees : F[m] \in C
      /\ \A m \in Trees : m # Nil => F[m] = F[m.left] \o <<m.value>> \o F[m.right]
  BY <1>3, <1>4 DEF Follows
<1> HIDE DEF C, D, T, step
<1>6. ASSUME NEW t \in Trees
      PROVE  ToArray(t) = F[t]
  <2> DEFINE Body(f) == [m \in Below(t) |->
               IF m = Nil THEN <<>> ELSE f[m.left] \o <<m.value>> \o f[m.right]]
             g == [m \in Below(t) |-> F[m]]
             h == CHOOSE f : f = Body(f)
  <2>1. ToArray(t) = h[t]
    BY DEF ToArray
  <2>2. g = Body(g)
    BY <1>5, TreeIsBelow
  <2>3. h = Body(h)
    <3> HIDE DEF g, Body
    <3> QED
      BY <2>2
  <2> HIDE DEF h
  <2>4. \A m \in Below(t) : h[m] = IF m = Nil THEN <<>> ELSE h[m.left] \o <<m.value>> \o h[m.right]
    BY <2>3
  <2>5. ASSUME NEW m \in Below(t), m \in Trees,
               m # Nil => h[m.left] = F[m.left] /\ h[m.right] = F[m.right]
        PROVE  h[m] = F[m]
    BY <1>5, <2>4, <2>5
  <2> QED
    BY <2>1, <2>5, TreesHaveSubtrees, SameBelow
<1> QED
  BY <1>5, <1>6, TreeProperties, NilProperties DEF C

-----------------------------------------------------------------------------
(* The depth, and what is found                                            *)

DepthStep(u, v) == IF u >= v THEN 1 + u ELSE 1 + v

\* Depth() satisfies its definition.
LEMMA DepthDef ==
    /\ Depth(Nil) = 0
    /\ \A t \in Trees :
          /\ Depth(t) \in Nat
          /\ t # Nil => Depth(t) = DepthStep(Depth(t.left), Depth(t.right))
<1> DEFINE C == Nat
           D == (Trees \ {Nil}) \X C \X C
           T == [m \in Trees |-> C]
           step == [x \in D |-> DepthStep(x[2], x[3])]
<1>1. \A m \in Trees \ {Nil} : \A u \in C, v \in C : step[<<m, u, v>>] \in T[m]
  BY DEF DepthStep
<1>2. 0 \in T[Nil]
  BY NilProperties
<1>3. \A x \in D : step[x] = DepthStep(x[2], x[3])
  OBVIOUS
<1>4. PICK F : Follows(F, Trees, T, D, 0, step)
  <2>1. T \in [Trees -> SUBSET C] /\ D = (Trees \ {Nil}) \X C \X C
    OBVIOUS
  <2> HIDE DEF T, D, step, C
  <2> QED
    BY <1>1, <1>2, <2>1, TreesHaveSubtrees, TreeRecursion
<1>5. /\ F[Nil] = 0
      /\ \A m \in Trees : F[m] \in C
      /\ \A m \in Trees : m # Nil => F[m] = DepthStep(F[m.left], F[m.right])
  BY <1>3, <1>4 DEF Follows
<1> HIDE DEF C, D, T, step
<1>6. ASSUME NEW t \in Trees
      PROVE  Depth(t) = F[t]
  <2> DEFINE Body(f) == [m \in Below(t) |->
               IF m = Nil THEN 0
               ELSE IF f[m.left] >= f[m.right] THEN 1 + f[m.left]
               ELSE 1 + f[m.right]]
             g == [m \in Below(t) |-> F[m]]
             h == CHOOSE f : f = Body(f)
  <2>1. Depth(t) = h[t]
    BY DEF Depth
  <2>2. g = Body(g)
    BY <1>5, TreeIsBelow DEF DepthStep
  <2>3. h = Body(h)
    <3> HIDE DEF g, Body
    <3> QED
      BY <2>2
  <2> HIDE DEF h
  <2>4. \A m \in Below(t) : h[m] = IF m = Nil THEN 0 ELSE DepthStep(h[m.left], h[m.right])
    BY <2>3 DEF DepthStep
  <2>5. ASSUME NEW m \in Below(t), m \in Trees,
               m # Nil => h[m.left] = F[m.left] /\ h[m.right] = F[m.right]
        PROVE  h[m] = F[m]
    BY <1>5, <2>4, <2>5
  <2> QED
    BY <2>1, <2>5, TreesHaveSubtrees, SameBelow
<1> QED
  BY <1>5, <1>6, TreeProperties, NilProperties DEF C

Answers == [rank : Nat, value : Stored]

\* Where the timestamps of a tree in order are.
LEMMA KeysInOrder ==
    ASSUME NEW t \in OrderedTrees, t # Nil
    PROVE  /\ t \in Trees /\ Ordered(t) /\ t.left \in OrderedTrees /\ t.right \in OrderedTrees
           /\ t.left \in Trees /\ t.right \in Trees /\ t.value \in Entry
           /\ t.value.value \in Stored /\ Key(t) = t.value.ts
           /\ Key(t) \in Nat /\ Size(t.left) \in Nat /\ Size(t.right) \in Nat
           /\ Keys(t.left) \subseteq Nat /\ Keys(t.right) \subseteq Nat
           /\ Keys(t) = {Key(t)} \cup Keys(t.left) \cup Keys(t.right)
           /\ Values(t) = {t.value} \cup Values(t.left) \cup Values(t.right)
           /\ \A ts \in Keys(t.left) : ts > Key(t)
           /\ \A ts \in Keys(t.right) : Key(t) > ts
<1>1. t \in Trees /\ Ordered(t) /\ t.left \in OrderedTrees /\ t.right \in OrderedTrees
  BY OrderedTreesHaveSubtrees DEF HasSubtrees, OrderedTrees
<1>2. /\ t.left \in Trees /\ t.right \in Trees /\ t.value \in Entry
      /\ t = Node(t.left, t.value, t.right)
  BY <1>1, TreeProperties
<1>3. /\ \A e \in Values(t.left) : e.ts > Key(t)
      /\ \A e \in Values(t.right) : Key(t) > e.ts
      /\ Keys(t) = {Key(t)} \cup Keys(t.left) \cup Keys(t.right)
      /\ Values(t) = {t.value} \cup Values(t.left) \cup Values(t.right)
  BY <1>1, <1>2, OrderedNode, ContentOfNode, NodeProperties
<1>4. /\ \A ts \in Keys(t.left) : ts > Key(t)
      /\ \A ts \in Keys(t.right) : Key(t) > ts
  BY <1>2, <1>3, ContentProperties
<1>5. /\ Key(t) \in Nat /\ Size(t.left) \in Nat /\ Size(t.right) \in Nat
      /\ t.value.value \in Stored /\ Key(t) = t.value.ts
      /\ Keys(t.left) \subseteq Nat /\ Keys(t.right) \subseteq Nat
  BY <1>1, <1>2, TreeProperties, ContentProperties DEF Entry, Key, TimestampOf
<1> QED
  BY <1>1, <1>2, <1>3, <1>4, <1>5

\* The nodes of a tree in order.
LEMMA NodesInOrder ==
    ASSUME NEW t \in OrderedTrees, NEW m \in Nodes(t)
    PROVE  /\ m \in OrderedTrees /\ m # Nil
           /\ Nodes(m) \subseteq Nodes(t)
           /\ m.left # Nil => m.left \in Nodes(t)
           /\ m.right # Nil => m.right \in Nodes(t)
<1>1. \A s \in Trees : s # Nil => s \in Nodes(s)
  BY NodesOfTree
<1>2. m \in Trees /\ m # Nil /\ Nodes(m) \subseteq Nodes(t)
  BY Raw!NodesOfTree, SameTrees, SameContents, SameNotions DEF OrderedTrees
<1>3. Ordered(m)
  BY <1>2 DEF OrderedTrees, Ordered
<1>4. m.left \in Trees /\ m.right \in Trees
  BY <1>2, TreeProperties
<1>5. Nodes(m) = {m} \cup Nodes(m.left) \cup Nodes(m.right)
  BY <1>2, NodesOfTree
<1> QED
  BY <1>1, <1>2, <1>3, <1>4, <1>5 DEF OrderedTrees

\* The function behind Find().
FindFrom(t) ==
    LET find[m \in Nodes(t)] == [ts \in Keys(m) |->
            LET lweight == Size(m.left)
                on_right == find[m.right][ts]
            IN IF ts = Key(m) THEN Found(lweight, m.value.value)
               ELSE IF ts > Key(m) THEN find[m.left][ts]
               ELSE Found(on_right.rank + 1 + lweight, on_right.value)]
    IN find[t]

FindStep(m, u, v) ==
    [ts \in Keys(m) |->
        IF ts = Key(m) THEN Found(Size(m.left), m.value.value)
        ELSE IF ts > Key(m) THEN u[ts]
        ELSE Found(v[ts].rank + 1 + Size(m.left), v[ts].value)]

\* Of a tree in order it satisfies its definition.
LEMMA FindDef ==
    \A t \in OrderedTrees : \A ts \in Keys(t) :
       /\ Find(t, ts) \in Answers
       /\ ts = Key(t) => Find(t, ts) = Found(Size(t.left), t.value.value)
       /\ ts > Key(t) => ts \in Keys(t.left) /\ Find(t, ts) = Find(t.left, ts)
       /\ ts < Key(t) =>
             /\ ts \in Keys(t.right)
             /\ Find(t, ts) = Found(Find(t.right, ts).rank + 1 + Size(t.left), Find(t.right, ts).value)
<1> DEFINE S == OrderedTrees
           C == UNION {[K -> Answers] : K \in SUBSET Nat}
           D == (S \ {Nil}) \X C \X C
           T == [m \in S |-> [Keys(m) -> Answers]]
           base == [ts \in {} |-> 0]
           step == [x \in D |-> FindStep(x[1], x[2], x[3])]
<1>1. ASSUME NEW m \in S
      PROVE  T[m] \subseteq C
  <2>1. Keys(m) \subseteq Nat
    BY ContentProperties DEF OrderedTrees, Entry
  <2> QED
    BY <2>1
<1>2. ASSUME NEW m \in S \ {Nil}, NEW u \in T[m.left], NEW v \in T[m.right]
      PROVE  FindStep(m, u, v) \in T[m]
  <2>1. m \in OrderedTrees /\ m # Nil
    OBVIOUS
  <2>2. /\ Keys(m) = {Key(m)} \cup Keys(m.left) \cup Keys(m.right)
        /\ \A ts \in Keys(m.left) : ts > Key(m)
        /\ \A ts \in Keys(m.right) : Key(m) > ts
        /\ Key(m) \in Nat /\ Size(m.left) \in Nat /\ m.value.value \in Stored
        /\ Keys(m.left) \subseteq Nat /\ Keys(m.right) \subseteq Nat
        /\ m.left \in S /\ m.right \in S
    BY <2>1, KeysInOrder
  <2>3. u \in [Keys(m.left) -> Answers] /\ v \in [Keys(m.right) -> Answers]
    BY <2>2
  <2>6. ASSUME NEW ts \in Keys(m)
        PROVE  FindStep(m, u, v)[ts] \in Answers
    <3>1. CASE ts = Key(m)
      BY <2>2, <3>1 DEF FindStep, Found, Answers
    <3>2. CASE ts \in Keys(m.left)
      <4>1. ts # Key(m) /\ ts > Key(m)
        BY <2>2, <3>2
      <4> QED
        BY <2>2, <2>3, <3>2, <4>1 DEF FindStep
    <3>3. CASE ts \in Keys(m.right)
      <4>1. ts # Key(m) /\ ~(ts > Key(m))
        BY <2>2, <3>3
      <4>2. v[ts].rank \in Nat /\ v[ts].value \in Stored
        BY <2>3, <3>3 DEF Answers
      <4> QED
        BY <2>2, <4>1, <4>2 DEF FindStep, Found, Answers
    <3> QED
      BY <2>2, <3>1, <3>2, <3>3
  <2> QED
    BY <2>6 DEF FindStep
<1>3. base \in T[Nil]
  BY ContentOfNil, OrderedTreesHaveSubtrees DEF HasSubtrees
<1>4. \A x \in D : step[x] = FindStep(x[1], x[2], x[3])
  OBVIOUS
<1>5. \A m \in S \ {Nil} : \A u \in C, v \in C :
         u \in T[m.left] /\ v \in T[m.right] => step[<<m, u, v>>] \in T[m]
  <2> HIDE DEF T, step, C
  <2> QED
    BY <1>2, <1>4
<1>6. PICK F : Follows(F, S, T, D, base, step)
  <2>1. T \in [S -> SUBSET C] /\ D = (S \ {Nil}) \X C \X C
    BY <1>1
  <2> HIDE DEF T, D, step, C, base
  <2> QED
    BY <1>3, <1>5, <2>1, OrderedTreesHaveSubtrees, TreeRecursion
<1>7. /\ \A m \in S : F[m] \in [Keys(m) -> Answers]
      /\ \A m \in S : m # Nil => F[m] = FindStep(m, F[m.left], F[m.right])
  BY <1>4, <1>6 DEF Follows
<1> HIDE DEF C, D, T, step, base
<1>8. ASSUME NEW t \in S, t # Nil
      PROVE  FindFrom(t) = F[t]
  <2> DEFINE Row(f, m) == [ts \in Keys(m) |->
               IF ts = Key(m) THEN Found(Size(m.left), m.value.value)
               ELSE IF ts > Key(m) THEN f[m.left][ts]
               ELSE Found(f[m.right][ts].rank + 1 + Size(m.left), f[m.right][ts].value)]
             Body(f) == [m \in Nodes(t) |-> Row(f, m)]
             g == [m \in Nodes(t) |-> F[m]]
             h == CHOOSE f : f = Body(f)
  <2>1. FindFrom(t) = h[t]
    BY DEF FindFrom
  <2>2. ASSUME NEW m \in Nodes(t)
        PROVE  /\ m \in S /\ m # Nil
               /\ m.left \in S /\ m.right \in S
               /\ Nodes(m) \subseteq Nodes(t)
               /\ m.left # Nil => m.left \in Nodes(t)
               /\ m.right # Nil => m.right \in Nodes(t)
    BY NodesInOrder, KeysInOrder
  <2>3. ASSUME NEW f, NEW m \in Nodes(t),
               m.left # Nil => f[m.left] = F[m.left],
               m.right # Nil => f[m.right] = F[m.right]
        PROVE  Row(f, m) = F[m]
    <3>1. F[m] = FindStep(m, F[m.left], F[m.right])
      BY <1>7, <2>2
    <3>2. ASSUME NEW ts \in Keys(m), ts # Key(m)
          PROVE  IF ts > Key(m) THEN m.left # Nil ELSE m.right # Nil
      <4>1. /\ Keys(m) = {Key(m)} \cup Keys(m.left) \cup Keys(m.right)
            /\ Key(m) \in Nat /\ Keys(m.left) \subseteq Nat /\ Keys(m.right) \subseteq Nat
            /\ \A k \in Keys(m.left) : k > Key(m)
            /\ \A k \in Keys(m.right) : Key(m) > k
        BY <2>2, KeysInOrder
      <4>2. IF ts > Key(m) THEN ts \in Keys(m.left) ELSE ts \in Keys(m.right)
        BY <3>2, <4>1
      <4> QED
        BY <4>2, ContentOfNil
    <3>3. \A ts \in Keys(m) : Row(f, m)[ts] = FindStep(m, F[m.left], F[m.right])[ts]
      BY <2>3, <3>2 DEF FindStep
    <3>4. Row(f, m) = FindStep(m, F[m.left], F[m.right])
      BY <3>3 DEF FindStep
    <3> QED
      BY <3>1, <3>4
  <2> HIDE DEF Row
  <2>4. g = Body(g)
    <3>1. \A m \in Nodes(t) : Row(g, m) = F[m]
      BY <2>2, <2>3
    <3> QED
      BY <3>1
  <2>5. h = Body(h)
    <3> HIDE DEF g, Body
    <3> QED
      BY <2>4
  <2> HIDE DEF h
  <2>6. \A m \in Nodes(t) : h[m] = Row(h, m)
    BY <2>5
  <2> DEFINE H == [m \in Trees |-> IF m \in Nodes(t) THEN h[m] ELSE F[m]]
  <2>7. ASSUME NEW m \in Below(t), m \in S,
               m # Nil => H[m.left] = F[m.left] /\ H[m.right] = F[m.right]
        PROVE  H[m] = F[m]
    <3>0. H[m] = IF m \in Nodes(t) THEN h[m] ELSE F[m]
      <4>1. m \in Trees
        BY <2>7 DEF OrderedTrees
      <4> QED
        BY <4>1, Zenon
    <3>1. CASE m \in Nodes(t)
      <4>1. /\ m.left # Nil => h[m.left] = F[m.left]
            /\ m.right # Nil => h[m.right] = F[m.right]
        BY <2>2, <2>7, <3>1 DEF OrderedTrees
      <4>2. h[m] = F[m]
        BY <2>3, <2>6, <3>1, <4>1
      <4> HIDE DEF H, g
      <4> QED
        BY <3>0, <3>1, <4>2
    <3>2. CASE m \notin Nodes(t)
      <4> HIDE DEF H, g
      <4> QED
        BY <3>0, <3>2
    <3> QED
      BY <3>1, <3>2
  <2> HIDE DEF H
  <2>8. H[t] = F[t]
    BY <2>7, OrderedTreesHaveSubtrees, SameBelow
  <2>9. t \in Nodes(t) /\ t \in Trees
    BY <1>8, NodesOfTree DEF OrderedTrees
  <2> QED
    BY <2>1, <2>8, <2>9 DEF H
<1>9. \A t, ts : Find(t, ts) = FindFrom(t)[ts]
  BY DEF Find, FindFrom
<1> QED
  <2> SUFFICES ASSUME NEW t \in OrderedTrees, NEW ts \in Keys(t)
               PROVE  /\ Find(t, ts) \in Answers
                      /\ ts = Key(t) => Find(t, ts) = Found(Size(t.left), t.value.value)
                      /\ ts > Key(t) => ts \in Keys(t.left) /\ Find(t, ts) = Find(t.left, ts)
                      /\ ts < Key(t) =>
                            /\ ts \in Keys(t.right)
                            /\ Find(t, ts) = Found(Find(t.right, ts).rank + 1 + Size(t.left),
                                                   Find(t.right, ts).value)
    OBVIOUS
  <2>1. t # Nil
    BY ContentOfNil
  <2>2. /\ t.left \in S /\ t.right \in S
        /\ Keys(t) = {Key(t)} \cup Keys(t.left) \cup Keys(t.right)
        /\ Key(t) \in Nat /\ Keys(t.left) \subseteq Nat /\ Keys(t.right) \subseteq Nat
        /\ \A k \in Keys(t.left) : k > Key(t)
        /\ \A k \in Keys(t.right) : Key(t) > k
    BY <2>1, KeysInOrder
  <2>3. Find(t, ts) = F[t][ts] /\ F[t][ts] \in Answers
    BY <1>7, <1>8, <1>9, <2>1
  <2>4. F[t][ts] = FindStep(t, F[t.left], F[t.right])[ts]
    BY <1>7, <2>1
  <2>5. ts = Key(t) => F[t][ts] = Found(Size(t.left), t.value.value)
    BY <2>4 DEF FindStep
  <2>6. ts > Key(t) => ts \in Keys(t.left) /\ F[t][ts] = F[t.left][ts]
    BY <2>2, <2>4 DEF FindStep
  <2>7. ts < Key(t) =>
          /\ ts \in Keys(t.right)
          /\ F[t][ts] = Found(F[t.right][ts].rank + 1 + Size(t.left), F[t.right][ts].value)
    BY <2>2, <2>4 DEF FindStep
  <2>8. /\ ts \in Keys(t.left) => Find(t.left, ts) = F[t.left][ts]
        /\ ts \in Keys(t.right) => Find(t.right, ts) = F[t.right][ts]
    BY <1>8, <1>9, <2>2, ContentOfNil
  <2> QED
    BY <2>3, <2>5, <2>6, <2>7, <2>8


-----------------------------------------------------------------------------
(* What is removed                                                         *)

\* A node with another subtree and the size that goes with it.
LEMMA NodeWithSubtree ==
    ASSUME NEW m \in Trees, m # Nil, NEW s, NEW y
    PROVE  /\ y = 1 + Size(s) + Size(m.right) =>
                [m EXCEPT !.left = s, !.size = y] = Node(s, m.value, m.right)
           /\ y = 1 + Size(m.left) + Size(s) =>
                [m EXCEPT !.right = s, !.size = y] = Node(m.left, m.value, s)
<1> DEFINE a == [m EXCEPT !.left = s]
           b == [m EXCEPT !.right = s]
<1>1. m \in [value : {m.value}, size : {m.size}, left : {m.left}, right : {m.right}]
  BY TreeProperties DEF Node
<1>2. /\ [m EXCEPT !.left = s, !.size = y] = [a EXCEPT !.size = y]
      /\ [m EXCEPT !.right = s, !.size = y] = [b EXCEPT !.size = y]
  BY <1>1
<1>3. /\ a = [value |-> m.value, size |-> m.size, left |-> s, right |-> m.right]
      /\ b = [value |-> m.value, size |-> m.size, left |-> m.left, right |-> s]
  BY <1>1
<1>4. /\ a \in [value : {m.value}, size : {m.size}, left : {s}, right : {m.right}]
      /\ b \in [value : {m.value}, size : {m.size}, left : {m.left}, right : {s}]
  BY <1>3
<1> HIDE DEF a, b
<1>5. /\ [a EXCEPT !.size = y] = [value |-> m.value, size |-> y, left |-> s, right |-> m.right]
      /\ [b EXCEPT !.size = y] = [value |-> m.value, size |-> y, left |-> m.left, right |-> s]
  BY <1>3, <1>4
<1> QED
  BY <1>2, <1>5, Zenon DEF Node

\* A node with a smaller subtree.
LEMMA SmallerNode ==
    ASSUME NEW m \in Trees, m # Nil, NEW s \in Trees, NEW e
    PROVE  /\ Size(s) = Size(m.left) - 1 =>
                [m EXCEPT !.left = s, !.size = @ - 1] = Node(s, m.value, m.right)
           /\ Size(s) = Size(m.right) - 1 =>
                /\ [m EXCEPT !.right = s, !.size = @ - 1] = Node(m.left, m.value, s)
                /\ NewRoot(m, e, s) = Node(m.left, e, s)
<1>1. m.size = 1 + Size(m.left) + Size(m.right) /\ m.left \in Trees /\ m.right \in Trees
  BY TreeProperties
<1>2. Size(m.left) \in Nat /\ Size(m.right) \in Nat /\ Size(s) \in Nat
  BY <1>1, TreeProperties
<1>3. /\ Size(s) = Size(m.left) - 1 => m.size - 1 = 1 + Size(s) + Size(m.right)
      /\ Size(s) = Size(m.right) - 1 => m.size - 1 = 1 + Size(m.left) + Size(s)
  BY <1>1, <1>2
<1>4. Size(s) = Size(m.right) - 1 => NewRoot(m, e, s) = Node(m.left, e, s)
  BY <1>3 DEF NewRoot, Node
<1> QED
  BY <1>3, <1>4, NodeWithSubtree, Zenon

Removals == [removed : Entry, tree : Trees]

\* The function behind Remove(), and its rows.
RemoveAt(m, u, v, r) ==
    IF r < Size(m.left)
    THEN Removed(u[r].removed, [m EXCEPT !.left = u[r].tree, !.size = @ - 1])
    ELSE IF r > Size(m.left)
    THEN Removed(v[r - Size(m.left) - 1].removed,
                 [m EXCEPT !.right = v[r - Size(m.left) - 1].tree, !.size = @ - 1])
    ELSE IF m.left = Nil THEN Removed(m.value, m.right)
    ELSE IF m.right = Nil THEN Removed(m.value, m.left)
    ELSE Removed(m.value, NewRoot(m, v[0].removed, v[0].tree))

RemoveStep(m, u, v) == [r \in 0..(Size(m) - 1) |-> RemoveAt(m, u, v, r)]

RemoveFrom(t) ==
    LET remove[m \in Below(t)] == [r \in 0..(Size(m) - 1) |->
            RemoveAt(m, remove[m.left], remove[m.right], r)]
    IN remove[t]

\* The same with nodes that have right sizes.
RemovedAt(m, u, v, r) ==
    IF r < Size(m.left) THEN Removed(u[r].removed, Node(u[r].tree, m.value, m.right))
    ELSE IF r > Size(m.left)
    THEN Removed(v[r - Size(m.left) - 1].removed,
                 Node(m.left, m.value, v[r - Size(m.left) - 1].tree))
    ELSE IF m.left = Nil THEN Removed(m.value, m.right)
    ELSE IF m.right = Nil THEN Removed(m.value, m.left)
    ELSE Removed(m.value, Node(m.left, v[0].removed, v[0].tree))

\* What there is to remove from a tree of n nodes.
Rows(n) == {f \in [0..(n - 1) -> Removals] : \A r \in 0..(n - 1) : Size(f[r].tree) = n - 1}

LEMMA RemoveAtIsTyped ==
    ASSUME NEW m \in Trees, m # Nil, NEW u \in Rows(Size(m.left)), NEW v \in Rows(Size(m.right)),
           NEW r \in 0..(Size(m) - 1)
    PROVE  /\ RemoveAt(m, u, v, r) = RemovedAt(m, u, v, r)
           /\ RemoveAt(m, u, v, r) \in Removals
           /\ Size(RemoveAt(m, u, v, r).tree) = Size(m) - 1
<1>1. /\ m.left \in Trees /\ m.right \in Trees /\ m.value \in Entry
      /\ Size(m) = 1 + Size(m.left) + Size(m.right)
  BY TreeProperties
<1>2. /\ Size(m.left) \in Nat /\ Size(m.right) \in Nat
      /\ Size(m.left) = 0 <=> m.left = Nil
      /\ Size(m.right) = 0 <=> m.right = Nil
  BY <1>1, TreeProperties
<1>3. /\ \A e \in Entry, s \in Trees : Removed(e, s) \in Removals /\ Removed(e, s).tree = s
      /\ \A s \in Trees : Node(s, m.value, m.right) \in Trees
      /\ \A e \in Entry, s \in Trees : Node(m.left, e, s) \in Trees
      /\ \A s : Size(Node(s, m.value, m.right)) = 1 + Size(s) + Size(m.right)
      /\ \A e, s : Size(Node(m.left, e, s)) = 1 + Size(m.left) + Size(s)
  <2>1. \A e \in Entry, s \in Trees : Removed(e, s) \in Removals /\ Removed(e, s).tree = s
    BY DEF Removed, Removals
  <2>2. /\ \A s \in Trees : Node(s, m.value, m.right) \in Trees
        /\ \A e \in Entry, s \in Trees : Node(m.left, e, s) \in Trees
    BY <1>1, NodeIsTree
  <2> QED
    BY <2>1, <2>2, NodeProperties
<1>4. CASE r < Size(m.left)
  <2>1. u[r].removed \in Entry /\ u[r].tree \in Trees /\ Size(u[r].tree) = Size(m.left) - 1
    BY <1>2, <1>4 DEF Rows, Removals
  <2>2. RemoveAt(m, u, v, r) = Removed(u[r].removed, Node(u[r].tree, m.value, m.right))
    BY <1>4, <2>1, SmallerNode DEF RemoveAt
  <2>3. Node(u[r].tree, m.value, m.right) \in Trees /\ Size(Node(u[r].tree, m.value, m.right)) = Size(m) - 1
    BY <1>1, <1>2, <1>3, <2>1
  <2> QED
    BY <1>3, <1>4, <2>1, <2>2, <2>3 DEF RemovedAt
<1>5. CASE r > Size(m.left)
  <2> DEFINE q == r - Size(m.left) - 1
  <2>1. q \in 0..(Size(m.right) - 1) /\ ~(r < Size(m.left))
    BY <1>1, <1>2, <1>5
  <2>2. v[q].removed \in Entry /\ v[q].tree \in Trees /\ Size(v[q].tree) = Size(m.right) - 1
    BY <2>1 DEF Rows, Removals
  <2>3. RemoveAt(m, u, v, r) = Removed(v[q].removed, Node(m.left, m.value, v[q].tree))
    BY <1>5, <2>1, <2>2, SmallerNode DEF RemoveAt
  <2>4. Node(m.left, m.value, v[q].tree) \in Trees /\ Size(Node(m.left, m.value, v[q].tree)) = Size(m) - 1
    BY <1>1, <1>2, <1>3, <2>2
  <2> QED
    BY <1>3, <1>5, <2>1, <2>2, <2>3, <2>4 DEF RemovedAt
<1>6. CASE r = Size(m.left) /\ (m.left = Nil \/ m.right = Nil)
  <2>1. ~(r < Size(m.left)) /\ ~(r > Size(m.left))
    BY <1>2, <1>6
  <2>2. RemoveAt(m, u, v, r) = Removed(m.value, IF m.left = Nil THEN m.right ELSE m.left)
    BY <1>6, <2>1 DEF RemoveAt
  <2>3. RemovedAt(m, u, v, r) = Removed(m.value, IF m.left = Nil THEN m.right ELSE m.left)
    BY <1>6, <2>1 DEF RemovedAt
  <2>4. Size(IF m.left = Nil THEN m.right ELSE m.left) = Size(m) - 1
    BY <1>1, <1>2, <1>6
  <2> QED
    BY <1>1, <1>3, <2>2, <2>3, <2>4
<1>7. CASE r = Size(m.left) /\ m.left # Nil /\ m.right # Nil
  <2>1. ~(r < Size(m.left)) /\ ~(r > Size(m.left)) /\ 0 \in 0..(Size(m.right) - 1)
    BY <1>2, <1>7
  <2>2. v[0].removed \in Entry /\ v[0].tree \in Trees /\ Size(v[0].tree) = Size(m.right) - 1
    BY <2>1 DEF Rows, Removals
  <2>3. RemoveAt(m, u, v, r) = Removed(m.value, Node(m.left, v[0].removed, v[0].tree))
    BY <1>7, <2>1, <2>2, SmallerNode DEF RemoveAt
  <2>4. /\ Node(m.left, v[0].removed, v[0].tree) \in Trees
        /\ Size(Node(m.left, v[0].removed, v[0].tree)) = Size(m) - 1
    BY <1>1, <1>2, <1>3, <2>2
  <2> QED
    BY <1>1, <1>3, <1>7, <2>1, <2>3, <2>4 DEF RemovedAt
<1> QED
  BY <1>2, <1>4, <1>5, <1>6, <1>7

\* Remove() satisfies its definition.
LEMMA RemoveDef ==
    \A t \in Trees : \A r \in 0..(Size(t) - 1) :
       /\ Remove(t, r) = RemovedAt(t, RemoveFrom(t.left), RemoveFrom(t.right), r)
       /\ Remove(t, r) = RemoveFrom(t)[r]
       /\ Remove(t, r) \in Removals
       /\ Size(Remove(t, r).tree) = Size(t) - 1
<1> DEFINE C == UNION {Rows(n) : n \in Nat}
           D == (Trees \ {Nil}) \X C \X C
           T == [m \in Trees |-> Rows(Size(m))]
           base == [r \in 0..(0 - 1) |-> 0]
           step == [x \in D |-> RemoveStep(x[1], x[2], x[3])]
<1>1. T \in [Trees -> SUBSET C]
  BY TreeProperties
<1>2. base \in T[Nil]
  BY NilProperties DEF Rows
<1>3. \A x \in D : step[x] = RemoveStep(x[1], x[2], x[3])
  OBVIOUS
<1>4. ASSUME NEW m \in Trees \ {Nil}, NEW u \in C, NEW v \in C, u \in T[m.left], v \in T[m.right]
      PROVE  step[<<m, u, v>>] \in T[m]
  <2>1. u \in Rows(Size(m.left)) /\ v \in Rows(Size(m.right)) /\ T[m] = Rows(Size(m))
    BY <1>4, TreeProperties
  <2>2. step[<<m, u, v>>] = RemoveStep(m, u, v)
    OBVIOUS
  <2>3. \A r \in 0..(Size(m) - 1) : /\ RemoveAt(m, u, v, r) \in Removals
                                    /\ Size(RemoveAt(m, u, v, r).tree) = Size(m) - 1
    BY <2>1, RemoveAtIsTyped
  <2>4. RemoveStep(m, u, v) \in Rows(Size(m))
    BY <2>3 DEF RemoveStep, Rows
  <2> QED
    BY <2>1, <2>2, <2>4
<1>5. PICK F : Follows(F, Trees, T, D, base, step)
  <2>1. D = (Trees \ {Nil}) \X C \X C
    OBVIOUS
  <2> HIDE DEF T, D, step, C, base
  <2> QED
    BY <1>1, <1>2, <1>4, <2>1, TreesHaveSubtrees, TreeRecursion
<1>6. /\ F[Nil] = base
      /\ \A m \in Trees : F[m] \in Rows(Size(m))
      /\ \A m \in Trees : m # Nil => F[m] = RemoveStep(m, F[m.left], F[m.right])
  BY <1>3, <1>5 DEF Follows
<1> HIDE DEF C, D, T, step
<1>7. ASSUME NEW t \in Trees
      PROVE  RemoveFrom(t) = F[t]
  <2> DEFINE Row(f, m) == [r \in 0..(Size(m) - 1) |-> RemoveAt(m, f[m.left], f[m.right], r)]
             Body(f) == [m \in Below(t) |-> Row(f, m)]
             g == [m \in Below(t) |-> F[m]]
             h == CHOOSE f : f = Body(f)
  <2>1. RemoveFrom(t) = h[t]
    BY DEF RemoveFrom
  <2>2. \A f, m : Row(f, m) = RemoveStep(m, f[m.left], f[m.right])
    BY DEF RemoveStep
  <2>3. \A f : Row(f, Nil) = base
    <3>1. 0..(Size(Nil) - 1) = {} /\ 0..(0 - 1) = {}
      BY NilProperties
    <3> QED
      BY <3>1
  <2> HIDE DEF Row, base
  <2>4. g = Body(g)
    <3>1. \A m \in Below(t) : Row(g, m) = F[m]
      BY <1>6, <2>2, <2>3, TreeIsBelow
    <3> QED
      BY <3>1
  <2>5. h = Body(h)
    <3> HIDE DEF g, Body
    <3> QED
      BY <2>4
  <2> HIDE DEF h
  <2>6. \A m \in Below(t) : h[m] = Row(h, m)
    BY <2>5
  <2>7. ASSUME NEW m \in Below(t), m \in Trees,
               m # Nil => h[m.left] = F[m.left] /\ h[m.right] = F[m.right]
        PROVE  h[m] = F[m]
    BY <1>6, <2>2, <2>3, <2>6, <2>7
  <2> QED
    BY <2>1, <2>7, TreesHaveSubtrees, SameBelow
<1>8. \A t, r : Remove(t, r) = RemoveFrom(t)[r]
  BY DEF Remove, RemoveFrom, RemoveAt
<1> QED
  <2> SUFFICES ASSUME NEW t \in Trees, NEW r \in 0..(Size(t) - 1)
               PROVE  /\ Remove(t, r) = RemovedAt(t, RemoveFrom(t.left), RemoveFrom(t.right), r)
                      /\ Remove(t, r) \in Removals
                      /\ Size(Remove(t, r).tree) = Size(t) - 1
    BY <1>8
  <2>1. t # Nil
    BY NilProperties
  <2>2. t.left \in Trees /\ t.right \in Trees
    BY <2>1, TreeProperties
  <2>3. Remove(t, r) = RemoveAt(t, F[t.left], F[t.right], r)
    <3>1. Remove(t, r) = F[t][r]
      BY <1>7, <1>8
    <3>2. F[t] = RemoveStep(t, F[t.left], F[t.right])
      BY <1>6, <2>1
    <3> QED
      BY <3>1, <3>2, Zenon DEF RemoveStep
  <2>4. F[t.left] \in Rows(Size(t.left)) /\ F[t.right] \in Rows(Size(t.right))
    BY <1>6, <2>2
  <2> QED
    BY <1>7, <2>1, <2>2, <2>3, <2>4, RemoveAtIsTyped

LastStep(m, v) == IF m.right = Nil THEN m.value.value ELSE v

\* LastValue() satisfies its definition.
LEMMA LastValueDef ==
    \A t \in Trees : t # Nil =>
       LastValue(t) = IF t.right = Nil THEN t.value.value ELSE LastValue(t.right)
<1> SUFFICES ASSUME NEW s \in Trees, s # Nil
             PROVE  LastValue(s) = IF s.right = Nil THEN s.value.value ELSE LastValue(s.right)
  OBVIOUS
<1> DEFINE C == Stored
           D == (Trees \ {Nil}) \X C \X C
           T == [m \in Trees |-> C]
           base == s.value.value
           step == [x \in D |-> LastStep(x[1], x[3])]
<1>1. \A m \in Trees \ {Nil} : m.value.value \in C
  BY TreeProperties DEF Entry
<1>2. \A m \in Trees \ {Nil} : \A u \in C, v \in C : step[<<m, u, v>>] \in T[m]
  BY <1>1 DEF LastStep
<1>3. base \in T[Nil]
  BY <1>1, NilProperties
<1>4. \A x \in D : step[x] = LastStep(x[1], x[3])
  OBVIOUS
<1>5. PICK F : Follows(F, Trees, T, D, base, step)
  <2>1. T \in [Trees -> SUBSET C] /\ D = (Trees \ {Nil}) \X C \X C
    OBVIOUS
  <2> HIDE DEF T, D, step, C, base
  <2> QED
    BY <1>2, <1>3, <2>1, TreesHaveSubtrees, TreeRecursion
<1>6. \A m \in Trees : m # Nil => F[m] = LastStep(m, F[m.right])
  BY <1>4, <1>5 DEF Follows
<1> HIDE DEF C, D, T, step, base
<1>7. ASSUME NEW t \in Trees, t # Nil
      PROVE  LastValue(t) = F[t]
  <2> DEFINE Body(f) == [m \in Below(t) \ {Nil} |-> IF m.right = Nil THEN m.value.value ELSE f[m.right]]
             g == [m \in Below(t) \ {Nil} |-> F[m]]
             h == CHOOSE f : f = Body(f)
  <2>1. LastValue(t) = h[t]
    BY DEF LastValue
  <2>2. g = Body(g)
    <3>1. \A m \in Below(t) \ {Nil} :
             (IF m.right = Nil THEN m.value.value ELSE g[m.right]) = F[m]
      BY <1>6, TreeIsBelow DEF LastStep
    <3> HIDE DEF g
    <3>2. Body(g) = [m \in Below(t) \ {Nil} |-> F[m]]
      BY <3>1
    <3> QED
      BY <3>2 DEF g
  <2>3. h = Body(h)
    <3> HIDE DEF g, Body
    <3> QED
      BY <2>2
  <2> HIDE DEF h
  <2>4. \A m \in Below(t) \ {Nil} : h[m] = LastStep(m, h[m.right])
    BY <2>3 DEF LastStep
  <2> DEFINE H == [m \in Trees |-> IF m = Nil THEN F[m] ELSE h[m]]
  <2>5. ASSUME NEW m \in Below(t), m \in Trees,
               m # Nil => H[m.left] = F[m.left] /\ H[m.right] = F[m.right]
        PROVE  H[m] = F[m]
    <3>1. CASE m = Nil
      BY <2>5, <3>1
    <3>2. CASE m # Nil
      <4>1. m.right \in Trees
        BY <2>5, <3>2, TreeProperties
      <4>2. m.right # Nil => h[m.right] = F[m.right]
        BY <2>5, <3>2, <4>1
      <4>3. H[m] = h[m]
        BY <2>5, <3>2
      <4> HIDE DEF H
      <4> QED
        BY <1>6, <2>4, <2>5, <3>2, <4>2, <4>3 DEF LastStep
    <3> QED
      BY <3>1, <3>2
  <2> HIDE DEF H
  <2>6. H[t] = F[t]
    BY <2>5, TreesHaveSubtrees, SameBelow
  <2> QED
    BY <1>7, <2>1, <2>6 DEF H
<1>8. s.right \in Trees
  BY TreeProperties
<1> QED
  BY <1>6, <1>7, <1>8 DEF LastStep


-----------------------------------------------------------------------------
(* Rebalancing                                                             *)

Mid(lo, hi) == lo + (hi - lo) \div 2

\* The element in the middle has as many on its left as on its right, or one more.
LEMMA MidProperties ==
    ASSUME NEW lo \in Nat, NEW hi \in Nat, lo < hi
    PROVE  /\ Mid(lo, hi) \in Nat /\ lo <= Mid(lo, hi) /\ Mid(lo, hi) < hi
           /\ \/ Mid(lo, hi) - lo = hi - (Mid(lo, hi) + 1)
              \/ Mid(lo, hi) - lo = hi - (Mid(lo, hi) + 1) + 1
<1> DEFINE d == hi - lo
<1>1. d \in Nat /\ d > 0
  OBVIOUS
<1> HIDE DEF d
<1>2. d \div 2 \in Nat /\ (d = 2 * (d \div 2) \/ d = 2 * (d \div 2) + 1)
  BY <1>1
<1> DEFINE q == d \div 2
<1>3. Mid(lo, hi) = lo + q /\ q \in Nat /\ (d = 2 * q \/ d = 2 * q + 1)
  BY <1>2 DEF Mid, d
<1> HIDE DEF q
<1>4. hi = lo + d
  BY DEF d
<1> QED
  BY <1>1, <1>3, <1>4

\* FromArray() satisfies its definition.
LEMMA FromArrayDef ==
    ASSUME NEW array \in Seq(Entry), NEW lo \in 0..Len(array), NEW hi \in 0..Len(array)
    PROVE  /\ FromArray(array, lo, hi) \in Trees
           /\ lo >= hi => FromArray(array, lo, hi) = Nil
           /\ lo < hi => FromArray(array, lo, hi) =
                           Node(FromArray(array, lo, Mid(lo, hi)), array[Mid(lo, hi) + 1],
                                FromArray(array, Mid(lo, hi) + 1, hi))
<1> DEFINE n == Len(array)
           S == (0..n) \X (0..n)
           inner == {r \in S : r[1] < r[2]}
           rank == [r \in S |-> IF r[1] < r[2] THEN r[2] - r[1] ELSE 0]
           a == [r \in S |-> IF r[1] < r[2] THEN <<r[1], Mid(r[1], r[2])>> ELSE r]
           b == [r \in S |-> IF r[1] < r[2] THEN <<Mid(r[1], r[2]) + 1, r[2]>> ELSE r]
           D == S \X Trees \X Trees
           step == [x \in D |-> Node(x[2], array[Mid(x[1][1], x[1][2]) + 1], x[3])]
           leaf == [r \in S |-> Nil]
           T == [r \in S |-> Trees]
<1>1. n \in Nat
  OBVIOUS
<1>2. ASSUME NEW r \in S, r[1] < r[2]
      PROVE  /\ r[1] \in Nat /\ r[2] \in Nat
             /\ Mid(r[1], r[2]) \in Nat /\ r[1] <= Mid(r[1], r[2]) /\ Mid(r[1], r[2]) < r[2]
             /\ <<r[1], Mid(r[1], r[2])>> \in S
             /\ <<Mid(r[1], r[2]) + 1, r[2]>> \in S
             /\ array[Mid(r[1], r[2]) + 1] \in Entry
  <2>1. /\ r[1] \in Nat /\ r[2] \in Nat /\ r[2] <= n
    BY <1>1
  <2>2. Mid(r[1], r[2]) \in Nat /\ r[1] <= Mid(r[1], r[2]) /\ Mid(r[1], r[2]) < r[2]
    BY <1>2, <2>1, MidProperties
  <2> HIDE DEF n
  <2>3. Mid(r[1], r[2]) \in 0..n /\ Mid(r[1], r[2]) + 1 \in 0..n /\ Mid(r[1], r[2]) + 1 \in 1..n
    BY <1>1, <2>1, <2>2
  <2> QED
    BY <2>1, <2>2, <2>3 DEF n
<1>3. ASSUME NEW r \in S
      PROVE  /\ rank[r] \in Nat /\ a[r] \in S /\ b[r] \in S
             /\ r \in inner => rank[a[r]] < rank[r] /\ rank[b[r]] < rank[r]
  <2>1. CASE r[1] < r[2]
    <3> DEFINE m == Mid(r[1], r[2])
    <3>1. /\ r[1] \in Nat /\ r[2] \in Nat /\ m \in Nat /\ r[1] <= m /\ m < r[2]
          /\ <<r[1], m>> \in S /\ <<m + 1, r[2]>> \in S
      BY <1>2, <2>1
    <3>2. a[r] = <<r[1], m>> /\ b[r] = <<m + 1, r[2]>> /\ rank[r] = r[2] - r[1]
      BY <2>1
    <3> HIDE DEF m
    <3>3. /\ rank[<<r[1], m>>] = IF r[1] < m THEN m - r[1] ELSE 0
          /\ rank[<<m + 1, r[2]>>] = IF m + 1 < r[2] THEN r[2] - (m + 1) ELSE 0
      BY <3>1
    <3> HIDE DEF rank, a, b, S
    <3> QED
      BY <2>1, <3>1, <3>2, <3>3
  <2>2. CASE ~(r[1] < r[2])
    BY <2>2
  <2> QED
    BY <2>1, <2>2
<1>4. /\ rank \in [S -> Nat] /\ a \in [S -> S] /\ b \in [S -> S]
      /\ T \in [S -> SUBSET Trees]
  <2>1. \A r \in S : rank[r] \in Nat /\ a[r] \in S /\ b[r] \in S
    BY <1>3
  <2> HIDE DEF S
  <2> QED
    BY <2>1
<1>5. ASSUME NEW r \in S, r \in inner, NEW u \in T[a[r]], NEW v \in T[b[r]]
      PROVE  step[<<r, u, v>>] \in T[r]
  <2>1. a[r] \in S /\ b[r] \in S
    BY <1>3
  <2>2. u \in Trees /\ v \in Trees /\ T[r] = Trees
    BY <2>1
  <2>3. step[<<r, u, v>>] = Node(u, array[Mid(r[1], r[2]) + 1], v)
    BY <2>2
  <2>4. array[Mid(r[1], r[2]) + 1] \in Entry
    BY <1>2, <1>5
  <2> QED
    BY <2>2, <2>3, <2>4, NodeIsTree
<1>6. \A r \in S : r \notin inner => leaf[r] \in T[r]
  BY NilProperties
<1>7. \A x \in D : step[x] = Node(x[2], array[Mid(x[1][1], x[1][2]) + 1], x[3])
  OBVIOUS
<1>8. PICK F : /\ \A r \in S : F[r] \in T[r]
               /\ Recurs(F, S, inner, a, b, leaf, step)
  <2>1. \A r \in S : r \in inner => rank[a[r]] < rank[r] /\ rank[b[r]] < rank[r]
    BY <1>3
  <2> HIDE DEF S, inner, rank, a, b, D, step, leaf, T
  <2> QED
    BY <1>4, <1>5, <1>6, <2>1, RankedRecursion
<1> DEFINE Row(f, r) == IF r[1] >= r[2] THEN Nil
                        ELSE Node(f[<<r[1], Mid(r[1], r[2])>>], array[Mid(r[1], r[2]) + 1],
                                  f[<<Mid(r[1], r[2]) + 1, r[2]>>])
           Body(f) == [r \in S |-> Row(f, r)]
           g == [r \in S |-> F[r]]
           h == CHOOSE f : f = Body(f)
<1>9. ASSUME NEW r \in S, NEW f, r \in inner => f[a[r]] = F[a[r]] /\ f[b[r]] = F[b[r]]
      PROVE  Row(f, r) = F[r]
  <2>2. CASE r[1] < r[2]
    <3>1. F[r] = step[<<r, F[a[r]], F[b[r]]>>]
      BY <1>8, <2>2 DEF Recurs
    <3>2. F[a[r]] \in Trees /\ F[b[r]] \in Trees
      BY <1>3, <1>8
    <3>3. F[r] = Node(F[a[r]], array[Mid(r[1], r[2]) + 1], F[b[r]])
      BY <1>7, <3>1, <3>2
    <3>4. a[r] = <<r[1], Mid(r[1], r[2])>> /\ b[r] = <<Mid(r[1], r[2]) + 1, r[2]>>
      BY <2>2
    <3>5. f[a[r]] = F[a[r]] /\ f[b[r]] = F[b[r]]
      BY <1>9, <2>2
    <3>6. ~(r[1] >= r[2])
      BY <1>2, <2>2
    <3> HIDE DEF a, b, step
    <3> QED
      BY <3>3, <3>4, <3>5, <3>6
  <2>3. CASE ~(r[1] < r[2])
    <3>1. F[r] = leaf[r]
      BY <1>8, <2>3 DEF Recurs
    <3>2. r[1] >= r[2]
      BY <1>1, <2>3
    <3> QED
      BY <3>1, <3>2
  <2> QED
    BY <2>2, <2>3
<1>10. g = Body(g)
  <2>1. \A r \in S : g[r] = F[r]
    OBVIOUS
  <2> HIDE DEF g
  <2>2. \A r \in S : r \in inner => g[a[r]] = F[a[r]] /\ g[b[r]] = F[b[r]]
    BY <1>3, <2>1
  <2> HIDE DEF Row, S, inner, a, b
  <2>3. \A r \in S : Row(g, r) = F[r]
    BY <1>9, <2>2
  <2>4. Body(g) = [r \in S |-> F[r]]
    BY <2>3
  <2> QED
    BY <2>4 DEF g
<1>11. h = Body(h)
  <2> HIDE DEF g, Body
  <2> QED
    BY <1>10
<1> HIDE DEF h
<1>12. \A i, j \in 0..n : FromArray(array, i, j) = h[<<i, j>>]
  BY DEF FromArray, Mid, h
<1>13. \A r \in S : h[r] = Row(h, r)
  <2> HIDE DEF Row, S
  <2> QED
    BY <1>11
<1>14. \A r \in S : h[r] \in Trees
  <2> DEFINE P == {r \in S : h[r] = F[r]}
  <2>1. ASSUME NEW r \in S, \A y \in S : rank[y] < rank[r] => y \in P
        PROVE  r \in P
    <3>1. r \in inner => h[a[r]] = F[a[r]] /\ h[b[r]] = F[b[r]]
      <4>1. a[r] \in S /\ b[r] \in S
        BY <1>3
      <4>2. r \in inner => rank[a[r]] < rank[r] /\ rank[b[r]] < rank[r]
        BY <1>3
      <4> HIDE DEF rank, S, a, b, inner
      <4> QED
        BY <2>1, <4>1, <4>2
    <3> HIDE DEF Row, rank, S, a, b, inner
    <3>2. Row(h, r) = F[r]
      BY <1>9, <3>1
    <3> QED
      BY <1>13, <3>2
  <2>2. S \subseteq P
    <3> HIDE DEF rank, S, P
    <3> QED
      BY <1>4, <2>1, RankInduction
  <2>3. \A r \in S : F[r] \in Trees
    BY <1>8
  <2> QED
    BY <2>2, <2>3
<1>15. <<lo, hi>> \in S /\ FromArray(array, lo, hi) = h[<<lo, hi>>] /\ lo \in Nat /\ hi \in Nat
  BY <1>12
<1>16. lo >= hi => h[<<lo, hi>>] = Nil
  BY <1>13, <1>15
<1>17. ASSUME lo < hi
       PROVE  FromArray(array, lo, hi) =
                           Node(FromArray(array, lo, Mid(lo, hi)), array[Mid(lo, hi) + 1],
                                FromArray(array, Mid(lo, hi) + 1, hi))
  <2> DEFINE r == <<lo, hi>>
  <2>1. r \in S /\ r[1] = lo /\ r[2] = hi /\ ~(lo >= hi)
    BY <1>15, <1>17
  <2> HIDE DEF r
  <2>2. h[r] = Node(h[<<lo, Mid(lo, hi)>>], array[Mid(lo, hi) + 1], h[<<Mid(lo, hi) + 1, hi>>])
    BY <1>13, <2>1
  <2>3. <<lo, Mid(lo, hi)>> \in S /\ <<Mid(lo, hi) + 1, hi>> \in S
    BY <1>2, <1>17, <2>1
  <2>4. Mid(lo, hi) \in 0..n /\ Mid(lo, hi) + 1 \in 0..n
    BY <2>3
  <2>5. /\ FromArray(array, lo, Mid(lo, hi)) = h[<<lo, Mid(lo, hi)>>]
        /\ FromArray(array, Mid(lo, hi) + 1, hi) = h[<<Mid(lo, hi) + 1, hi>>]
    BY <1>12, <2>4
  <2> QED
    BY <1>15, <2>2, <2>5 DEF r
<1> QED
  BY <1>14, <1>15, <1>16, <1>17

\* Later entries come first.
Descending(array) == \A i, j \in 1..Len(array) : i < j => array[i].ts > array[j].ts

\* The elements lo..hi-1 of an array indexed from 0.
Slice(array, lo, hi) == {array[i] : i \in (lo + 1)..hi}

\* What the tree of a part of an array is.
BuiltFrom(t, array, lo, hi) ==
    /\ t \in Trees
    /\ Size(t) = hi - lo
    /\ Values(t) = Slice(array, lo, hi)
    /\ Descending(array) => Ordered(t)

LEMMA FromArrayResult ==
    ASSUME NEW array \in Seq(Entry), NEW lo \in 0..Len(array), NEW hi \in 0..Len(array), lo <= hi
    PROVE  BuiltFrom(FromArray(array, lo, hi), array, lo, hi)
<1> DEFINE n == Len(array)
           S == {r \in (0..n) \X (0..n) : r[1] <= r[2]}
           rank == [r \in S |-> r[2] - r[1]]
           P == {r \in S : BuiltFrom(FromArray(array, r[1], r[2]), array, r[1], r[2])}
<1>1. n \in Nat
  OBVIOUS
<1>2. rank \in [S -> Nat]
  BY <1>1
<1>3. ASSUME NEW r \in S, \A s \in S : rank[s] < rank[r] => s \in P
      PROVE  r \in P
  <2> DEFINE i == r[1]
             j == r[2]
             t == FromArray(array, i, j)
  <2>1. i \in 0..n /\ j \in 0..n /\ i \in Nat /\ j \in Nat /\ i <= j /\ j <= n
    BY <1>1
  <2> HIDE DEF i, j
  <2>2. CASE i = j
    <3>1. t = Nil
      BY <2>1, <2>2, FromArrayDef
    <3>2. Slice(array, i, j) = {}
      BY <2>1, <2>2 DEF Slice
    <3>3. BuiltFrom(t, array, i, j)
      BY <2>1, <2>2, <3>1, <3>2, NilProperties, ContentOfNil, NilIsOrdered DEF BuiltFrom
    <3> QED
      BY <3>3 DEF i, j
  <2>3. CASE i < j
    <3> DEFINE m == Mid(i, j)
               left == FromArray(array, i, m)
               right == FromArray(array, m + 1, j)
               e == array[m + 1]
    <3>1. m \in Nat /\ i <= m /\ m < j
      BY <2>1, <2>3, MidProperties
    <3> HIDE DEF m
    <3>2. m \in 0..n /\ m + 1 \in 0..n /\ m + 1 \in 1..n
      BY <1>1, <2>1, <3>1
    <3>3. t = Node(left, e, right)
      BY <2>1, <2>3, FromArrayDef DEF m
    <3>4. <<i, m>> \in S /\ <<m + 1, j>> \in S
      BY <2>1, <3>1, <3>2
    <3>5. rank[<<i, m>>] < rank[r] /\ rank[<<m + 1, j>>] < rank[r]
      <4>1. rank[<<i, m>>] = m - i /\ rank[<<m + 1, j>>] = j - (m + 1) /\ rank[r] = j - i
        BY <3>4 DEF i, j
      <4> QED
        BY <2>1, <3>1, <4>1
    <3>6. BuiltFrom(left, array, i, m) /\ BuiltFrom(right, array, m + 1, j)
      <4>1. <<i, m>> \in P /\ <<m + 1, j>> \in P
        BY <1>3, <3>4, <3>5
      <4> QED
        BY <4>1
    <3>7. e \in Entry
      BY <3>2
    <3>8. left \in Trees /\ right \in Trees
      BY <3>6 DEF BuiltFrom
    <3> HIDE DEF left, right, t
    <3>9. t \in Trees /\ Size(t) = j - i
      <4>1. Size(left) = m - i /\ Size(right) = j - (m + 1)
        BY <3>6 DEF BuiltFrom
      <4>2. t \in Trees /\ Size(t) = 1 + Size(left) + Size(right)
        BY <3>3, <3>7, <3>8, NodeIsTree, NodeProperties
      <4> HIDE DEF i, j, m, t
      <4> QED
        BY <2>1, <3>1, <4>1, <4>2
    <3>10. Values(t) = Slice(array, i, j)
      <4>1. Slice(array, i, j) = {e} \cup Slice(array, i, m) \cup Slice(array, m + 1, j)
        <5>1. (i + 1)..j = {m + 1} \cup ((i + 1)..m) \cup ((m + 1 + 1)..j)
          BY <2>1, <3>1
        <5> QED
          BY <5>1 DEF Slice
      <4> QED
        BY <3>3, <3>6, <3>7, <3>8, <4>1, ContentOfNode DEF BuiltFrom
    <3>11. ASSUME Descending(array) PROVE Ordered(t)
      <4>1. ASSUME NEW x \in Slice(array, i, m) PROVE x.ts > e.ts
        <5>1. PICK k \in (i + 1)..m : x = array[k]
          BY <4>1 DEF Slice
        <5>2. k \in 1..n /\ k < m + 1
          BY <2>1, <3>1, <5>1
        <5> QED
          BY <3>2, <3>11, <5>1, <5>2 DEF Descending
      <4>2. ASSUME NEW x \in Slice(array, m + 1, j) PROVE e.ts > x.ts
        <5>1. PICK k \in (m + 1 + 1)..j : x = array[k]
          BY <4>2 DEF Slice
        <5>2. k \in 1..n /\ m + 1 < k
          BY <2>1, <3>1, <5>1
        <5> QED
          BY <3>2, <3>11, <5>1, <5>2 DEF Descending
      <4>3. /\ Ordered(left) /\ Ordered(right)
            /\ Values(left) = Slice(array, i, m) /\ Values(right) = Slice(array, m + 1, j)
        BY <3>6, <3>11 DEF BuiltFrom
      <4> QED
        BY <3>3, <3>7, <3>8, <4>1, <4>2, <4>3, OrderedNode
    <3>12. BuiltFrom(t, array, i, j)
      BY <3>9, <3>10, <3>11 DEF BuiltFrom
    <3> QED
      BY <3>12 DEF i, j, t
  <2> QED
    BY <2>1, <2>2, <2>3
<1>4. S \subseteq P
  <2> HIDE DEF S, rank, P
  <2> QED
    BY <1>2, <1>3, RankInduction
<1>5. <<lo, hi>> \in S
  OBVIOUS
<1> QED
  BY <1>4, <1>5

\* The entries of a tree in an array.
Lists(array, t) ==
    /\ Len(array) = Size(t)
    /\ {array[i] : i \in 1..Len(array)} = Values(t)
    /\ Ordered(t) => Descending(array)

LEMMA ToArrayResult ==
    \A t \in Trees : Lists(ToArray(t), t)
<1> DEFINE P == {t \in Trees : Lists(ToArray(t), t)}
<1>1. Nil \in P
  <2>1. ToArray(Nil) = <<>> /\ Len(<<>>) = 0
    BY ToArrayDef
  <2>2. Lists(<<>>, Nil)
    BY NilProperties, ContentOfNil DEF Lists, Descending
  <2> QED
    BY <2>1, <2>2, NilProperties
<1>2. ASSUME NEW left \in Trees, NEW right \in Trees, NEW e \in Entry, left \in P, right \in P
      PROVE  Node(left, e, right) \in P
  <2> DEFINE t == Node(left, e, right)
             u == ToArray(left)
             v == ToArray(right)
             w == ToArray(t)
             p == Len(u)
             q == Len(v)
  <2>0. t \in Trees /\ t # Nil /\ t.left = left /\ t.right = right /\ t.value = e
    BY NodeIsTree, NodeProperties
  <2>1. t \in Trees /\ Size(t) = 1 + Size(left) + Size(right) /\ w = u \o <<e>> \o v
        /\ Values(t) = {e} \cup Values(left) \cup Values(right)
    <3>1. Size(t) = 1 + Size(left) + Size(right) /\ Values(t) = {e} \cup Values(left) \cup Values(right)
      BY NodeProperties, ContentOfNode
    <3>2. w = u \o <<e>> \o v
      <4> HIDE DEF t
      <4> QED
        BY <2>0, ToArrayDef
    <3> QED
      BY <2>0, <3>1, <3>2
  <2>2. u \in Seq(Entry) /\ v \in Seq(Entry) /\ <<e>> \in Seq(Entry)
    <3>1. u \in Seq(Entry) /\ v \in Seq(Entry)
      BY ToArrayDef
    <3> QED
      BY <3>1
  <2>3. p \in Nat /\ q \in Nat
    BY <2>2
  <2>4. /\ Size(left) = p /\ Size(right) = q
        /\ {u[i] : i \in 1..p} = Values(left) /\ {v[i] : i \in 1..q} = Values(right)
    BY <1>2 DEF Lists
  <2> HIDE DEF u, v, w
  <2>5. /\ Len(w) = p + 1 + q
        /\ \A i \in 1..p : w[i] = u[i]
        /\ w[p + 1] = e
        /\ \A i \in 1..q : w[p + 1 + i] = v[i]
    BY <2>1, <2>2, <2>3
  <2> HIDE DEF p, q, t
  <2>6. \A i \in 1..Len(w) : i \in 1..p \/ i = p + 1 \/ (i - (p + 1) \in 1..q /\ i = p + 1 + (i - (p + 1)))
    BY <2>3, <2>5
  <2>7. {w[i] : i \in 1..Len(w)} = Values(t)
    <3>1. ASSUME NEW x \in Values(t) PROVE \E i \in 1..Len(w) : w[i] = x
      <4>1. CASE x = e
        <5>1. p + 1 \in 1..Len(w)
          BY <2>3, <2>5
        <5> QED
          BY <2>5, <4>1, <5>1
      <4>2. CASE x \in Values(left)
        <5>1. PICK i \in 1..p : u[i] = x
          BY <2>4, <4>2
        <5>2. i \in 1..Len(w)
          BY <2>3, <2>5
        <5> QED
          BY <2>5, <5>1, <5>2
      <4>3. CASE x \in Values(right)
        <5>1. PICK i \in 1..q : v[i] = x
          BY <2>4, <4>3
        <5>2. p + 1 + i \in 1..Len(w)
          BY <2>3, <2>5
        <5> QED
          BY <2>5, <5>1, <5>2
      <4> QED
        BY <2>1, <4>1, <4>2, <4>3
    <3>2. ASSUME NEW i \in 1..Len(w) PROVE w[i] \in Values(t)
      <4>1. \A k \in 1..p : u[k] \in Values(left)
        BY <2>4
      <4>2. \A k \in 1..q : v[k] \in Values(right)
        BY <2>4
      <4>3. CASE i \in 1..p
        BY <2>1, <2>5, <4>1, <4>3
      <4>4. CASE i = p + 1
        BY <2>1, <2>5, <4>4
      <4>5. CASE i - (p + 1) \in 1..q /\ i = p + 1 + (i - (p + 1))
        <5>1. w[i] = v[i - (p + 1)]
          BY <2>5, <4>5
        <5> QED
          BY <2>1, <4>2, <4>5, <5>1
      <4> QED
        BY <2>6, <4>3, <4>4, <4>5
    <3> QED
      BY <3>1, <3>2
  <2>8. ASSUME Ordered(t) PROVE Descending(w)
    <3>1. /\ Ordered(left) /\ Ordered(right)
          /\ \A x \in Values(left) : x.ts > e.ts
          /\ \A x \in Values(right) : e.ts > x.ts
      BY <2>8, OrderedNode DEF t
    <3>2. /\ \A i, j \in 1..p : i < j => u[i].ts > u[j].ts
          /\ \A i, j \in 1..q : i < j => v[i].ts > v[j].ts
      BY <1>2, <3>1 DEF Lists, Descending, u, v, p, q
    <3>3. \A i \in 1..p : u[i] \in Values(left) /\ u[i].ts > e.ts /\ u[i].ts \in Nat
      <4>1. \A i \in 1..p : u[i] \in Entry
        BY <2>2 DEF p
      <4>2. \A x \in Entry : x.ts \in Nat
        BY DEF Entry
      <4> QED
        BY <2>4, <3>1, <4>1, <4>2
    <3>4. \A i \in 1..q : v[i] \in Values(right) /\ e.ts > v[i].ts /\ v[i].ts \in Nat
      <4>1. \A i \in 1..q : v[i] \in Entry
        BY <2>2 DEF q
      <4>2. \A x \in Entry : x.ts \in Nat
        BY DEF Entry
      <4> QED
        BY <2>4, <3>1, <4>1, <4>2
    <3>5. e.ts \in Nat
      BY DEF Entry
    <3>6. ASSUME NEW i \in 1..Len(w), NEW j \in 1..Len(w), i < j
          PROVE  w[i].ts > w[j].ts
      <4>1. CASE i \in 1..p /\ j \in 1..p
        BY <2>5, <3>2, <3>6, <4>1
      <4>2. CASE i \in 1..p /\ j = p + 1
        BY <2>5, <3>3, <4>2
      <4>3. CASE i \in 1..p /\ j \notin 1..p /\ j # p + 1
        <5>1. j - (p + 1) \in 1..q /\ j = p + 1 + (j - (p + 1))
          BY <2>6, <4>3
        <5> DEFINE k == j - (p + 1)
        <5>2. w[j] = v[k] /\ k \in 1..q
          BY <2>5, <5>1
        <5> HIDE DEF k
        <5>3. w[i] = u[i]
          BY <2>5, <4>3
        <5>4. u[i].ts > e.ts /\ e.ts > v[k].ts /\ u[i].ts \in Nat /\ v[k].ts \in Nat
          BY <3>3, <3>4, <4>3, <5>2
        <5> QED
          BY <3>5, <5>2, <5>3, <5>4
      <4>4. CASE i = p + 1
        <5>1. j \notin 1..p /\ j # p + 1
          BY <2>3, <3>6, <4>4
        <5>2. j - (p + 1) \in 1..q /\ j = p + 1 + (j - (p + 1))
          BY <2>6, <5>1
        <5>3. w[j] = v[j - (p + 1)]
          BY <2>5, <5>2
        <5> QED
          BY <2>5, <3>4, <4>4, <5>2, <5>3
      <4>5. CASE i \notin 1..p /\ i # p + 1
        <5>1. j \notin 1..p /\ j # p + 1
          BY <2>3, <3>6, <4>5
        <5>2. j - (p + 1) \in 1..q /\ j = p + 1 + (j - (p + 1))
          BY <2>6, <5>1
        <5>3. i - (p + 1) \in 1..q /\ i = p + 1 + (i - (p + 1))
          BY <2>6, <4>5
        <5>4. w[j] = v[j - (p + 1)] /\ w[i] = v[i - (p + 1)]
          BY <2>5, <5>2, <5>3
        <5>5. i - (p + 1) < j - (p + 1)
          BY <2>3, <3>6
        <5> QED
          BY <3>2, <5>2, <5>3, <5>4, <5>5
      <4> QED
        BY <4>1, <4>2, <4>3, <4>4, <4>5
    <3> QED
      BY <3>6 DEF Descending
  <2>9. Len(w) = Size(t)
    BY <2>1, <2>3, <2>4, <2>5
  <2>10. Lists(w, t) /\ t \in Trees
    BY <2>1, <2>7, <2>8, <2>9 DEF Lists
  <2> QED
    BY <2>10 DEF w, t
<1>3. Trees \subseteq P
  <2> HIDE DEF P
  <2> QED
    BY <1>1, <1>2, TreeInduction
<1> QED
  BY <1>3

\* A tree with the same entries, at the root of which the subtrees are balanced.
OfSameEntries(s, t) ==
    /\ s \in Trees
    /\ Size(s) = Size(t)
    /\ Values(s) = Values(t)
    /\ Ordered(t) => Ordered(s)
    /\ s # Nil => ~BadBalance(s)

LEMMA OnTheWayDownResult ==
    \A t \in Trees : OfSameEntries(OnTheWayDown(t), t)
<1> SUFFICES ASSUME NEW t \in Trees
             PROVE  OfSameEntries(OnTheWayDown(t), t)
  OBVIOUS
<1>1. CASE ~BadBalance(t)
  BY <1>1 DEF OnTheWayDown, OfSameEntries
<1>2. CASE BadBalance(t)
  <2> DEFINE array == ToArray(t)
             n == Size(t)
             s == FromArray(array, 0, n)
  <2>1. array \in Seq(Entry) /\ Lists(array, t) /\ n \in Nat
    BY ToArrayDef, ToArrayResult, TreeProperties
  <2>2. Len(array) = n /\ 0 \in 0..n /\ n \in 0..n
    BY <2>1 DEF Lists
  <2>3. OnTheWayDown(t) = s
    BY <1>2 DEF OnTheWayDown, Rebalance
  <2> HIDE DEF array, n, s
  <2>4. BuiltFrom(s, array, 0, n)
    BY <2>1, <2>2, FromArrayResult DEF s
  <2>5. Slice(array, 0, n) = Values(t)
    BY <2>1, <2>2 DEF Slice, Lists
  <2>6. /\ s \in Trees /\ Size(s) = Size(t) /\ Values(s) = Values(t)
        /\ Ordered(t) => Ordered(s)
    BY <2>1, <2>4, <2>5 DEF BuiltFrom, Lists, n
  <2>7. ASSUME s # Nil PROVE ~BadBalance(s)
    <3>1. 0 < n
      BY <2>1, <2>6, <2>7, TreeProperties DEF n
    <3> DEFINE m == Mid(0, n)
               left == FromArray(array, 0, m)
               right == FromArray(array, m + 1, n)
    <3>2. m \in Nat /\ m < n /\ (m - 0 = n - (m + 1) \/ m - 0 = n - (m + 1) + 1)
      BY <2>1, <3>1, MidProperties
    <3>3. s = Node(left, array[m + 1], right)
      BY <2>1, <2>2, <3>1, FromArrayDef DEF s
    <3> HIDE DEF m
    <3>4. m \in 0..n /\ m + 1 \in 0..n /\ m + 1 <= n
      BY <2>1, <3>2
    <3>5. BuiltFrom(left, array, 0, m) /\ BuiltFrom(right, array, m + 1, n)
      BY <2>1, <2>2, <3>2, <3>4, FromArrayResult
    <3> HIDE DEF left, right
    <3>6. s.left = left /\ s.right = right
      BY <3>3, NodeProperties
    <3>7. Size(s.left) = m /\ Size(s.right) = n - (m + 1)
      BY <3>2, <3>5, <3>6 DEF BuiltFrom
    <3> QED
      BY <2>1, <3>2, <3>7 DEF BadBalance
  <2> QED
    BY <2>3, <2>6, <2>7 DEF OfSameEntries
<1> QED
  BY <1>1, <1>2

-----------------------------------------------------------------------------
(* What is inserted                                                        *)

LEMMA LeafIsNode ==
    ASSUME NEW newts \in Nat, NEW newval \in Stored
    PROVE  /\ Leaf(newts, newval) \in Trees
           /\ Size(Leaf(newts, newval)) = 1
           /\ Leaf(newts, newval) = Node(Nil, [ts |-> newts, value |-> newval], Nil)
<1>1. [ts |-> newts, value |-> newval] \in Entry
  BY DEF Entry
<1>2. Size(Leaf(newts, newval)) = 1
  BY NodeProperties, NilProperties DEF Leaf
<1> QED
  BY <1>1, <1>2, NodeIsTree, NilProperties DEF Leaf

\* The trees over which the insertion recurses.
LEMMA SmallerTrees ==
    ASSUME NEW t \in Trees
    PROVE  {m \in Below(t) : Size(m) <= Size(t)} = {m \in Trees : Size(m) <= Size(t)}
<1>1. Below(t) \subseteq Trees
  BY TreeIsBelow
<1>2. ASSUME NEW m \in Trees, Size(m) <= Size(t)
      PROVE  m \in Below(t)
  <2>1. m \in Below(m) /\ Size(m) \in Nat /\ Size(t) \in Nat
    BY TreeIsBelow, TreeProperties
  <2>2. Tree[Size(m)] \subseteq Tree[Size(t)]
    BY <1>2, <2>1, Raw!LevelsGrow, SameTrees
  <2> QED
    BY <2>1, <2>2 DEF Below
<1> QED
  BY <1>1, <1>2

\* A row of the function behind Insert(), and the same with sizes that are right.
InsertBelow(m, newts, newval, f) ==
    IF m = Nil THEN Leaf(newts, newval)
    ELSE LET b == OnTheWayDown(m)
         IN IF newts > Key(b)
            THEN [b EXCEPT !.left = f[@], !.size = @ + 1]
            ELSE [b EXCEPT !.right = f[@], !.size = @ + 1]

InsertAt(m, newts, newval, f) ==
    IF m = Nil THEN Leaf(newts, newval)
    ELSE IF newts > Key(OnTheWayDown(m))
    THEN Node(f[OnTheWayDown(m).left], OnTheWayDown(m).value, OnTheWayDown(m).right)
    ELSE Node(OnTheWayDown(m).left, OnTheWayDown(m).value, f[OnTheWayDown(m).right])

\* On the way down a tree keeps its nodes, and the ways go down.
LEMMA WaysDown ==
    ASSUME NEW m \in Trees, m # Nil
    PROVE  /\ OnTheWayDown(m) \in Trees /\ OnTheWayDown(m) # Nil
           /\ Size(OnTheWayDown(m)) = Size(m)
           /\ OnTheWayDown(m).value \in Entry
           /\ OnTheWayDown(m).left \in Trees /\ OnTheWayDown(m).right \in Trees
           /\ OnTheWayDown(m).size = Size(m)
           /\ Size(m) = 1 + Size(OnTheWayDown(m).left) + Size(OnTheWayDown(m).right)
           /\ Size(OnTheWayDown(m).left) \in Nat /\ Size(OnTheWayDown(m).right) \in Nat
           /\ Size(OnTheWayDown(m).left) < Size(m) /\ Size(OnTheWayDown(m).right) < Size(m)
<1> DEFINE b == OnTheWayDown(m)
<1>1. b \in Trees /\ Size(b) = Size(m)
  BY OnTheWayDownResult DEF OfSameEntries
<1>2. b # Nil
  BY <1>1, TreeProperties
<1> HIDE DEF b
<1>3. /\ b.value \in Entry /\ b.left \in Trees /\ b.right \in Trees
      /\ b.size = Size(b) /\ Size(b) = 1 + Size(b.left) + Size(b.right)
  BY <1>1, <1>2, TreeProperties
<1>4. Size(b.left) \in Nat /\ Size(b.right) \in Nat
  BY <1>3, TreeProperties
<1>5. Size(b.left) < Size(m) /\ Size(b.right) < Size(m)
  BY <1>1, <1>3, <1>4
<1> QED
  BY <1>1, <1>2, <1>3, <1>4, <1>5 DEF b

\* What a row of the insertion is when the subtree has one element more.
LEMMA InsertRow ==
    ASSUME NEW m \in Trees, NEW newts \in Nat, NEW newval \in Stored, NEW f,
           m # Nil => /\ f[OnTheWayDown(m).left] \in Trees
                      /\ Size(f[OnTheWayDown(m).left]) = Size(OnTheWayDown(m).left) + 1
                      /\ f[OnTheWayDown(m).right] \in Trees
                      /\ Size(f[OnTheWayDown(m).right]) = Size(OnTheWayDown(m).right) + 1
    PROVE  /\ InsertAt(m, newts, newval, f) \in Trees
           /\ Size(InsertAt(m, newts, newval, f)) = Size(m) + 1
           /\ InsertAt(m, newts, newval, f) = InsertBelow(m, newts, newval, f)
<1>1. CASE m = Nil
  <2>1. /\ InsertAt(m, newts, newval, f) = Leaf(newts, newval)
        /\ InsertBelow(m, newts, newval, f) = Leaf(newts, newval)
    BY <1>1, Zenon DEF InsertAt, InsertBelow
  <2>2. Leaf(newts, newval) \in Trees /\ Size(Leaf(newts, newval)) = 1
    BY LeafIsNode, Zenon
  <2>3. 1 = Size(m) + 1
    BY <1>1, NilProperties
  <2> QED
    BY <2>1, <2>2, <2>3, Zenon
<1>2. CASE m # Nil
  <2> DEFINE b == OnTheWayDown(m)
             u == f[b.left]
             v == f[b.right]
  <2>1. /\ b \in Trees /\ b # Nil /\ b.value \in Entry /\ b.left \in Trees /\ b.right \in Trees
        /\ b.size = Size(m) /\ Size(m) = 1 + Size(b.left) + Size(b.right)
        /\ Size(b.left) \in Nat /\ Size(b.right) \in Nat
    BY <1>2, WaysDown
  <2>2. u \in Trees /\ Size(u) = Size(b.left) + 1 /\ v \in Trees /\ Size(v) = Size(b.right) + 1
    BY <1>2
  <2>3. InsertAt(m, newts, newval, f) =
          IF newts > Key(b) THEN Node(u, b.value, b.right) ELSE Node(b.left, b.value, v)
    BY <1>2 DEF InsertAt
  <2>4. [b EXCEPT !.left = f[@], !.size = @ + 1] = [b EXCEPT !.left = u, !.size = b.size + 1]
    OBVIOUS
  <2>5. [b EXCEPT !.right = f[@], !.size = @ + 1] = [b EXCEPT !.right = v, !.size = b.size + 1]
    OBVIOUS
  <2> HIDE DEF u, v, b
  <2>6. /\ [b EXCEPT !.left = u, !.size = b.size + 1] = Node(u, b.value, b.right)
        /\ [b EXCEPT !.right = v, !.size = b.size + 1] = Node(b.left, b.value, v)
    <3>1. b.size + 1 = 1 + Size(u) + Size(b.right) /\ b.size + 1 = 1 + Size(b.left) + Size(v)
      BY <2>1, <2>2
    <3>2. [b EXCEPT !.left = u, !.size = b.size + 1] = Node(u, b.value, b.right)
      BY <2>1, <3>1, NodeWithSubtree, Zenon
    <3>3. [b EXCEPT !.right = v, !.size = b.size + 1] = Node(b.left, b.value, v)
      <4> DEFINE y == b.size + 1
      <4>1. y = 1 + Size(b.left) + Size(v)
        BY <3>1
      <4> HIDE DEF y
      <4>2. [b EXCEPT !.right = v, !.size = y] = Node(b.left, b.value, v)
        BY <2>1, <4>1, NodeWithSubtree, Zenon
      <4> QED
        BY <4>2, Zenon DEF y
    <3> QED
      BY <3>2, <3>3, Zenon
  <2>7. /\ Node(u, b.value, b.right) \in Trees
        /\ Node(b.left, b.value, v) \in Trees
        /\ Size(Node(u, b.value, b.right)) = Size(m) + 1
        /\ Size(Node(b.left, b.value, v)) = Size(m) + 1
    <3>1. /\ Node(u, b.value, b.right) \in Trees
          /\ Node(b.left, b.value, v) \in Trees
      BY <2>1, <2>2, NodeIsTree
    <3>2. /\ Size(Node(u, b.value, b.right)) = 1 + Size(u) + Size(b.right)
          /\ Size(Node(b.left, b.value, v)) = 1 + Size(b.left) + Size(v)
      BY NodeProperties
    <3> QED
      BY <2>1, <2>2, <3>1, <3>2
  <2>8. InsertBelow(m, newts, newval, f) =
                IF newts > Key(b)
                THEN [b EXCEPT !.left = f[@], !.size = @ + 1]
                ELSE [b EXCEPT !.right = f[@], !.size = @ + 1]
    BY <1>2, Zenon DEF InsertBelow, b
  <2>10. InsertBelow(m, newts, newval, f) = InsertAt(m, newts, newval, f)
    BY <2>3, <2>4, <2>5, <2>6, <2>8, Zenon
  <2>9. InsertAt(m, newts, newval, f) \in Trees /\ Size(InsertAt(m, newts, newval, f)) = Size(m) + 1
    BY <2>3, <2>7
  <2> QED
    BY <2>9, <2>10, Zenon
<1> QED
  BY <1>1, <1>2

\* Insert() satisfies its definition.
LEMMA InsertDef ==
    ASSUME NEW newts \in Nat, NEW newval \in Stored
    PROVE  \A t \in Trees :
              /\ Insert(t, newts, newval) \in Trees
              /\ Size(Insert(t, newts, newval)) = Size(t) + 1
              /\ Insert(t, newts, newval) =
                   IF t = Nil THEN Leaf(newts, newval)
                   ELSE IF newts > Key(OnTheWayDown(t))
                   THEN Node(Insert(OnTheWayDown(t).left, newts, newval),
                             OnTheWayDown(t).value, OnTheWayDown(t).right)
                   ELSE Node(OnTheWayDown(t).left, OnTheWayDown(t).value,
                             Insert(OnTheWayDown(t).right, newts, newval))
<1> DEFINE S == Trees
           inner == Trees \ {Nil}
           rank == [m \in S |-> Size(m)]
           a == [m \in S |-> IF m = Nil THEN Nil ELSE OnTheWayDown(m).left]
           b == [m \in S |-> IF m = Nil THEN Nil ELSE OnTheWayDown(m).right]
           T == [m \in S |-> {s \in Trees : Size(s) = Size(m) + 1}]
           D == S \X Trees \X Trees
           step == [x \in D |-> IF newts > Key(OnTheWayDown(x[1]))
                                THEN Node(x[2], OnTheWayDown(x[1]).value, OnTheWayDown(x[1]).right)
                                ELSE Node(OnTheWayDown(x[1]).left, OnTheWayDown(x[1]).value, x[3])]
           leaf == [m \in S |-> Leaf(newts, newval)]
<1>1. /\ rank \in [S -> Nat] /\ a \in [S -> S] /\ b \in [S -> S]
      /\ T \in [S -> SUBSET Trees]
  BY WaysDown, NilProperties, TreeProperties
<1>2. ASSUME NEW m \in S, m \in inner
      PROVE  /\ m # Nil /\ a[m] = OnTheWayDown(m).left /\ b[m] = OnTheWayDown(m).right
             /\ a[m] \in S /\ b[m] \in S
             /\ rank[a[m]] < rank[m] /\ rank[b[m]] < rank[m]
  BY <1>2, WaysDown
<1>3. ASSUME NEW m \in S, m \in inner, NEW u \in T[a[m]], NEW v \in T[b[m]]
      PROVE  step[<<m, u, v>>] \in T[m]
  <2> DEFINE c == OnTheWayDown(m)
  <2>1. /\ c.value \in Entry /\ c.left \in Trees /\ c.right \in Trees
        /\ Size(m) = 1 + Size(c.left) + Size(c.right)
        /\ Size(c.left) \in Nat /\ Size(c.right) \in Nat
    BY <1>3, WaysDown
  <2>2. u \in Trees /\ v \in Trees /\ Size(u) = Size(c.left) + 1 /\ Size(v) = Size(c.right) + 1
    BY <1>2, <1>3, <2>1
  <2>3. step[<<m, u, v>>] = IF newts > Key(c) THEN Node(u, c.value, c.right) ELSE Node(c.left, c.value, v)
    BY <2>2
  <2> HIDE DEF c, step
  <2>4. /\ Node(u, c.value, c.right) \in Trees
        /\ Node(c.left, c.value, v) \in Trees
    BY <2>1, <2>2, NodeIsTree
  <2>5. /\ Size(Node(u, c.value, c.right)) = 1 + Size(u) + Size(c.right)
        /\ Size(Node(c.left, c.value, v)) = 1 + Size(c.left) + Size(v)
    BY NodeProperties
  <2>6. step[<<m, u, v>>] \in Trees /\ Size(step[<<m, u, v>>]) = Size(m) + 1
    BY <2>1, <2>2, <2>3, <2>4, <2>5
  <2> QED
    BY <2>6
<1>4. \A m \in S : m \notin inner => leaf[m] \in T[m]
  <2>1. Size(Leaf(newts, newval)) = Size(Nil) + 1 /\ Leaf(newts, newval) \in Trees
    <3>1. Size(Leaf(newts, newval)) = 1 /\ Leaf(newts, newval) \in Trees
      BY LeafIsNode, Zenon
    <3>2. 1 = Size(Nil) + 1
      BY NilProperties
    <3> QED
      BY <3>1, <3>2, Zenon
  <2> QED
    BY <2>1
<1>5. \A x \in D : step[x] = IF newts > Key(OnTheWayDown(x[1]))
                                THEN Node(x[2], OnTheWayDown(x[1]).value, OnTheWayDown(x[1]).right)
                                ELSE Node(OnTheWayDown(x[1]).left, OnTheWayDown(x[1]).value, x[3])
  OBVIOUS
<1>6. PICK F : /\ \A m \in S : F[m] \in T[m]
               /\ Recurs(F, S, inner, a, b, leaf, step)
  <2>1. \A m \in S : m \in inner => rank[a[m]] < rank[m] /\ rank[b[m]] < rank[m]
    BY <1>2
  <2> HIDE DEF S, inner, rank, a, b, D, step, leaf, T
  <2> QED
    BY <1>1, <1>3, <1>4, <2>1, RankedRecursion
<1>7. \A m \in Trees : F[m] \in Trees /\ Size(F[m]) = Size(m) + 1
  BY <1>6
<1>8. ASSUME NEW m \in Trees
      PROVE  F[m] = InsertAt(m, newts, newval, F)
  <2>1. CASE m = Nil
    BY <1>6, <2>1 DEF Recurs, InsertAt
  <2>2. CASE m # Nil
    <3>1. F[m] = step[<<m, F[a[m]], F[b[m]]>>]
      BY <1>6, <2>2 DEF Recurs
    <3>2. a[m] \in Trees /\ b[m] \in Trees /\ a[m] = OnTheWayDown(m).left /\ b[m] = OnTheWayDown(m).right
      BY <1>2, <2>2
    <3>3. F[a[m]] \in Trees /\ F[b[m]] \in Trees
      BY <1>7, <3>2
    <3>4. step[<<m, F[a[m]], F[b[m]]>>] =
             IF newts > Key(OnTheWayDown(m))
             THEN Node(F[a[m]], OnTheWayDown(m).value, OnTheWayDown(m).right)
             ELSE Node(OnTheWayDown(m).left, OnTheWayDown(m).value, F[b[m]])
      BY <1>5, <3>3
    <3> HIDE DEF a, b, step
    <3> QED
      BY <2>2, <3>1, <3>2, <3>4 DEF InsertAt
  <2> QED
    BY <2>1, <2>2
<1> HIDE DEF T, D, step, leaf, a, b
<1>9. ASSUME NEW t \in Trees
      PROVE  Insert(t, newts, newval) = F[t]
  <2> DEFINE Z == {m \in Trees : Size(m) <= Size(t)}
             Row(f, m) == InsertBelow(m, newts, newval, f)
             Body(f) == [m \in Z |-> Row(f, m)]
             g == [m \in Z |-> F[m]]
             h == CHOOSE f : f = Body(f)
  <2>1. Insert(t, newts, newval) = h[t]
    BY SmallerTrees DEF Insert, InsertBelow
  <2>2. ASSUME NEW m \in Z, m # Nil
        PROVE  OnTheWayDown(m).left \in Z /\ OnTheWayDown(m).right \in Z
    <3>1. Size(m) \in Nat /\ Size(t) \in Nat /\ Size(m) <= Size(t)
      BY TreeProperties
    <3> QED
      BY <2>2, <3>1, WaysDown
  <2>3. ASSUME NEW m \in Z, NEW f,
               m # Nil => /\ f[OnTheWayDown(m).left] = F[OnTheWayDown(m).left]
                          /\ f[OnTheWayDown(m).right] = F[OnTheWayDown(m).right]
        PROVE  Row(f, m) = F[m]
    <3>1. m # Nil => /\ f[OnTheWayDown(m).left] \in Trees
                     /\ Size(f[OnTheWayDown(m).left]) = Size(OnTheWayDown(m).left) + 1
                     /\ f[OnTheWayDown(m).right] \in Trees
                     /\ Size(f[OnTheWayDown(m).right]) = Size(OnTheWayDown(m).right) + 1
      BY <1>7, <2>3, WaysDown
    <3>2. InsertAt(m, newts, newval, f) = Row(f, m)
      BY <3>1, InsertRow, Zenon
    <3>3. InsertAt(m, newts, newval, f) = InsertAt(m, newts, newval, F)
      BY <2>3 DEF InsertAt
    <3> HIDE DEF Row
    <3> QED
      BY <1>8, <3>2, <3>3
  <2> HIDE DEF Row
  <2>4. g = Body(g)
    <3>1. \A m \in Z : g[m] = F[m]
      OBVIOUS
    <3> HIDE DEF g, Z
    <3>2. \A m \in Z : Row(g, m) = F[m]
      BY <2>2, <2>3, <3>1
    <3>3. Body(g) = [m \in Z |-> F[m]]
      BY <3>2
    <3> QED
      BY <3>3 DEF g
  <2>5. h = Body(h)
    <3> HIDE DEF g, Body
    <3> QED
      BY <2>4
  <2> HIDE DEF h
  <2>6. \A m \in Z : h[m] = Row(h, m)
    <3> HIDE DEF Z
    <3> QED
      BY <2>5
  <2> DEFINE P == {m \in Trees : m \in Z => h[m] = F[m]}
  <2>7. ASSUME NEW m \in S, \A s \in S : rank[s] < rank[m] => s \in P
        PROVE  m \in P
    <3> SUFFICES ASSUME m \in Z PROVE h[m] = F[m]
      OBVIOUS
    <3>1. m # Nil => /\ OnTheWayDown(m).left \in P
                     /\ OnTheWayDown(m).right \in P
      BY <2>7, WaysDown
    <3>2. m # Nil => /\ h[OnTheWayDown(m).left] = F[OnTheWayDown(m).left]
                     /\ h[OnTheWayDown(m).right] = F[OnTheWayDown(m).right]
      BY <2>2, <3>1
    <3> HIDE DEF Z
    <3> QED
      BY <2>3, <2>6, <3>2
  <2>8. S \subseteq P
    <3> HIDE DEF S, rank, P
    <3> QED
      BY <1>1, <2>7, RankInduction
  <2>9. t \in Z
    BY TreeProperties
  <2> HIDE DEF Z
  <2> QED
    BY <2>1, <2>8, <2>9
<1> QED
  <2> SUFFICES ASSUME NEW t \in Trees
               PROVE  /\ Insert(t, newts, newval) \in Trees
                      /\ Size(Insert(t, newts, newval)) = Size(t) + 1
                      /\ Insert(t, newts, newval) =
                           IF t = Nil THEN Leaf(newts, newval)
                           ELSE IF newts > Key(OnTheWayDown(t))
                           THEN Node(Insert(OnTheWayDown(t).left, newts, newval),
                                     OnTheWayDown(t).value, OnTheWayDown(t).right)
                           ELSE Node(OnTheWayDown(t).left, OnTheWayDown(t).value,
                                     Insert(OnTheWayDown(t).right, newts, newval))
    OBVIOUS
  <2>1. Insert(t, newts, newval) \in Trees /\ Size(Insert(t, newts, newval)) = Size(t) + 1
    BY <1>7, <1>9
  <2>2. Insert(t, newts, newval) = InsertAt(t, newts, newval, F)
    BY <1>8, <1>9
  <2>3. CASE t = Nil
    BY <2>1, <2>2, <2>3 DEF InsertAt
  <2>4. CASE t # Nil
    <3>1. /\ F[OnTheWayDown(t).left] = Insert(OnTheWayDown(t).left, newts, newval)
          /\ F[OnTheWayDown(t).right] = Insert(OnTheWayDown(t).right, newts, newval)
      BY <1>9, <2>4, WaysDown
    <3> QED
      BY <2>1, <2>2, <2>4, <3>1 DEF InsertAt
  <2> QED
    BY <2>3, <2>4

\* The subtrees of a node are about as heavy as each other, "off by 1 element".
OffByOne(n) ==
    LET l == Size(n.left) + 1
        r == Size(n.right) + 1
    IN l <= 2 * r + 1 /\ r <= 2 * l + 1

\* The tree s is t and an entry that was not in it.
Inserts(s, t, e) ==
    /\ s \in Trees
    /\ Size(s) = Size(t) + 1
    /\ Values(s) = Values(t) \cup {e}
    /\ Ordered(s)
    /\ \A n \in Path(s, e.ts) : OffByOne(n)

\* Subtrees have keys of the tree.
LEMMA KeysOfNodes ==
    ASSUME NEW t \in Trees, NEW n \in Nodes(t)
    PROVE  n \in Trees /\ Keys(n) \subseteq Keys(t)
<1>1. n \in Trees /\ Nodes(n) \subseteq Nodes(t)
  BY Raw!NodesOfTree, SameTrees, SameContents, SameNotions
<1> QED
  BY <1>1 DEF Keys

LEMMA InsertAtLeaf ==
    ASSUME NEW e \in Entry
    PROVE  Inserts(Leaf(e.ts, e.value), Nil, e)
<1> DEFINE s == Leaf(e.ts, e.value)
<1>0. e.ts \in Nat /\ e.value \in Stored /\ e = [ts |-> e.ts, value |-> e.value]
  BY DEF Entry
<1>1. s \in Trees /\ Size(s) = 1 /\ s = Node(Nil, e, Nil)
  BY <1>0, LeafIsNode
<1>2. Values(s) = {e} /\ Ordered(s)
  <2>1. Values(Node(Nil, e, Nil)) = {e} /\ Ordered(Node(Nil, e, Nil))
    BY ContentOfNode, ContentOfNil, NilProperties, OrderedNode, NilIsOrdered
  <2> QED
    BY <1>1, <2>1
<1>3. \A n \in Path(s, e.ts) : OffByOne(n)
  <2>1. Nodes(s) = {s}
    <3>1. Nodes(Node(Nil, e, Nil)) = {Node(Nil, e, Nil)}
      BY NodesOfNode, NodesOfTree, NilProperties
    <3> QED
      BY <1>1, <3>1
  <2>2. s.left = Nil /\ s.right = Nil
    BY <1>1, NodeProperties
  <2>3. OffByOne(s)
    BY <2>2, NilProperties DEF OffByOne
  <2> QED
    BY <2>1, <2>3 DEF Path
<1>4. Size(s) = Size(Nil) + 1 /\ Values(s) = Values(Nil) \cup {e}
  BY <1>1, <1>2, NilProperties, ContentOfNil
<1> QED
  BY <1>1, <1>2, <1>3, <1>4 DEF Inserts

\* An insertion on the left or on the right of a balanced node.
LEMMA InsertAtNode ==
    ASSUME NEW b \in Trees, b # Nil, Ordered(b), ~BadBalance(b), NEW e \in Entry,
           NEW u \in Trees
    PROVE  /\ e.ts > b.value.ts /\ Inserts(u, b.left, e) => Inserts(Node(u, b.value, b.right), b, e)
           /\ e.ts < b.value.ts /\ Inserts(u, b.right, e) => Inserts(Node(b.left, b.value, u), b, e)
<1> DEFINE p == b.left
           q == b.right
           v == b.value
<1>1. /\ p \in Trees /\ q \in Trees /\ v \in Entry /\ b = Node(p, v, q)
      /\ Size(b) = 1 + Size(p) + Size(q)
  BY TreeProperties
<1>2. Size(p) \in Nat /\ Size(q) \in Nat
  BY <1>1, TreeProperties
<1>3. ~BadBalance(b) => Size(p) + 1 <= 2 * (Size(q) + 1) /\ Size(q) + 1 <= 2 * (Size(p) + 1)
  BY <1>2 DEF BadBalance
<1> HIDE DEF p, q, v
<1>4. /\ Ordered(p) /\ Ordered(q)
      /\ \A x \in Values(p) : x.ts > v.ts
      /\ \A x \in Values(q) : v.ts > x.ts
      /\ Values(b) = {v} \cup Values(p) \cup Values(q)
  BY <1>1, OrderedNode, ContentOfNode
<1>5. v.ts \in Nat /\ e.ts \in Nat
  BY <1>1 DEF Entry
<1>6. ASSUME e.ts > v.ts, Inserts(u, p, e)
      PROVE  Inserts(Node(u, v, q), b, e)
  <2> DEFINE s == Node(u, v, q)
  <2>1. Size(u) = Size(p) + 1 /\ Values(u) = Values(p) \cup {e} /\ Ordered(u)
    BY <1>6 DEF Inserts
  <2>2. s \in Trees /\ Size(s) = 1 + Size(u) + Size(q) /\ s.left = u /\ s.right = q
    BY <1>1, NodeIsTree, NodeProperties
  <2>3. Values(s) = {v} \cup Values(u) \cup Values(q)
    BY <1>1, ContentOfNode
  <2>4. Ordered(s)
    BY <1>1, <1>4, <1>6, <2>1, OrderedNode
  <2>5. Nodes(s) = {s} \cup Nodes(u) \cup Nodes(q)
    BY <1>1, NodesOfNode
  <2> HIDE DEF s
  <2>6. ASSUME NEW n \in Path(s, e.ts)
        PROVE  OffByOne(n)
    <3>1. n \in Nodes(s) /\ e.ts \in Keys(n)
      BY DEF Path
    <3>2. CASE n = s
      BY <1>2, <1>3, <2>1, <2>2, <3>2 DEF OffByOne
    <3>3. CASE n \in Nodes(u)
      BY <1>6, <3>1, <3>3 DEF Inserts, Path
    <3>4. n \notin Nodes(q)
      <4>1. ASSUME e.ts \in Keys(q) PROVE FALSE
        <5>1. PICK x \in Values(q) : x.ts = e.ts
          BY <1>1, <4>1, ContentProperties
        <5> QED
          BY <1>4, <1>5, <1>6, <5>1
      <4> QED
        BY <1>1, <3>1, <4>1, KeysOfNodes
    <3> QED
      BY <2>5, <3>1, <3>2, <3>3, <3>4
  <2>7. Size(s) = Size(b) + 1
    BY <1>1, <1>2, <2>1, <2>2
  <2>8. Values(s) = Values(b) \cup {e}
    BY <1>4, <2>1, <2>3
  <2> QED
    BY <2>2, <2>4, <2>6, <2>7, <2>8 DEF Inserts, s
<1>7. ASSUME e.ts < v.ts, Inserts(u, q, e)
      PROVE  Inserts(Node(p, v, u), b, e)
  <2> DEFINE s == Node(p, v, u)
  <2>1. Size(u) = Size(q) + 1 /\ Values(u) = Values(q) \cup {e} /\ Ordered(u)
    BY <1>7 DEF Inserts
  <2>2. s \in Trees /\ Size(s) = 1 + Size(p) + Size(u) /\ s.left = p /\ s.right = u
    BY <1>1, NodeIsTree, NodeProperties
  <2>3. Values(s) = {v} \cup Values(p) \cup Values(u)
    BY <1>1, ContentOfNode
  <2>4. Ordered(s)
    <3>1. v.ts > e.ts
      BY <1>5, <1>7
    <3> QED
      BY <1>1, <1>4, <2>1, <3>1, OrderedNode
  <2>5. Nodes(s) = {s} \cup Nodes(p) \cup Nodes(u)
    BY <1>1, NodesOfNode
  <2> HIDE DEF s
  <2>6. ASSUME NEW n \in Path(s, e.ts)
        PROVE  OffByOne(n)
    <3>1. n \in Nodes(s) /\ e.ts \in Keys(n)
      BY DEF Path
    <3>2. CASE n = s
      BY <1>2, <1>3, <2>1, <2>2, <3>2 DEF OffByOne
    <3>3. CASE n \in Nodes(u)
      BY <1>7, <3>1, <3>3 DEF Inserts, Path
    <3>4. n \notin Nodes(p)
      <4>1. ASSUME e.ts \in Keys(p) PROVE FALSE
        <5>1. PICK x \in Values(p) : x.ts = e.ts
          BY <1>1, <4>1, ContentProperties
        <5> QED
          BY <1>4, <1>5, <1>7, <5>1
      <4> QED
        BY <1>1, <3>1, <4>1, KeysOfNodes
    <3> QED
      BY <2>5, <3>1, <3>2, <3>3, <3>4
  <2>7. Size(s) = Size(b) + 1
    BY <1>1, <1>2, <2>1, <2>2
  <2>8. Values(s) = Values(b) \cup {e}
    BY <1>4, <2>1, <2>3
  <2> QED
    BY <2>2, <2>4, <2>6, <2>7, <2>8 DEF Inserts, s
<1> QED
  BY <1>6, <1>7 DEF p, q, v

\* insert() puts the entry where it belongs, and leaves the nodes on the way
\* to it off balance by one element at most.
LEMMA InsertResult ==
    ASSUME NEW e \in Entry
    PROVE  \A t \in Trees : Ordered(t) /\ (\A d \in Values(t) : d.ts # e.ts)
              => Inserts(Insert(t, e.ts, e.value), t, e)
<1> DEFINE rank == [t \in Trees |-> Size(t)]
           Fresh(t) == Ordered(t) /\ \A d \in Values(t) : d.ts # e.ts
           P == {t \in Trees : Fresh(t) => Inserts(Insert(t, e.ts, e.value), t, e)}
<1>1. rank \in [Trees -> Nat]
  BY TreeProperties
<1>2. e.ts \in Nat /\ e.value \in Stored
  BY DEF Entry
<1>3. ASSUME NEW t \in Trees, \A s \in Trees : rank[s] < rank[t] => s \in P
      PROVE  t \in P
  <2> SUFFICES ASSUME Fresh(t)
               PROVE  Inserts(Insert(t, e.ts, e.value), t, e)
    OBVIOUS
  <2>1. CASE t = Nil
    <3>1. Insert(t, e.ts, e.value) = Leaf(e.ts, e.value)
      BY <1>2, <2>1, InsertDef
    <3> QED
      BY <2>1, <3>1, InsertAtLeaf
  <2>2. CASE t # Nil
    <3> DEFINE b == OnTheWayDown(t)
    <3>1. /\ b \in Trees /\ b # Nil /\ b.value \in Entry /\ b.left \in Trees /\ b.right \in Trees
          /\ Size(b.left) < Size(t) /\ Size(b.right) < Size(t)
      BY <2>2, WaysDown
    <3>2. Ordered(b) /\ ~BadBalance(b) /\ Values(b) = Values(t) /\ Size(b) = Size(t)
      BY <3>1, OnTheWayDownResult DEF OfSameEntries
    <3>3. /\ e.ts > Key(b) => Insert(t, e.ts, e.value) = Node(Insert(b.left, e.ts, e.value), b.value, b.right)
          /\ ~(e.ts > Key(b)) => Insert(t, e.ts, e.value) = Node(b.left, b.value, Insert(b.right, e.ts, e.value))
      BY <1>2, <2>2, InsertDef
    <3> HIDE DEF b
    <3>4. /\ Ordered(b.left) /\ Ordered(b.right)
          /\ Values(b) = {b.value} \cup Values(b.left) \cup Values(b.right)
      <4>1. b = Node(b.left, b.value, b.right)
        BY <3>1, TreeProperties
      <4> QED
        BY <3>1, <3>2, <4>1, OrderedNode, ContentOfNode
    <3>5. Fresh(b.left) /\ Fresh(b.right) /\ b.value.ts # e.ts /\ b.value.ts \in Nat
      BY <3>1, <3>2, <3>4 DEF Entry
    <3>6. b.left \in P /\ b.right \in P
      BY <1>3, <3>1
    <3>7. /\ Inserts(Insert(b.left, e.ts, e.value), b.left, e)
          /\ Inserts(Insert(b.right, e.ts, e.value), b.right, e)
      BY <3>5, <3>6
    <3>8. Insert(b.left, e.ts, e.value) \in Trees /\ Insert(b.right, e.ts, e.value) \in Trees
      BY <3>7 DEF Inserts
    <3>9. Key(b) = b.value.ts
      BY DEF Key, TimestampOf
    <3>10. Inserts(Insert(t, e.ts, e.value), b, e)
      <4>1. CASE e.ts > Key(b)
        BY <3>1, <3>2, <3>3, <3>7, <3>8, <3>9, <4>1, InsertAtNode
      <4>2. CASE ~(e.ts > Key(b))
        <5>1. e.ts < b.value.ts
          BY <1>2, <3>5, <3>9, <4>2
        <5> QED
          BY <3>1, <3>2, <3>3, <3>7, <3>8, <4>2, <5>1, InsertAtNode
      <4> QED
        BY <4>1, <4>2
    <3> QED
      BY <3>2, <3>10 DEF Inserts
  <2> QED
    BY <2>1, <2>2
<1>4. Trees \subseteq P
  <2> HIDE DEF rank, P
  <2> QED
    BY <1>1, <1>3, RankInduction
<1> QED
  BY <1>4

-----------------------------------------------------------------------------
(* Ranks                                                                   *)

\* Ranks tell the entries of a tree apart.
LEMMA RanksDiffer ==
    ASSUME NEW t \in Trees, Ordered(t), NEW e \in Values(t)
    PROVE  /\ RankIn(t, e.ts) \in 0..(Size(t) - 1)
           /\ \A d \in Values(t) : RankIn(t, d.ts) = RankIn(t, e.ts) => d = e
<1> DEFINE V == Values(t)
           After(x) == {y \in V : y.ts > x.ts}
<1>1. IsFiniteSet(V) /\ Cardinality(V) = Size(t)
  BY SizeCounts
<1>2. V \subseteq Entry /\ \A x \in V : x.ts \in Nat
  BY ContentProperties DEF Entry
<1>3. \A x \in V : RankIn(t, x.ts) = Cardinality(After(x))
  BY DEF RankIn
<1> HIDE DEF V
<1>4. \A x \in V : IsFiniteSet(After(x)) /\ Cardinality(After(x)) \in Nat
  BY <1>1, FS_Subset, FS_CardinalityType
<1>5. ASSUME NEW x \in V, NEW y \in V, x.ts > y.ts
      PROVE  Cardinality(After(x)) # Cardinality(After(y))
  <2>1. After(x) \in SUBSET After(y)
    BY <1>2, <1>5
  <2>2. x \in After(y) /\ x \notin After(x)
    BY <1>2, <1>5
  <2> HIDE DEF After
  <2> QED
    BY <1>4, <2>1, <2>2, FS_Subset
<1>6. ASSUME NEW d \in V, Cardinality(After(d)) = Cardinality(After(e))
      PROVE  d = e
  <2>1. ~(d.ts > e.ts) /\ ~(e.ts > d.ts)
    BY <1>5, <1>6 DEF V
  <2>2. d.ts = e.ts
    BY <1>2, <2>1 DEF V
  <2> QED
    BY <2>2, KeysDiffer DEF V
<1>7. Cardinality(After(e)) < Size(t)
  <2>1. After(e) \in SUBSET V /\ e \in V /\ e \notin After(e)
    BY <1>2 DEF V
  <2> HIDE DEF After
  <2>2. Cardinality(After(e)) <= Cardinality(V) /\ Cardinality(V) # Cardinality(After(e))
    BY <1>1, <2>1, FS_Subset
  <2> QED
    BY <1>1, <1>4, <2>1, <2>2, TreeProperties
<1>8. RankIn(t, e.ts) \in Nat /\ Size(t) \in Nat /\ RankIn(t, e.ts) = Cardinality(After(e))
  BY <1>3, <1>4, TreeProperties DEF V
<1>9. RankIn(t, e.ts) \in 0..(Size(t) - 1)
  <2> HIDE DEF After
  <2> QED
    BY <1>7, <1>8
<1>10. \A d \in V : RankIn(t, d.ts) = RankIn(t, e.ts) => d = e
  <2> HIDE DEF After
  <2> QED
    BY <1>3, <1>6, <1>8
<1> QED
  BY <1>9, <1>10 DEF V

-----------------------------------------------------------------------------
(* What is left                                                            *)

\* A tree from which the entry with a number of later ones was taken, not deeper.
Removes(removal, t, r) ==
    /\ removal.removed \in Values(t)
    /\ RankIn(t, removal.removed.ts) = r
    /\ removal.tree \in Trees
    /\ Size(removal.tree) = Size(t) - 1
    /\ Ordered(removal.tree)
    /\ Values(removal.tree) = Values(t) \ {removal.removed}
    /\ Depth(removal.tree) <= Depth(t)

LEMMA DepthOfNode ==
    ASSUME NEW left \in Trees, NEW right \in Trees, NEW e \in Entry
    PROVE  /\ Depth(left) \in Nat /\ Depth(right) \in Nat
           /\ Depth(Node(left, e, right)) = DepthStep(Depth(left), Depth(right))
<1> DEFINE t == Node(left, e, right)
<1>1. t \in Trees /\ t # Nil /\ t.left = left /\ t.right = right
  BY NodeIsTree, NodeProperties
<1> HIDE DEF t
<1>2. Depth(t) = DepthStep(Depth(left), Depth(right))
  BY <1>1, DepthDef
<1> QED
  BY <1>2, DepthDef DEF t

\* Removal from the left.
LEMMA RemovesOnLeft ==
    ASSUME NEW left \in Trees, NEW right \in Trees, NEW v \in Entry,
           Ordered(Node(left, v, right)), NEW x, NEW s, NEW r \in Nat,
           Removes(Removed(x, s), left, r)
    PROVE  Removes(Removed(x, Node(s, v, right)), Node(left, v, right), r)
<1> DEFINE t == Node(left, v, right)
           w == Node(s, v, right)
<1>1. /\ x \in Values(left) /\ RankIn(left, x.ts) = r /\ s \in Trees /\ Size(s) = Size(left) - 1
      /\ Ordered(s) /\ Values(s) = Values(left) \ {x} /\ Depth(s) <= Depth(left)
  BY DEF Removes, Removed
<1>2. /\ Ordered(left) /\ Ordered(right)
      /\ \A e \in Values(left) : e.ts > v.ts
      /\ \A e \in Values(right) : v.ts > e.ts
  BY OrderedNode
<1>3. /\ x.ts \in Nat /\ v.ts \in Nat
      /\ Size(left) \in Nat /\ Size(right) \in Nat
  <2>1. x \in Entry
    BY <1>1, ContentProperties
  <2> QED
    BY <2>1, TreeProperties DEF Entry
<1>4. /\ Values(t) = {v} \cup Values(left) \cup Values(right)
      /\ Values(w) = {v} \cup Values(s) \cup Values(right)
  BY <1>1, ContentOfNode
<1>5. x # v /\ x \notin Values(right)
  BY <1>1, <1>2, <1>3
<1>6. RankIn(t, x.ts) = r
  <2>1. ~(v.ts > x.ts)
    BY <1>1, <1>2, <1>3
  <2> QED
    BY <1>1, <1>3, <2>1, RankInNode
<1>7. w \in Trees /\ Ordered(w)
  BY <1>1, <1>2, NodeIsTree, OrderedNode
<1>8. Size(w) = Size(t) - 1
  <2>1. Size(w) = 1 + Size(s) + Size(right) /\ Size(t) = 1 + Size(left) + Size(right)
    BY NodeProperties
  <2> HIDE DEF w, t
  <2> QED
    BY <1>1, <1>3, <2>1
<1>9. Depth(w) <= Depth(t)
  <2>1. /\ Depth(s) \in Nat /\ Depth(left) \in Nat /\ Depth(right) \in Nat
        /\ Depth(w) = DepthStep(Depth(s), Depth(right))
        /\ Depth(t) = DepthStep(Depth(left), Depth(right))
    BY <1>1, DepthOfNode
  <2> HIDE DEF w, t
  <2> QED
    BY <1>1, <2>1 DEF DepthStep
<1>10. Values(w) = Values(t) \ {x}
  BY <1>1, <1>4, <1>5
<1>11. x \in Values(t)
  BY <1>1, <1>4
<1> HIDE DEF w, t
<1>12. Removes(Removed(x, w), t, r)
  BY <1>6, <1>7, <1>8, <1>9, <1>10, <1>11 DEF Removes, Removed
<1> QED
  BY <1>12 DEF w, t

\* Removal from the right.
LEMMA RemovesOnRight ==
    ASSUME NEW left \in Trees, NEW right \in Trees, NEW v \in Entry,
           Ordered(Node(left, v, right)), NEW x, NEW s, NEW r \in Nat,
           Removes(Removed(x, s), right, r)
    PROVE  Removes(Removed(x, Node(left, v, s)), Node(left, v, right), 1 + Size(left) + r)
<1> DEFINE t == Node(left, v, right)
           w == Node(left, v, s)
<1>1. /\ x \in Values(right) /\ RankIn(right, x.ts) = r /\ s \in Trees /\ Size(s) = Size(right) - 1
      /\ Ordered(s) /\ Values(s) = Values(right) \ {x} /\ Depth(s) <= Depth(right)
  BY DEF Removes, Removed
<1>2. /\ Ordered(left) /\ Ordered(right)
      /\ \A e \in Values(left) : e.ts > v.ts
      /\ \A e \in Values(right) : v.ts > e.ts
  BY OrderedNode
<1>3. /\ x.ts \in Nat /\ v.ts \in Nat
      /\ Size(left) \in Nat /\ Size(right) \in Nat
  <2>1. x \in Entry
    BY <1>1, ContentProperties
  <2> QED
    BY <2>1, TreeProperties DEF Entry
<1>4. /\ Values(t) = {v} \cup Values(left) \cup Values(right)
      /\ Values(w) = {v} \cup Values(left) \cup Values(s)
  BY <1>1, ContentOfNode
<1>5. x # v /\ x \notin Values(left)
  BY <1>1, <1>2, <1>3
<1>6. RankIn(t, x.ts) = 1 + Size(left) + r
  <2>1. v.ts > x.ts
    BY <1>1, <1>2
  <2> QED
    BY <1>1, <1>3, <2>1, RankInNode
<1>7. w \in Trees /\ Ordered(w)
  BY <1>1, <1>2, NodeIsTree, OrderedNode
<1>8. Size(w) = Size(t) - 1
  <2>1. Size(w) = 1 + Size(left) + Size(s) /\ Size(t) = 1 + Size(left) + Size(right)
    BY NodeProperties
  <2> HIDE DEF w, t
  <2> QED
    BY <1>1, <1>3, <2>1
<1>9. Depth(w) <= Depth(t)
  <2>1. /\ Depth(s) \in Nat /\ Depth(left) \in Nat /\ Depth(right) \in Nat
        /\ Depth(w) = DepthStep(Depth(left), Depth(s))
        /\ Depth(t) = DepthStep(Depth(left), Depth(right))
    BY <1>1, DepthOfNode
  <2> HIDE DEF w, t
  <2> QED
    BY <1>1, <2>1 DEF DepthStep
<1>10. Values(w) = Values(t) \ {x}
  BY <1>1, <1>4, <1>5
<1>11. x \in Values(t)
  BY <1>1, <1>4
<1> HIDE DEF w, t
<1>12. Removes(Removed(x, w), t, 1 + Size(left) + r)
  BY <1>6, <1>7, <1>8, <1>9, <1>10, <1>11 DEF Removes, Removed
<1> QED
  BY <1>12 DEF w, t

\* Removal of the root: the first entry on the right takes its place.
LEMMA RemovesRoot ==
    ASSUME NEW left \in Trees, NEW right \in Trees, NEW v \in Entry,
           Ordered(Node(left, v, right))
    PROVE  /\ left = Nil => Removes(Removed(v, right), Node(left, v, right), Size(left))
           /\ right = Nil => Removes(Removed(v, left), Node(left, v, right), Size(left))
           /\ \A x, s : Removes(Removed(x, s), right, 0) =>
                 Removes(Removed(v, Node(left, x, s)), Node(left, v, right), Size(left))
<1> DEFINE t == Node(left, v, right)
<1>1. /\ Ordered(left) /\ Ordered(right)
      /\ \A e \in Values(left) : e.ts > v.ts
      /\ \A e \in Values(right) : v.ts > e.ts
  BY OrderedNode
<1>2. v.ts \in Nat /\ Size(left) \in Nat /\ Size(right) \in Nat
  BY TreeProperties DEF Entry
<1>3. /\ Values(t) = {v} \cup Values(left) \cup Values(right)
      /\ v \notin Values(left) /\ v \notin Values(right)
  BY <1>1, <1>2, ContentOfNode
<1>4. RankIn(t, v.ts) = Size(left)
  BY <1>2, RankInNode
<1>5. Size(t) = 1 + Size(left) + Size(right)
  BY NodeProperties
<1>6. /\ Depth(left) \in Nat /\ Depth(right) \in Nat
      /\ Depth(t) = DepthStep(Depth(left), Depth(right))
  BY DepthOfNode
<1> HIDE DEF t
<1>7. Depth(left) <= Depth(t) /\ Depth(right) <= Depth(t)
  BY <1>6 DEF DepthStep
<1>8. ASSUME left = Nil PROVE Removes(Removed(v, right), t, Size(left))
  <2>1. Size(right) = Size(t) - 1 /\ Values(right) = Values(t) \ {v} /\ v \in Values(t)
    BY <1>2, <1>3, <1>5, <1>8, NilProperties, ContentOfNil
  <2> QED
    BY <1>1, <1>4, <1>7, <2>1 DEF Removes, Removed
<1>9. ASSUME right = Nil PROVE Removes(Removed(v, left), t, Size(left))
  <2>1. Size(left) = Size(t) - 1 /\ Values(left) = Values(t) \ {v} /\ v \in Values(t)
    BY <1>2, <1>3, <1>5, <1>9, NilProperties, ContentOfNil
  <2> QED
    BY <1>1, <1>4, <1>7, <2>1 DEF Removes, Removed
<1>10. ASSUME NEW x, NEW s, Removes(Removed(x, s), right, 0)
       PROVE  Removes(Removed(v, Node(left, x, s)), t, Size(left))
  <2> DEFINE w == Node(left, x, s)
  <2>1. /\ x \in Values(right) /\ RankIn(right, x.ts) = 0 /\ s \in Trees /\ Size(s) = Size(right) - 1
        /\ Ordered(s) /\ Values(s) = Values(right) \ {x} /\ Depth(s) <= Depth(right)
    BY <1>10 DEF Removes, Removed
  <2>2. Values(right) \subseteq Entry /\ \A y \in Values(right) : y.ts \in Nat
    BY ContentProperties DEF Entry
  <2>3. \A y \in Values(s) : x.ts > y.ts
    <3> DEFINE later == {y \in Values(right) : y.ts > x.ts}
    <3>1. later = {}
      <4>1. IsFiniteSet(later) /\ Cardinality(later) = 0
        BY <1>1, <2>1, SizeCounts, FS_Subset DEF RankIn
      <4> HIDE DEF later
      <4> QED
        BY <4>1, FS_EmptySet
    <3>2. \A y \in Values(right) : y.ts = x.ts => y = x
      BY <1>1, <2>1, KeysDiffer
    <3> QED
      BY <2>1, <2>2, <3>1, <3>2
  <2>4. \A y \in Values(left) : y.ts > x.ts
    <3>1. \A y \in Values(left) : y.ts \in Nat
      BY ContentProperties DEF Entry
    <3> QED
      BY <1>1, <1>2, <2>1, <2>2, <3>1
  <2>5. w \in Trees /\ Ordered(w)
    BY <1>1, <2>1, <2>2, <2>3, <2>4, NodeIsTree, OrderedNode
  <2>6. Values(w) = {x} \cup Values(left) \cup Values(s)
    BY <2>1, <2>2, ContentOfNode
  <2>7. Size(w) = 1 + Size(left) + Size(s)
    BY NodeProperties
  <2>8. Depth(s) \in Nat /\ Depth(w) = DepthStep(Depth(left), Depth(s))
    BY <2>1, <2>2, DepthOfNode
  <2> HIDE DEF w
  <2>9. Depth(w) <= Depth(t)
    BY <1>6, <2>1, <2>8 DEF DepthStep
  <2>10. Size(w) = Size(t) - 1
    BY <1>2, <1>5, <2>1, <2>7
  <2>11. Values(w) = Values(t) \ {v} /\ v \in Values(t)
    BY <1>3, <2>1, <2>6
  <2>12. Removes(Removed(v, w), t, Size(left))
    BY <1>4, <2>5, <2>9, <2>10, <2>11 DEF Removes, Removed
  <2> QED
    BY <2>12 DEF w
<1> QED
  BY <1>8, <1>9, <1>10 DEF t

\* remove() takes out the entry with the rank that it is given.
LEMMA RemoveResult ==
    \A t \in Trees : Ordered(t) => \A r \in 0..(Size(t) - 1) : Removes(Remove(t, r), t, r)
<1> DEFINE P == {t \in Trees : Ordered(t) => \A r \in 0..(Size(t) - 1) : Removes(Remove(t, r), t, r)}
<1>1. Nil \in P
  <2>1. 0..(Size(Nil) - 1) = {}
    BY NilProperties
  <2> QED
    BY <2>1, NilProperties
<1>2. ASSUME NEW left \in Trees, NEW right \in Trees, NEW v \in Entry, left \in P, right \in P
      PROVE  Node(left, v, right) \in P
  <2> DEFINE t == Node(left, v, right)
             u == RemoveFrom(left)
             w == RemoveFrom(right)
  <2>1. /\ t \in Trees /\ t # Nil /\ t.left = left /\ t.right = right /\ t.value = v
        /\ Size(t) = 1 + Size(left) + Size(right)
    BY NodeIsTree, NodeProperties
  <2>2. Size(left) \in Nat /\ Size(right) \in Nat /\ (right # Nil => Size(right) > 0)
    BY TreeProperties
  <2>3. ASSUME Ordered(t), NEW r \in 0..(Size(t) - 1)
        PROVE  Removes(Remove(t, r), t, r)
    <3>1. /\ \A q \in 0..(Size(left) - 1) : Remove(left, q) = u[q] /\ u[q] \in Removals
          /\ \A q \in 0..(Size(right) - 1) : Remove(right, q) = w[q] /\ w[q] \in Removals
      BY RemoveDef
    <3>2. \A x \in Removals : x = Removed(x.removed, x.tree)
      BY DEF Removals, Removed
    <3>3. Ordered(left) /\ Ordered(right)
      BY <2>3, OrderedNode
    <3>4. Remove(t, r) = RemovedAt(t, u, w, r)
      <4> HIDE DEF t
      <4>1. Remove(t, r) = RemovedAt(t, RemoveFrom(t.left), RemoveFrom(t.right), r)
        BY <2>1, RemoveDef
      <4> QED
        BY <2>1, <4>1
    <3> HIDE DEF u, w
    <3>5. /\ \A q \in 0..(Size(left) - 1) : Removes(Removed(u[q].removed, u[q].tree), left, q)
          /\ \A q \in 0..(Size(right) - 1) : Removes(Removed(w[q].removed, w[q].tree), right, q)
      <4>1. \A q \in 0..(Size(left) - 1) : Removes(Remove(left, q), left, q)
        BY <1>2, <3>3
      <4>2. \A q \in 0..(Size(right) - 1) : Removes(Remove(right, q), right, q)
        BY <1>2, <3>3
      <4> QED
        BY <3>1, <3>2, <4>1, <4>2
    <3>6. CASE r < Size(left)
      <4>1. r \in 0..(Size(left) - 1) /\ r \in Nat
        BY <2>1, <2>2, <3>6
      <4>2. Remove(t, r) = Removed(u[r].removed, Node(u[r].tree, v, right))
        BY <2>1, <3>4, <3>6 DEF RemovedAt
      <4> QED
        BY <2>3, <3>5, <4>1, <4>2, RemovesOnLeft
    <3>7. CASE r > Size(left)
      <4> DEFINE q == r - Size(left) - 1
      <4>1. q \in 0..(Size(right) - 1) /\ q \in Nat /\ 1 + Size(left) + q = r /\ ~(r < Size(left))
        BY <2>1, <2>2, <3>7
      <4>2. Remove(t, r) = Removed(w[q].removed, Node(left, v, w[q].tree))
        BY <2>1, <3>4, <3>7, <4>1 DEF RemovedAt
      <4> HIDE DEF q
      <4>3. Removes(Removed(w[q].removed, w[q].tree), right, q)
        BY <3>5, <4>1
      <4>4. Removes(Removed(w[q].removed, Node(left, v, w[q].tree)), t, 1 + Size(left) + q)
        BY <2>3, <4>1, <4>3, RemovesOnRight
      <4> QED
        BY <4>1, <4>2, <4>4
    <3>8. CASE r = Size(left)
      <4>1. ~(r < Size(left)) /\ ~(r > Size(left))
        BY <2>2, <3>8
      <4>2. CASE left = Nil
        <5>1. Remove(t, r) = Removed(v, right)
          BY <2>1, <3>4, <4>1, <4>2 DEF RemovedAt
        <5> QED
          BY <2>3, <3>8, <4>2, <5>1, RemovesRoot
      <4>3. CASE left # Nil /\ right = Nil
        <5>1. Remove(t, r) = Removed(v, left)
          BY <2>1, <3>4, <4>1, <4>3 DEF RemovedAt
        <5> QED
          BY <2>3, <3>8, <4>3, <5>1, RemovesRoot
      <4>4. CASE left # Nil /\ right # Nil
        <5>1. Remove(t, r) = Removed(v, Node(left, w[0].removed, w[0].tree))
          BY <2>1, <3>4, <4>1, <4>4 DEF RemovedAt
        <5>2. 0 \in 0..(Size(right) - 1)
          BY <2>2, <4>4
        <5>3. Removes(Removed(w[0].removed, w[0].tree), right, 0)
          BY <3>5, <5>2
        <5> QED
          BY <2>3, <3>8, <5>1, <5>3, RemovesRoot
      <4> QED
        BY <4>2, <4>3, <4>4
    <3> QED
      BY <2>1, <2>2, <3>6, <3>7, <3>8
  <2> QED
    BY <2>1, <2>3
<1>3. Trees \subseteq P
  <2> HIDE DEF P
  <2> QED
    BY <1>1, <1>2, TreeInduction
<1> QED
  BY <1>3

-----------------------------------------------------------------------------
(* What is found                                                           *)

\* find() finds the rank and the value of an entry.
LEMMA FindResult ==
    \A t \in Trees : Ordered(t) =>
       \A e \in Values(t) : Find(t, e.ts) = Found(RankIn(t, e.ts), e.value)
<1> DEFINE P == {t \in Trees : Ordered(t) =>
                    \A e \in Values(t) : Find(t, e.ts) = Found(RankIn(t, e.ts), e.value)}
<1>1. Nil \in P
  BY NilProperties, ContentOfNil
<1>2. ASSUME NEW left \in Trees, NEW right \in Trees, NEW v \in Entry, left \in P, right \in P
      PROVE  Node(left, v, right) \in P
  <2> DEFINE t == Node(left, v, right)
  <2>1. /\ t \in Trees /\ t # Nil /\ t.left = left /\ t.right = right /\ t.value = v
        /\ Key(t) = v.ts
    BY NodeIsTree, NodeProperties
  <2>2. ASSUME Ordered(t), NEW e \in Values(t)
        PROVE  Find(t, e.ts) = Found(RankIn(t, e.ts), e.value)
    <3>1. /\ Ordered(left) /\ Ordered(right)
          /\ \A x \in Values(left) : x.ts > v.ts
          /\ \A x \in Values(right) : v.ts > x.ts
      BY <2>2, OrderedNode
    <3>2. Values(t) = {v} \cup Values(left) \cup Values(right)
      BY ContentOfNode
    <3>3. e \in Entry /\ e.ts \in Nat /\ v.ts \in Nat
      <4>1. e \in Entry
        BY <2>1, <2>2, ContentProperties
      <4> QED
        BY <4>1 DEF Entry
    <3>4. /\ RankIn(left, e.ts) \in Nat /\ RankIn(right, e.ts) \in Nat
          /\ v.ts > e.ts => RankIn(t, e.ts) = 1 + Size(left) + RankIn(right, e.ts)
          /\ ~(v.ts > e.ts) => RankIn(t, e.ts) = RankIn(left, e.ts)
          /\ e.ts = v.ts => RankIn(t, e.ts) = Size(left)
      BY <2>2, <3>3, RankInNode
    <3> HIDE DEF t
    <3>5. t \in OrderedTrees /\ e.ts \in Keys(t)
      BY <2>1, <2>2, ContentProperties DEF OrderedTrees
    <3>6. /\ e.ts = v.ts => Find(t, e.ts) = Found(Size(left), v.value)
          /\ e.ts > v.ts => Find(t, e.ts) = Find(left, e.ts)
          /\ e.ts < v.ts => Find(t, e.ts) = Found(Find(right, e.ts).rank + 1 + Size(left), Find(right, e.ts).value)
      BY <2>1, <3>5, FindDef
    <3>7. CASE e = v
      BY <3>4, <3>6, <3>7
    <3>8. CASE e \in Values(left)
      <4>1. e.ts > v.ts /\ ~(v.ts > e.ts)
        BY <3>1, <3>3, <3>8
      <4>2. Find(left, e.ts) = Found(RankIn(left, e.ts), e.value)
        BY <1>2, <3>1, <3>8
      <4> QED
        BY <3>4, <3>6, <4>1, <4>2
    <3>9. CASE e \in Values(right)
      <4>1. v.ts > e.ts /\ e.ts < v.ts
        BY <3>1, <3>3, <3>9
      <4>2. Find(right, e.ts) = Found(RankIn(right, e.ts), e.value)
        BY <1>2, <3>1, <3>9
      <4>3. Find(right, e.ts).rank = RankIn(right, e.ts) /\ Find(right, e.ts).value = e.value
        BY <4>2 DEF Found
      <4>4. RankIn(right, e.ts) + 1 + Size(left) = 1 + Size(left) + RankIn(right, e.ts)
        BY <3>4, TreeProperties
      <4> QED
        BY <3>4, <3>6, <4>1, <4>3, <4>4
    <3> QED
      BY <2>2, <3>2, <3>7, <3>8, <3>9
  <2> QED
    BY <2>1, <2>2
<1>3. Trees \subseteq P
  <2> HIDE DEF P
  <2> QED
    BY <1>1, <1>2, TreeInduction
<1> QED
  BY <1>3

\* The last entry of a tree.
IsLast(e, t) == e \in Values(t) /\ \A d \in Values(t) : e.ts <= d.ts

\* get_last() finds the entry of the least timestamp.
LEMMA LastValueResult ==
    \A t \in Trees : Ordered(t) /\ t # Nil => \E e : IsLast(e, t) /\ LastValue(t) = e.value
<1> DEFINE Good(t) == \E e : IsLast(e, t) /\ LastValue(t) = e.value
           P == {t \in Trees : Ordered(t) /\ t # Nil => Good(t)}
<1>1. Nil \in P
  BY NilProperties
<1>2. ASSUME NEW left \in Trees, NEW right \in Trees, NEW v \in Entry, left \in P, right \in P
      PROVE  Node(left, v, right) \in P
  <2> DEFINE t == Node(left, v, right)
  <2>1. t \in Trees /\ t # Nil /\ t.left = left /\ t.right = right /\ t.value = v
    BY NodeIsTree, NodeProperties
  <2>2. ASSUME Ordered(t) PROVE Good(t)
    <3>1. /\ Ordered(left) /\ Ordered(right)
          /\ \A x \in Values(left) : x.ts > v.ts
          /\ \A x \in Values(right) : v.ts > x.ts
      BY <2>2, OrderedNode
    <3>2. Values(t) = {v} \cup Values(left) \cup Values(right)
      BY ContentOfNode
    <3>3. \A x \in Values(t) : x.ts \in Nat
      BY <2>1, ContentProperties DEF Entry
    <3> HIDE DEF t
    <3>4. LastValue(t) = IF right = Nil THEN v.value ELSE LastValue(right)
      BY <2>1, LastValueDef
    <3>5. CASE right = Nil
      <4>1. IsLast(v, t)
        BY <3>1, <3>2, <3>3, <3>5, ContentOfNil DEF IsLast
      <4> QED
        BY <3>4, <3>5, <4>1
    <3>6. CASE right # Nil
      <4>1. PICK e : IsLast(e, right) /\ LastValue(right) = e.value
        BY <1>2, <3>1, <3>6
      <4>2. IsLast(e, t)
        <5>1. e \in Values(right) /\ \A d \in Values(right) : e.ts <= d.ts
          BY <4>1 DEF IsLast
        <5>2. v.ts > e.ts /\ e \in Values(t) /\ e.ts \in Nat /\ v.ts \in Nat
          BY <3>1, <3>2, <3>3, <5>1
        <5> QED
          BY <3>1, <3>2, <3>3, <5>1, <5>2 DEF IsLast
      <4> QED
        BY <3>4, <3>6, <4>1, <4>2
    <3> QED
      BY <3>5, <3>6
  <2> HIDE DEF Good
  <2> QED
    BY <2>1, <2>2
<1>3. Trees \subseteq P
  <2> HIDE DEF P
  <2> QED
    BY <1>1, <1>2, TreeInduction
<1> QED
  BY <1>3

-----------------------------------------------------------------------------
(* The tree and the entries                                                *)

\* Type correctness, and the strengthening of TreeHoldsEntries.
HeadInv ==
    /\ head \in Trees
    /\ Ordered(head)
    /\ Values(head) = entries

LEMMA InitHead == Init => HeadInv
BY NilProperties, NilIsOrdered, ContentOfNil DEF Init, HeadInv

\* The new entry is added.
LEMMA HeadInsertStep ==
    ASSUME HeadInv, NEW ts \in Timestamps, NEW value \in Stored, HeadInsert(ts, value)
    PROVE  Inserts(head', head, [ts |-> ts, value |-> value])
<1> DEFINE e == [ts |-> ts, value |-> value]
<1>1. e \in Entry /\ e.ts = ts /\ e.value = value
  BY TimestampsAssumption DEF Entry
<1>2. head \in Trees /\ Ordered(head) /\ \A d \in Values(head) : d.ts # e.ts
  BY DEF HeadInv, HeadInsert
<1>3. head' = Insert(head, e.ts, e.value)
  BY DEF HeadInsert
<1> HIDE DEF e
<1>4. Inserts(head', head, e)
  BY <1>1, <1>2, <1>3, InsertResult
<1> QED
  BY <1>4 DEF e

\* The entry of the rank is taken out.
LEMMA HeadRemoveStep ==
    ASSUME HeadInv, NEW rank \in 0..(Size(head) - 1), HeadRemove(rank)
    PROVE  /\ Removes(Remove(head, rank), head, rank)
           /\ head' = Remove(head, rank).tree
           /\ entries' = entries \ {Remove(head, rank).removed}
<1> DEFINE x == Remove(head, rank).removed
<1>1. Removes(Remove(head, rank), head, rank)
  BY RemoveResult DEF HeadInv
<1>2. x \in Values(head) /\ RankIn(head, x.ts) = rank
  BY <1>1 DEF Removes
<1>3. \A d \in Values(head) : RankIn(head, d.ts) = RankIn(head, x.ts) => d = x
  BY <1>2, RanksDiffer DEF HeadInv
<1>4. \A d \in entries : Cardinality(LaterThan(d)) = RankIn(head, d.ts)
  BY DEF HeadInv, LaterThan, RankIn
<1>5. entries' = {d \in entries : Cardinality(LaterThan(d)) # rank} /\ head' = Remove(head, rank).tree
  BY DEF HeadRemove
<1> HIDE DEF x
<1>6. entries' = entries \ {x}
  BY <1>2, <1>3, <1>4, <1>5 DEF HeadInv
<1> QED
  BY <1>1, <1>5, <1>6 DEF x

LEMMA NextHead == HeadInv /\ [Next]_vars => HeadInv'
<1> SUFFICES ASSUME HeadInv, [Next]_vars PROVE HeadInv'
  OBVIOUS
<1>1. ASSUME NEW ts \in Timestamps, NEW value \in Stored, HeadInsert(ts, value)
      PROVE  HeadInv'
  <2>1. entries' = entries \cup {[ts |-> ts, value |-> value]}
    BY <1>1 DEF HeadInsert
  <2> QED
    BY <1>1, <2>1, HeadInsertStep DEF HeadInv, Inserts
<1>2. ASSUME NEW rank \in 0..(Size(head) - 1), HeadRemove(rank)
      PROVE  HeadInv'
  BY <1>2, HeadRemoveStep DEF HeadInv, Removes
<1>3. CASE UNCHANGED vars
  BY <1>3 DEF vars, HeadInv
<1> QED
  BY <1>1, <1>2, <1>3 DEF Next

LEMMA HeadInvHolds == Spec => []HeadInv
<1> QED
  BY InitHead, NextHead, PTL DEF Spec

LEMMA HeadInvSuffices == HeadInv => TreeHoldsEntries
<1> SUFFICES ASSUME HeadInv PROVE TreeHoldsEntries
  OBVIOUS
<1>1. head \in Trees /\ Ordered(head) /\ Values(head) = entries
  BY DEF HeadInv
<1>2. IsSearchTree(head)
  BY <1>1, OrderedIsSearchTree
<1>3. ASSUME NEW e \in entries
      PROVE  /\ Find(head, e.ts) = Found(Cardinality(LaterThan(e)), e.value)
             /\ Remove(head, Cardinality(LaterThan(e))).removed = e
  <2> DEFINE r == RankIn(head, e.ts)
  <2>1. Cardinality(LaterThan(e)) = r
    BY <1>1 DEF LaterThan, RankIn
  <2>2. Find(head, e.ts) = Found(r, e.value)
    BY <1>1, FindResult
  <2>3. r \in 0..(Size(head) - 1)
    BY <1>1, RanksDiffer
  <2>4. Removes(Remove(head, r), head, r)
    BY <1>1, <2>3, RemoveResult
  <2>5. Remove(head, r).removed = e
    BY <1>1, <2>4, RanksDiffer DEF Removes
  <2> HIDE DEF r
  <2> QED
    BY <2>1, <2>2, <2>5
<1>4. ASSUME entries # {}
      PROVE  \E e \in entries : (\A d \in entries : e.ts <= d.ts) /\ LastValue(head) = e.value
  <2>1. head # Nil
    BY <1>1, <1>4, ContentOfNil
  <2> QED
    BY <1>1, <2>1, LastValueResult DEF IsLast
<1> QED
  BY <1>1, <1>2, <1>3, <1>4 DEF TreeHoldsEntries

\* Whatever is inserted and removed in whatever order: the tree is a search
\* tree with right weights that holds the entries, finds each at the rank from
\* which remove() takes it, and knows the last one (ostree.cc).
THEOREM TreeHoldsEntriesAlways == Spec => []TreeHoldsEntries
<1> QED
  BY HeadInvHolds, HeadInvSuffices, PTL

\* remove() never makes the tree deeper, as its comment says, which is why it
\* does not rebalance.
THEOREM RemoveNeverDeepensAlways == Spec => RemoveNeverDeepens
<1> DEFINE A == Size(head') < Size(head) => Depth(head') <= Depth(head)
<1>1. HeadInv /\ [Next]_vars => [A]_vars
  <2> SUFFICES ASSUME HeadInv, Next PROVE A
    BY Zenon
  <2>1. head \in Trees /\ Size(head) \in Nat
    BY TreeProperties DEF HeadInv
  <2>2. ASSUME NEW ts \in Timestamps, NEW value \in Stored, HeadInsert(ts, value)
        PROVE  A
    BY <2>1, <2>2, HeadInsertStep DEF Inserts
  <2>3. ASSUME NEW rank \in 0..(Size(head) - 1), HeadRemove(rank)
        PROVE  A
    BY <2>3, HeadRemoveStep DEF Removes
  <2> QED
    BY <2>2, <2>3 DEF Next
<1> HIDE DEF A
<1>2. Spec => [][A]_vars
  BY HeadInvHolds, <1>1, PTL DEF Spec
<1> QED
  BY <1>2 DEF A, RemoveNeverDeepens

\* insert() leaves each node on the way to the new entry out of balance by one
\* element at most, as its comment says, though it rebalances on the way down only.
THEOREM InsertOffByOneElementAlways == Spec => InsertOffByOneElement
<1> DEFINE A == \A e \in entries' \ entries : \A n \in Path(head', e.ts) : OffByOne(n)
<1>1. HeadInv /\ [Next]_vars => [A]_vars
  <2> SUFFICES ASSUME HeadInv, Next PROVE A
    BY Zenon
  <2>1. ASSUME NEW ts \in Timestamps, NEW value \in Stored, HeadInsert(ts, value)
        PROVE  A
    <3>1. entries' = entries \cup {[ts |-> ts, value |-> value]}
      BY <2>1 DEF HeadInsert
    <3> QED
      BY <2>1, <3>1, HeadInsertStep DEF Inserts
  <2>2. ASSUME NEW rank \in 0..(Size(head) - 1), HeadRemove(rank)
        PROVE  A
    BY <2>2, HeadRemoveStep
  <2> QED
    BY <2>1, <2>2 DEF Next
<1> HIDE DEF A
<1>2. Spec => [][A]_vars
  BY HeadInvHolds, <1>1, PTL DEF Spec
<1> QED
  BY <1>2 DEF A, InsertOffByOneElement, OffByOne

=============================================================================
