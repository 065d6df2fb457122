------------------------- MODULE TreeSimulatorsProofs -------------------------
(***************************************************************************)
(* Proofs about the tree simulators for every set of addresses, every      *)
(* trace and every largest size: one queue with a histogram of the ranks   *)
(* hit is as good as an LRU cache of each size, and both trees are this    *)
(* queue, so that the simulators agree.                                    *)
(*                                                                         *)
(* The invariant of the queue says that timestamps are different and past, *)
(* so that ranks number the pages, and that page_hits has a place for each *)
(* rank.  That of the simulators says that their trees are in order and    *)
(* hold what their page tables hold: then the rank found in a tree is the  *)
(* number of pages used since.                                             *)
(*                                                                         *)
(* A last part is about the LRU caches themselves.                         *)
(***************************************************************************)
EXTENDS TreeSimulators, PageHits, HitsVectorProofs

\* The proofs about the trees, of which only the lemmas on operators are used: the
\* machine of arbitrary calls that the first of them is also about plays no part.
Ost == INSTANCE OSTreeHeadProofs WITH
    Stored <- Addr, Timestamps <- {}, head <- tree_queue, entries <- {}

Set == INSTANCE RawOrderStatisticSetProofs WITH
    KeyType <- Nat, Value <- Nat, LessThan <- OS_SET!Greater, KeyOf <- OS_SET!Timestamp

-----------------------------------------------------------------------------
(* The trees of the simulators are the trees of the proofs                 *)

\* The copies of a definition that the two modules have are the same: for the
\* tree of OSTCacheSim,
LEMMA TreeHasContents ==
    /\ OS_TREE!Nil = Ost!Nil
    /\ \A n : OS_TREE!Nodes(n) = Ost!Nodes(n)
    /\ \A n : OS_TREE!Values(n) = Ost!Values(n)
    /\ \A n : OS_TREE!IsSearchTree(n) <=> Ost!IsSearchTree(n)
<1>1. /\ OS_TREE!Nil = Ost!Nil
      /\ \A n : OS_TREE!Size(n) = Ost!Size(n) /\ OS_TREE!Key(n) = Ost!Key(n)
  BY DEF OS_TREE!Nil, Ost!Nil, OS_TREE!Size, Ost!Size, OS_TREE!Key, Ost!Key, OS_TREE!TimestampOf, Ost!TimestampOf
<1>2. \A n : OS_TREE!Nodes(n) = Ost!Nodes(n)
  BY DEF OS_TREE!Nodes, Ost!Nodes, OS_TREE!Nil, Ost!Nil, OS_TREE!Size, Ost!Size,
         OS_TREE!Tree, Ost!Tree, OS_TREE!Below, Ost!Below, OS_TREE!Entry, Ost!Entry
<1>3. \A n : OS_TREE!Values(n) = Ost!Values(n) /\ OS_TREE!Keys(n) = Ost!Keys(n)
  BY <1>1, <1>2 DEF OS_TREE!Values, Ost!Values, OS_TREE!Keys, Ost!Keys
<1>4. \A S : OS_TREE!Cardinality(S) = Ost!Cardinality(S)
  BY DEF OS_TREE!Cardinality, Ost!Cardinality
<1>5. \A n : OS_TREE!IsSearchTree(n) <=> Ost!IsSearchTree(n)
  BY <1>1, <1>2, <1>3, <1>4, Zenon DEF OS_TREE!IsSearchTree, Ost!IsSearchTree, OS_TREE!Later, Ost!Later
<1> QED
  BY <1>1, <1>2, <1>3, <1>5

LEMMA TreeHasOperations ==
    /\ \A t, ts : OS_TREE!Find(t, ts) = Ost!Find(t, ts)
    /\ \A t, r : OS_TREE!Remove(t, r) = Ost!Remove(t, r)
    /\ \A t, ts, value : OS_TREE!Insert(t, ts, value) = Ost!Insert(t, ts, value)
<1>1. \A t, ts : OS_TREE!Find(t, ts) = Ost!Find(t, ts)
  BY DEF OS_TREE!Find, Ost!Find, OS_TREE!Found, Ost!Found, OS_TREE!Nodes, Ost!Nodes, OS_TREE!Keys, Ost!Keys,
         OS_TREE!Key, Ost!Key, OS_TREE!TimestampOf, Ost!TimestampOf,
         OS_TREE!Nil, Ost!Nil, OS_TREE!Size, Ost!Size,
         OS_TREE!Tree, Ost!Tree, OS_TREE!Below, Ost!Below, OS_TREE!Entry, Ost!Entry
<1>2. \A t, r : OS_TREE!Remove(t, r) = Ost!Remove(t, r)
  BY DEF OS_TREE!Remove, Ost!Remove, OS_TREE!Removed, Ost!Removed, OS_TREE!NewRoot, Ost!NewRoot,
         OS_TREE!Nil, Ost!Nil, OS_TREE!Size, Ost!Size,
         OS_TREE!Tree, Ost!Tree, OS_TREE!Below, Ost!Below, OS_TREE!Entry, Ost!Entry
<1>3. \A t, ts, value : OS_TREE!Insert(t, ts, value) = Ost!Insert(t, ts, value)
  BY DEF OS_TREE!Insert, Ost!Insert, OS_TREE!Leaf, Ost!Leaf, OS_TREE!OnTheWayDown, Ost!OnTheWayDown,
         OS_TREE!BadBalance, Ost!BadBalance, OS_TREE!Rebalance, Ost!Rebalance,
         OS_TREE!FromArray, Ost!FromArray, OS_TREE!ToArray, Ost!ToArray,
         OS_TREE!Key, Ost!Key, OS_TREE!TimestampOf, Ost!TimestampOf, OS_TREE!Node, Ost!Node,
         OS_TREE!Nil, Ost!Nil, OS_TREE!Size, Ost!Size,
         OS_TREE!Tree, Ost!Tree, OS_TREE!Below, Ost!Below, OS_TREE!Entry, Ost!Entry
<1> QED
  BY <1>1, <1>2, <1>3

\* and for the set of ContainerCacheSim: cardinality,
LEMMA SetHasCardinality == \A S : OS_SET!Cardinality(S) = Set!Cardinality(S)
BY DEF OS_SET!Cardinality, Set!Cardinality

\* trees and nodes,
LEMMA SetHasTrees ==
    /\ OS_SET!Nil = Set!Nil
    /\ \A n : OS_SET!Size(n) = Set!Size(n) /\ OS_SET!Key(n) = Set!Key(n)
    /\ OS_SET!Tree = Set!Tree
    /\ \A n : OS_SET!Below(n) = Set!Below(n)
    /\ \A l, v, r : OS_SET!Node(l, v, r) = Set!Node(l, v, r)
BY DEF OS_SET!Nil, Set!Nil, OS_SET!Size, Set!Size, OS_SET!Key, Set!Key,
       OS_SET!Tree, Set!Tree, OS_SET!Below, Set!Below, OS_SET!Node, Set!Node

\* the balance and the rotations,
LEMMA SetHasBalance ==
    /\ \A n : OS_SET!IsInBalance(n) <=> Set!IsInBalance(n)
    /\ \A n : OS_SET!MaybeRebalance(n) = Set!MaybeRebalance(n)
<1> USE SetHasTrees
<1>1. /\ \A n : OS_SET!IsInBalance(n) <=> Set!IsInBalance(n)
      /\ \A a, b : OS_SET!SingleIsEnough(a, b) <=> Set!SingleIsEnough(a, b)
      /\ \A n : OS_SET!RotateLeft(n) = Set!RotateLeft(n) /\ OS_SET!RotateRight(n) = Set!RotateRight(n)
  BY DEF OS_SET!IsInBalance, Set!IsInBalance, OS_SET!SingleIsEnough, Set!SingleIsEnough,
         OS_SET!kRebalanceFactor, Set!kRebalanceFactor,
         OS_SET!RotateLeft, Set!RotateLeft, OS_SET!RotateRight, Set!RotateRight
<1>2. \A n : OS_SET!RotateRightLeft(n) = Set!RotateRightLeft(n) /\ OS_SET!RotateLeftRight(n) = Set!RotateLeftRight(n)
  BY <1>1 DEF OS_SET!RotateRightLeft, Set!RotateRightLeft, OS_SET!RotateLeftRight, Set!RotateLeftRight
<1>3. \A n : OS_SET!MaybeRebalance(n) = Set!MaybeRebalance(n)
  BY <1>1, <1>2 DEF OS_SET!MaybeRebalance, Set!MaybeRebalance
<1> QED
  BY <1>1, <1>3

\* the queries,
LEMMA SetHasQueries ==
    /\ \A n, k : OS_SET!Find(n, k) = Set!Find(n, k)
    /\ \A i, n : OS_SET!Position(i, n) = Set!Position(i, n)
    /\ \A n : OS_SET!LeftMost(n) = Set!LeftMost(n)
BY DEF OS_SET!Find, Set!Find, OS_SET!LeftMost, Set!LeftMost,
       OS_SET!Position, Set!Position, OS_SET!PastLeft, Set!PastLeft,
       OS_SET!Nil, Set!Nil, OS_SET!Size, Set!Size, OS_SET!Key, Set!Key,
       OS_SET!Tree, Set!Tree, OS_SET!Below, Set!Below

\* the content of a tree,
LEMMA SetHasContents ==
    /\ \A n : OS_SET!Nodes(n) = Set!Nodes(n)
    /\ \A n : OS_SET!Values(n) = Set!Values(n)
    /\ \A n : OS_SET!Keys(n) = Set!Keys(n)
    /\ \A n : OS_SET!IsSearchTree(n) <=> Set!IsSearchTree(n)
<1>1. \A n : OS_SET!Nodes(n) = Set!Nodes(n)
  BY DEF OS_SET!Nodes, Set!Nodes, OS_SET!Nil, Set!Nil, OS_SET!Size, Set!Size,
         OS_SET!Tree, Set!Tree, OS_SET!Below, Set!Below
<1>2. \A n : OS_SET!Values(n) = Set!Values(n) /\ OS_SET!Keys(n) = Set!Keys(n)
  BY <1>1, SetHasTrees DEF OS_SET!Values, Set!Values, OS_SET!Keys, Set!Keys
<1>3. \A n : OS_SET!IsSearchTree(n) <=> Set!IsSearchTree(n)
  BY <1>1, <1>2, SetHasTrees, SetHasCardinality, Zenon DEF OS_SET!IsSearchTree, Set!IsSearchTree
<1> QED
  BY <1>1, <1>2, <1>3

\* The steps with which Insert, UnlinkRightMost and Erase recurse, in both copies.
SimInsertStep(insert, m, v, assign, rank) ==
    IF m = OS_SET!Nil THEN OS_SET!Inserted(OS_SET!Node(OS_SET!Nil, v, OS_SET!Nil), rank, TRUE)
    ELSE IF OS_SET!Greater(OS_SET!Key(m), OS_SET!Timestamp(v))
    THEN LET sub == insert[m.right][rank + OS_SET!Size(m.left) + 1]
         IN [sub EXCEPT !.root = OS_SET!MaybeRebalance(OS_SET!Node(m.left, m.value, @))]
    ELSE IF OS_SET!Greater(OS_SET!Timestamp(v), OS_SET!Key(m))
    THEN LET sub == insert[m.left][rank]
         IN [sub EXCEPT !.root = OS_SET!MaybeRebalance(OS_SET!Node(@, m.value, m.right))]
    ELSE OS_SET!Inserted(OS_SET!MaybeRebalance(IF assign THEN OS_SET!Node(m.left, v, m.right) ELSE m), rank, FALSE)

InsertStep(insert, m, v, assign, rank) ==
    IF m = Set!Nil THEN Set!Inserted(Set!Node(Set!Nil, v, Set!Nil), rank, TRUE)
    ELSE IF OS_SET!Greater(Set!Key(m), OS_SET!Timestamp(v))
    THEN LET sub == insert[m.right][rank + Set!Size(m.left) + 1]
         IN [sub EXCEPT !.root = Set!MaybeRebalance(Set!Node(m.left, m.value, @))]
    ELSE IF OS_SET!Greater(OS_SET!Timestamp(v), Set!Key(m))
    THEN LET sub == insert[m.left][rank]
         IN [sub EXCEPT !.root = Set!MaybeRebalance(Set!Node(@, m.value, m.right))]
    ELSE Set!Inserted(Set!MaybeRebalance(IF assign THEN Set!Node(m.left, v, m.right) ELSE m), rank, FALSE)

\* Insert(),
LEMMA SetHasInsert == \A n, v, r, a : OS_SET!Insert(n, v, r, a) = Set!Insert(n, v, r, a)
<1> SUFFICES ASSUME NEW n, NEW v, NEW r, NEW a
             PROVE  OS_SET!Insert(n, v, r, a) = Set!Insert(n, v, r, a)
  OBVIOUS
<1> DEFINE Body(f) == [m \in OS_SET!Below(n) |-> [rank \in Nat |-> SimInsertStep(f, m, v, a, rank)]]
           RawBody(f) == [m \in Set!Below(n) |-> [rank \in Nat |-> InsertStep(f, m, v, a, rank)]]
<1>1. OS_SET!Insert(n, v, r, a) = (CHOOSE f : f = Body(f))[n][r]
  BY DEF OS_SET!Insert, SimInsertStep
<1>2. Set!Insert(n, v, r, a) = (CHOOSE f : f = RawBody(f))[n][r]
  BY DEF Set!Insert, InsertStep
<1>3. \A f, m, rank : SimInsertStep(f, m, v, a, rank) = InsertStep(f, m, v, a, rank)
  <2> SUFFICES ASSUME NEW f, NEW m, NEW rank
               PROVE  SimInsertStep(f, m, v, a, rank) = InsertStep(f, m, v, a, rank)
    OBVIOUS
  <2>1. \A l, w, t : OS_SET!MaybeRebalance(OS_SET!Node(l, w, t)) = Set!MaybeRebalance(Set!Node(l, w, t))
    BY SetHasTrees, SetHasBalance
  <2>2. /\ m = OS_SET!Nil <=> m = Set!Nil
        /\ OS_SET!Key(m) = Set!Key(m) /\ OS_SET!Size(m.left) = Set!Size(m.left)
        /\ OS_SET!Inserted(OS_SET!Node(OS_SET!Nil, v, OS_SET!Nil), rank, TRUE) = Set!Inserted(Set!Node(Set!Nil, v, Set!Nil), rank, TRUE)
    BY SetHasTrees DEF OS_SET!Inserted, Set!Inserted
  <2>3. \A sub : [sub EXCEPT !.root = OS_SET!MaybeRebalance(OS_SET!Node(m.left, m.value, @))] =
                 [sub EXCEPT !.root = Set!MaybeRebalance(Set!Node(m.left, m.value, @))]
    BY <2>1, Zenon
  <2>4. \A sub : [sub EXCEPT !.root = OS_SET!MaybeRebalance(OS_SET!Node(@, m.value, m.right))] =
                 [sub EXCEPT !.root = Set!MaybeRebalance(Set!Node(@, m.value, m.right))]
    BY <2>1, Zenon
  <2>5. OS_SET!Inserted(OS_SET!MaybeRebalance(IF a THEN OS_SET!Node(m.left, v, m.right) ELSE m), rank, FALSE) =
        Set!Inserted(Set!MaybeRebalance(IF a THEN Set!Node(m.left, v, m.right) ELSE m), rank, FALSE)
    BY SetHasTrees, SetHasBalance DEF OS_SET!Inserted, Set!Inserted
  <2> QED
    BY <2>2, <2>3, <2>4, <2>5, Zenon DEF SimInsertStep, InsertStep
<1>4. \A f : Body(f) = RawBody(f)
  BY <1>3, SetHasTrees
<1> HIDE DEF Body, RawBody
<1>5. (CHOOSE f : f = Body(f)) = (CHOOSE f : f = RawBody(f))
  BY <1>4
<1> QED
  BY <1>1, <1>2, <1>5
SimUnlinkStep(unlink, m) ==
    IF m.right = OS_SET!Nil THEN [root |-> m.left, removed |-> m.value]
    ELSE [unlink[m.right] EXCEPT !.root = OS_SET!MaybeRebalance(OS_SET!Node(m.left, m.value, @))]

UnlinkStep(unlink, m) ==
    IF m.right = Set!Nil THEN [root |-> m.left, removed |-> m.value]
    ELSE [unlink[m.right] EXCEPT !.root = Set!MaybeRebalance(Set!Node(m.left, m.value, @))]

\* UnlinkRightMost(),
LEMMA SetHasUnlinkRightMost == \A n : OS_SET!UnlinkRightMost(n) = Set!UnlinkRightMost(n)
<1> SUFFICES ASSUME NEW n PROVE OS_SET!UnlinkRightMost(n) = Set!UnlinkRightMost(n)
  OBVIOUS
<1> DEFINE Body(f) == [m \in OS_SET!Below(n) \ {OS_SET!Nil} |-> SimUnlinkStep(f, m)]
           RawBody(f) == [m \in Set!Below(n) \ {Set!Nil} |-> UnlinkStep(f, m)]
<1>1. OS_SET!UnlinkRightMost(n) = (CHOOSE f : f = Body(f))[n]
  BY DEF OS_SET!UnlinkRightMost, SimUnlinkStep
<1>2. Set!UnlinkRightMost(n) = (CHOOSE f : f = RawBody(f))[n]
  BY DEF Set!UnlinkRightMost, UnlinkStep
<1>3. \A f, m : SimUnlinkStep(f, m) = UnlinkStep(f, m)
  <2> SUFFICES ASSUME NEW f, NEW m PROVE SimUnlinkStep(f, m) = UnlinkStep(f, m)
    OBVIOUS
  <2>1. \A l, w, t : OS_SET!MaybeRebalance(OS_SET!Node(l, w, t)) = Set!MaybeRebalance(Set!Node(l, w, t))
    BY SetHasTrees, SetHasBalance
  <2>2. \A sub : [sub EXCEPT !.root = OS_SET!MaybeRebalance(OS_SET!Node(m.left, m.value, @))] =
                 [sub EXCEPT !.root = Set!MaybeRebalance(Set!Node(m.left, m.value, @))]
    BY <2>1, Zenon
  <2>3. m.right = OS_SET!Nil <=> m.right = Set!Nil
    BY SetHasTrees
  <2> QED
    BY <2>2, <2>3, Zenon DEF SimUnlinkStep, UnlinkStep
<1>4. \A f : Body(f) = RawBody(f)
  <2>1. OS_SET!Below(n) \ {OS_SET!Nil} = Set!Below(n) \ {Set!Nil}
    BY SetHasTrees
  <2> QED
    BY <1>3, <2>1
<1> HIDE DEF Body, RawBody
<1>5. (CHOOSE f : f = Body(f)) = (CHOOSE f : f = RawBody(f))
  BY <1>4
<1> QED
  BY <1>1, <1>2, <1>5

\* the deletion of a node,
LEMMA SetHasAtNode == \A m, r, x : OS_SET!AtNode(m, r, x) = Set!AtNode(m, r, x)
<1>1. \A n : OS_SET!LeftMost(n) = Set!LeftMost(n)
  BY SetHasQueries
<1>2. \A n : OS_SET!DeleteNode(n) = Set!DeleteNode(n)
  BY SetHasTrees, SetHasBalance, SetHasUnlinkRightMost DEF OS_SET!DeleteNode, Set!DeleteNode
<1> QED
  BY <1>1, <1>2, SetHasTrees DEF OS_SET!AtNode, Set!AtNode, OS_SET!Erased, Set!Erased

SimEraseStep(erase, m, k, rank, next) ==
    IF m = OS_SET!Nil THEN OS_SET!Erased(OS_SET!Nil, rank, OS_SET!Nil, OS_SET!Nil)
    ELSE IF OS_SET!Greater(OS_SET!Key(m), k)
    THEN [erase[m.right][rank + 1 + OS_SET!Size(m.left)][next]
             EXCEPT !.root = OS_SET!MaybeRebalance(OS_SET!Node(m.left, m.value, @))]
    ELSE IF OS_SET!Greater(k, OS_SET!Key(m))
    THEN [erase[m.left][rank][<<OS_SET!Key(m)>>]
             EXCEPT !.root = OS_SET!MaybeRebalance(OS_SET!Node(@, m.value, m.right))]
    ELSE OS_SET!AtNode(m, rank, next)

EraseStep(erase, m, k, rank, next) ==
    IF m = Set!Nil THEN Set!Erased(Set!Nil, rank, Set!Nil, Set!Nil)
    ELSE IF OS_SET!Greater(Set!Key(m), k)
    THEN [erase[m.right][rank + 1 + Set!Size(m.left)][next]
             EXCEPT !.root = Set!MaybeRebalance(Set!Node(m.left, m.value, @))]
    ELSE IF OS_SET!Greater(k, Set!Key(m))
    THEN [erase[m.left][rank][<<Set!Key(m)>>]
             EXCEPT !.root = Set!MaybeRebalance(Set!Node(@, m.value, m.right))]
    ELSE Set!AtNode(m, rank, next)

\* and Erase().
LEMMA SetHasErase == \A n, k, r, x : OS_SET!Erase(n, k, r, x) = Set!Erase(n, k, r, x)
<1> SUFFICES ASSUME NEW n, NEW k, NEW r, NEW x
             PROVE  OS_SET!Erase(n, k, r, x) = Set!Erase(n, k, r, x)
  OBVIOUS
<1> DEFINE Body(f) == [m \in OS_SET!Below(n) |-> [rank \in Nat |-> [next \in OS_SET!Links |-> SimEraseStep(f, m, k, rank, next)]]]
           RawBody(f) == [m \in Set!Below(n) |->
                            [rank \in Nat |-> [next \in Set!Links |-> EraseStep(f, m, k, rank, next)]]]
<1>1. OS_SET!Erase(n, k, r, x) = (CHOOSE f : f = Body(f))[n][r][x]
  BY DEF OS_SET!Erase, SimEraseStep
<1>2. Set!Erase(n, k, r, x) = (CHOOSE f : f = RawBody(f))[n][r][x]
  BY DEF Set!Erase, EraseStep
<1>3. \A f, m, rank, next : SimEraseStep(f, m, k, rank, next) = EraseStep(f, m, k, rank, next)
  <2> SUFFICES ASSUME NEW f, NEW m, NEW rank, NEW next
               PROVE  SimEraseStep(f, m, k, rank, next) = EraseStep(f, m, k, rank, next)
    OBVIOUS
  <2>1. \A l, w, t : OS_SET!MaybeRebalance(OS_SET!Node(l, w, t)) = Set!MaybeRebalance(Set!Node(l, w, t))
    BY SetHasTrees, SetHasBalance
  <2>2. /\ m = OS_SET!Nil <=> m = Set!Nil
        /\ OS_SET!Key(m) = Set!Key(m) /\ OS_SET!Size(m.left) = Set!Size(m.left)
        /\ OS_SET!Erased(OS_SET!Nil, rank, OS_SET!Nil, OS_SET!Nil) = Set!Erased(Set!Nil, rank, Set!Nil, Set!Nil)
        /\ OS_SET!AtNode(m, rank, next) = Set!AtNode(m, rank, next)
    BY SetHasTrees, SetHasAtNode DEF OS_SET!Erased, Set!Erased
  <2>3. \A sub : [sub EXCEPT !.root = OS_SET!MaybeRebalance(OS_SET!Node(m.left, m.value, @))] =
                 [sub EXCEPT !.root = Set!MaybeRebalance(Set!Node(m.left, m.value, @))]
    BY <2>1, Zenon
  <2>4. \A sub : [sub EXCEPT !.root = OS_SET!MaybeRebalance(OS_SET!Node(@, m.value, m.right))] =
                 [sub EXCEPT !.root = Set!MaybeRebalance(Set!Node(@, m.value, m.right))]
    BY <2>1, Zenon
  <2> QED
    BY <2>2, <2>3, <2>4, Zenon DEF SimEraseStep, EraseStep
<1>4. \A f : Body(f) = RawBody(f)
  BY <1>3, SetHasTrees DEF OS_SET!Links, Set!Links
<1> HIDE DEF Body, RawBody
<1>5. (CHOOSE f : f = Body(f)) = (CHOOSE f : f = RawBody(f))
  BY <1>4
<1> QED
  BY <1>1, <1>2, <1>5
-----------------------------------------------------------------------------
(* Hits by rank                                                            *)

Hits(hits, n) == n \in Nat /\ hits \in [0..(n - 1) -> Nat]

\* The number of ranks of n pages.
LEMMA SizeOfRanks ==
    ASSUME NEW n \in Nat
    PROVE  IsFiniteSet(0..(n - 1)) /\ Cardinality(0..(n - 1)) = n
<1>1. 0 \in Int /\ n - 1 \in Int
  OBVIOUS
<1>2. /\ IsFiniteSet(0..(n - 1))
      /\ Cardinality(0..(n - 1)) = IF 0 > n - 1 THEN 0 ELSE n - 1 - 0 + 1
  BY <1>1, FS_Interval, Zenon
<1> QED
  BY <1>2

\* A hit at rank r is a hit of the caches that are larger.
LEMMA OneMoreHit ==
    ASSUME NEW n, NEW hits, Hits(hits, n), NEW r \in 0..(n - 1)
    PROVE  LET more == [hits EXCEPT ![r] = @ + 1]
           IN  /\ Hits(more, n)
               /\ SumFunction(hits) \in Int
               /\ SumFunction(more) = SumFunction(hits) + 1
               /\ \A x \in Nat : HitsBelow(more, x) =
                                   HitsBelow(hits, x) + (IF r < x THEN 1 ELSE 0)
<1> DEFINE more == [hits EXCEPT ![r] = @ + 1]
           D == 0..(n - 1)
<1>1. /\ n \in Nat
      /\ DOMAIN hits = D /\ DOMAIN more = D
      /\ \A k \in D : hits[k] \in Nat /\ more[k] \in Nat
      /\ \A k \in D \ {r} : more[k] = hits[k]
      /\ more[r] - hits[r] = 1
  BY DEF Hits
<1>2. Hits(more, n)
  BY DEF Hits
<1>3. ASSUME NEW S \in SUBSET D
      PROVE  /\ SumFunctionOnSet(hits, S) \in Int
             /\ SumFunctionOnSet(more, S) =
                  SumFunctionOnSet(hits, S) + (IF r \in S THEN 1 ELSE 0)
  <2>1. IsFiniteSet(S)
    BY <1>1, SizeOfRanks, FS_Subset
  <2>2. \A k \in S : hits[k] \in Int /\ more[k] \in Int
    BY <1>1
  <2> HIDE DEF more
  <2>3. SumFunctionOnSet(hits, S) \in Int
    BY <2>1, <2>2, SumType
  <2>4. \A k \in S \ {r} : more[k] = hits[k]
    BY <1>1
  <2>5. SumFunctionOnSet(more, S) =
          SumFunctionOnSet(hits, S) + (IF r \in S THEN more[r] - hits[r] ELSE 0)
    BY <2>1, <2>2, <2>4, SumOfChange
  <2> QED
    BY <1>1, <2>3, <2>5
<1> HIDE DEF more
<1>4. SumFunction(hits) \in Int /\ SumFunction(more) = SumFunction(hits) + 1
  <2>1. /\ SumFunction(hits) = SumFunctionOnSet(hits, D)
        /\ SumFunction(more) = SumFunctionOnSet(more, D)
    BY <1>1, Zenon DEF SumFunction
  <2> QED
    BY <1>3, <2>1
<1>5. ASSUME NEW x \in Nat
      PROVE  HitsBelow(more, x) = HitsBelow(hits, x) + (IF r < x THEN 1 ELSE 0)
  <2> DEFINE S == (0..(x - 1)) \cap D
  <2>1. HitsBelow(more, x) = SumFunctionOnSet(more, S) /\ HitsBelow(hits, x) = SumFunctionOnSet(hits, S)
    BY <1>1 DEF HitsBelow
  <2>2. S \in SUBSET D /\ (r \in S <=> r < x)
    BY <1>1
  <2> HIDE DEF S
  <2> QED
    BY <1>3, <2>1, <2>2
<1> QED
  BY <1>2, <1>4, <1>5 DEF more

\* Room for one more rank is no hit.
LEMMA RoomHasNoHit ==
    ASSUME NEW n, NEW hits, Hits(hits, n)
    PROVE  /\ Hits(RoomForRank(hits), n + 1)
           /\ SumFunction(hits) \in Int
           /\ SumFunction(RoomForRank(hits)) = SumFunction(hits)
           /\ \A x \in Nat : HitsBelow(RoomForRank(hits), x) = HitsBelow(hits, x)
<1> DEFINE more == RoomForRank(hits)
           D == 0..(n - 1)
<1>1. n \in Nat /\ DOMAIN hits = D /\ Cardinality(D) = n /\ \A k \in D : hits[k] \in Nat
  BY SizeOfRanks DEF Hits
<1>2. more = [k \in 0..n |-> IF k \in D THEN hits[k] ELSE 0]
  BY <1>1 DEF RoomForRank
<1>3. /\ DOMAIN more = 0..n
      /\ \A k \in D : more[k] = hits[k]
      /\ more[n] = 0
      /\ n \notin D
  BY <1>1, <1>2
<1>4. Hits(more, n + 1)
  BY <1>1, <1>2 DEF Hits
<1> HIDE DEF more
<1>5. ASSUME NEW S \in SUBSET D
      PROVE  /\ SumFunctionOnSet(hits, S) \in Int
             /\ SumFunctionOnSet(more, S) = SumFunctionOnSet(hits, S)
             /\ SumFunctionOnSet(more, S \cup {n}) = SumFunctionOnSet(hits, S)
  <2>1. IsFiniteSet(S)
    BY <1>1, SizeOfRanks, FS_Subset
  <2>2. \A k \in S : hits[k] \in Int /\ more[k] = hits[k]
    BY <1>1, <1>3
  <2>3. SumFunctionOnSet(hits, S) \in Int /\ SumFunctionOnSet(more, S) = SumFunctionOnSet(hits, S)
    BY <2>1, <2>2, SumType, SumSame
  <2> DEFINE U == S \cup {n}
  <2>4. IsFiniteSet(U)
    BY <2>1, FS_AddElement
  <2>5. n \in U /\ U \ {n} = S
    BY <1>3
  <2>6. \A k \in U : more[k] \in Int
    BY <1>3, <2>2
  <2> HIDE DEF U
  <2>7. SumFunctionOnSet(more, U) = more[n] + SumFunctionOnSet(more, S)
    BY <2>4, <2>5, <2>6, SumRest
  <2> QED
    BY <1>3, <2>3, <2>7 DEF U
<1>6. SumFunction(hits) \in Int /\ SumFunction(more) = SumFunction(hits)
  <2>1. 0..n = D \cup {n}
    BY <1>1
  <2>2. SumFunction(hits) = SumFunctionOnSet(hits, D)
    BY <1>1, Zenon DEF SumFunction
  <2>3. SumFunction(more) = SumFunctionOnSet(more, D \cup {n})
    BY <1>3, <2>1, Zenon DEF SumFunction
  <2> QED
    BY <1>5, <2>2, <2>3
<1>7. ASSUME NEW x \in Nat PROVE HitsBelow(more, x) = HitsBelow(hits, x)
  <2> DEFINE S == (0..(x - 1)) \cap D
             T == (0..(x - 1)) \cap (0..n)
  <2>1. HitsBelow(more, x) = SumFunctionOnSet(more, T) /\ HitsBelow(hits, x) = SumFunctionOnSet(hits, S)
    BY <1>1, <1>3 DEF HitsBelow
  <2>2. S \in SUBSET D /\ (T = S \/ T = S \cup {n})
    BY <1>1
  <2> HIDE DEF S, T
  <2> QED
    BY <1>5, <2>1, <2>2
<1> QED
  BY <1>4, <1>6, <1>7 DEF more

\* A success function has the hits of each size, and of the larger ones those
\* of the largest.
LEMMA SuccessIsHits ==
    ASSUME NEW n, NEW hits, Hits(hits, n)
    PROVE  /\ \A x \in Nat : SuccessAt(SuccessFunction(hits), x) = HitsBelow(hits, x)
           /\ \A k : Misses(k, SuccessFunction(hits)) = k - 1 - SumFunction(hits)
<1> DEFINE success_of == SuccessFunction(hits)
<1>1. n \in Nat /\ DOMAIN hits = 0..(n - 1) /\ Cardinality(0..(n - 1)) = n
  BY SizeOfRanks DEF Hits
<1>2. success_of = [x \in 0..n |-> SumFunctionOnSet(hits, 0..(x - 1))]
  BY <1>1 DEF SuccessFunction
<1>3. /\ DOMAIN success_of = 0..n
      /\ \A x \in 0..n : success_of[x] = SumFunctionOnSet(hits, 0..(x - 1))
  BY <1>2
<1>4. Cardinality(0..n) = n + 1 /\ 0..n # {}
  <2>1. 0 \in Int /\ n \in Int
    BY <1>1
  <2>2. Cardinality(0..n) = IF 0 > n THEN 0 ELSE n - 0 + 1
    BY <2>1, FS_Interval, Zenon
  <2>3. 0 \in 0..n
    BY <1>1
  <2> QED
    BY <1>1, <2>2, <2>3
<1> HIDE DEF success_of
<1>5. ASSUME NEW x \in Nat PROVE SuccessAt(success_of, x) = HitsBelow(hits, x)
  <2> DEFINE least == IF x < n THEN x ELSE n
  <2>1. Min({x, n}) = least
    BY <1>1 DEF Min
  <2>2. Cardinality(DOMAIN success_of) - 1 = n /\ DOMAIN success_of # {}
    BY <1>1, <1>3, <1>4, SMTT(30)
  <2>3. SuccessAt(success_of, x) = success_of[Min({x, n})]
    BY <2>2, Zenon DEF SuccessAt
  <2>4. least \in 0..n /\ 0..(least - 1) = (0..(x - 1)) \cap (0..(n - 1))
    BY <1>1
  <2>5. HitsBelow(hits, x) = SumFunctionOnSet(hits, (0..(x - 1)) \cap (0..(n - 1)))
    BY <1>1 DEF HitsBelow
  <2> HIDE DEF least
  <2>6. success_of[least] = SumFunctionOnSet(hits, 0..(least - 1))
    BY <1>3, <2>4
  <2> QED
    BY <2>1, <2>3, <2>4, <2>5, <2>6
<1>6. ASSUME NEW k PROVE Misses(k, success_of) = k - 1 - SumFunction(hits)
  <2>1. Cardinality(DOMAIN success_of) - 1 = n /\ DOMAIN success_of # {}
    BY <1>1, <1>3, <1>4
  <2>2. Misses(k, success_of) = k - 1 - success_of[n]
    BY <2>1, Zenon DEF Misses
  <2>3. n \in 0..n
    BY <1>1
  <2>4. success_of[n] = SumFunctionOnSet(hits, 0..(n - 1))
    BY <1>3, <2>3
  <2>5. SumFunction(hits) = SumFunctionOnSet(hits, 0..(n - 1))
    BY <1>1, Zenon DEF SumFunction
  <2> QED
    BY <2>2, <2>4, <2>5
<1> QED
  BY <1>5, <1>6 DEF success_of

-----------------------------------------------------------------------------
(* The queue                                                               *)

\* The copies of the operators on hits and queues are the same, too: for the
\* simulators,
LEMMA SimulatorsHaveHits ==
    /\ \A hits : OS_TREE!RoomForRank(hits) = RoomForRank(hits)
    /\ \A hits : OS_SET!RoomForRank(hits) = RoomForRank(hits)
    /\ \A hits : OS_TREE!SuccessFunction(hits) = SuccessFunction(hits)
    /\ \A hits : OS_SET!SuccessFunction(hits) = SuccessFunction(hits)
<1>1. \A S : OS_TREE!Cardinality(S) = Cardinality(S) /\ OS_SET!Cardinality(S) = Cardinality(S)
  BY DEF OS_TREE!Cardinality, OS_SET!Cardinality, Cardinality
<1>2. \A f, S : OS_TREE!SumFunctionOnSet(f, S) = SumFunctionOnSet(f, S)
  BY DEF OS_TREE!SumFunctionOnSet, SumFunctionOnSet, OS_TREE!FoldFunctionOnSet, FoldFunctionOnSet,
         OS_TREE!MapThenFoldSet, MapThenFoldSet
<1>3. \A f, S : OS_SET!SumFunctionOnSet(f, S) = SumFunctionOnSet(f, S)
  BY DEF OS_SET!SumFunctionOnSet, SumFunctionOnSet, OS_SET!FoldFunctionOnSet, FoldFunctionOnSet,
         OS_SET!MapThenFoldSet, MapThenFoldSet
<1> QED
  BY <1>1, <1>2, <1>3 DEF OS_TREE!RoomForRank, OS_SET!RoomForRank, RoomForRank,
     OS_TREE!SuccessFunction, OS_SET!SuccessFunction, SuccessFunction

\* and for the queue that each of them implements.
LEMMA QueuesHaveHits ==
    /\ \A hits : OS_TREE!Queue!RoomForRank(hits) = RoomForRank(hits)
    /\ \A hits : OS_SET!Queue!RoomForRank(hits) = RoomForRank(hits)
    /\ \A hits : OS_TREE!Queue!SuccessFunction(hits) = SuccessFunction(hits)
    /\ \A hits : OS_SET!Queue!SuccessFunction(hits) = SuccessFunction(hits)
    /\ \A hits, x : OS_TREE!Queue!HitsBelow(hits, x) = HitsBelow(hits, x)
<1>1. \A S : OS_TREE!Queue!Cardinality(S) = Cardinality(S) /\ OS_SET!Queue!Cardinality(S) = Cardinality(S)
  BY DEF OS_TREE!Queue!Cardinality, OS_SET!Queue!Cardinality, Cardinality
<1>2. \A f, S : OS_TREE!Queue!SumFunctionOnSet(f, S) = SumFunctionOnSet(f, S)
  BY DEF OS_TREE!Queue!SumFunctionOnSet, SumFunctionOnSet, OS_TREE!Queue!FoldFunctionOnSet, FoldFunctionOnSet,
         OS_TREE!Queue!MapThenFoldSet, MapThenFoldSet
<1>3. \A f, S : OS_SET!Queue!SumFunctionOnSet(f, S) = SumFunctionOnSet(f, S)
  BY DEF OS_SET!Queue!SumFunctionOnSet, SumFunctionOnSet, OS_SET!Queue!FoldFunctionOnSet, FoldFunctionOnSet,
         OS_SET!Queue!MapThenFoldSet, MapThenFoldSet
<1> QED
  BY <1>1, <1>2, <1>3 DEF OS_TREE!Queue!RoomForRank, OS_SET!Queue!RoomForRank, RoomForRank,
     OS_TREE!Queue!SuccessFunction, OS_SET!Queue!SuccessFunction, SuccessFunction,
     OS_TREE!Queue!HitsBelow, HitsBelow

LEMMA QueuesHavePages ==
    /\ \A table, addr : OS_TREE!Queue!UsedSince(table, addr) = UsedSince(table, addr)
    /\ \A table, addr : OS_SET!Queue!UsedSince(table, addr) = UsedSince(table, addr)
    /\ \A table, x : OS_TREE!Queue!FrontPages(table, x) = FrontPages(table, x)
    /\ \A success, x : OS_TREE!Queue!SuccessAt(success, x) = SuccessAt(success, x)
    /\ \A k, success : OS_TREE!Queue!Misses(k, success) = Misses(k, success)
    /\ \A k, success : OS_SET!Queue!Misses(k, success) = Misses(k, success)
    /\ \A table : OS_TREE!Queue!Cardinality(DOMAIN table) = Cardinality(DOMAIN table)
    /\ \A table : OS_SET!Queue!Cardinality(DOMAIN table) = Cardinality(DOMAIN table)
<1>1. \A S : OS_TREE!Queue!Cardinality(S) = Cardinality(S) /\ OS_SET!Queue!Cardinality(S) = Cardinality(S)
  BY DEF OS_TREE!Queue!Cardinality, OS_SET!Queue!Cardinality, Cardinality
<1>2. /\ \A table, addr : OS_TREE!Queue!UsedSince(table, addr) = UsedSince(table, addr)
      /\ \A table, addr : OS_SET!Queue!UsedSince(table, addr) = UsedSince(table, addr)
  BY <1>1 DEF OS_TREE!Queue!UsedSince, OS_SET!Queue!UsedSince, UsedSince
<1>3. \A table, r : OS_TREE!Queue!PageAt(table, r) = PageAt(table, r)
  BY <1>2 DEF OS_TREE!Queue!PageAt, PageAt
<1>4. \A table, x : OS_TREE!Queue!FrontPages(table, x) = FrontPages(table, x)
  BY <1>1, <1>3 DEF OS_TREE!Queue!FrontPages, FrontPages
<1>5. \A success, x : OS_TREE!Queue!SuccessAt(success, x) = SuccessAt(success, x)
  <2>1. \A S : OS_TREE!Queue!Min(S) = Min(S)
    BY DEF OS_TREE!Queue!Min, Min
  <2>2. ASSUME NEW reported_hits, NEW x
        PROVE  OS_TREE!Queue!SuccessAt(reported_hits, x) = SuccessAt(reported_hits, x)
    BY <1>1, <2>1, Zenon DEF OS_TREE!Queue!SuccessAt, SuccessAt
  <2> QED
    BY <2>2, Zenon
<1>6. /\ \A k, success : OS_TREE!Queue!Misses(k, success) = Misses(k, success)
      /\ \A k, success : OS_SET!Queue!Misses(k, success) = Misses(k, success)
  BY <1>1 DEF OS_TREE!Queue!Misses, OS_SET!Queue!Misses, Misses
<1> QED
  BY <1>1, <1>2, <1>4, <1>5, <1>6

\* The invariant of the queue.
QueueInv(number, pages, hits) ==
    /\ number \in Nat \ {0}
    /\ TableUntil(pages, number)
    /\ Hits(hits, Cardinality(DOMAIN pages))
    /\ number - 1 = SumFunction(hits) + Cardinality(DOMAIN pages)

\* The hits by rank after an access.
HitsWith(pages, hits, addr) ==
    IF addr \in DOMAIN pages THEN [hits EXCEPT ![UsedSince(pages, addr)] = @ + 1]
    ELSE RoomForRank(hits)

\* An access keeps the invariant, and is a hit of the caches that are larger
\* than the rank of its page.
LEMMA AccessResult ==
    ASSUME NEW number, NEW pages, NEW hits, QueueInv(number, pages, hits), NEW addr
    PROVE  /\ QueueInv(number + 1, UsedAt(pages, addr, number), HitsWith(pages, hits, addr))
           /\ \A x \in Nat : HitsBelow(HitsWith(pages, hits, addr), x) = HitsBelow(hits, x) +
                 (IF addr \in DOMAIN pages /\ UsedSince(pages, addr) < x THEN 1 ELSE 0)
<1> DEFINE n == Cardinality(DOMAIN pages)
           used == UsedAt(pages, addr, number)
           r == UsedSince(pages, addr)
           more == HitsWith(pages, hits, addr)
<1>1. /\ number \in Nat \ {0} /\ TableUntil(pages, number)
      /\ Hits(hits, n) /\ number - 1 = SumFunction(hits) + n
  BY DEF QueueInv
<1>2. /\ TableUntil(used, number + 1)
      /\ n \in Nat
      /\ Cardinality(DOMAIN used) = IF addr \in DOMAIN pages THEN n ELSE n + 1
  BY <1>1, UsedIsTable
<1>3. CASE addr \in DOMAIN pages
  <2>1. r \in 0..(n - 1)
    BY <1>1, <1>3, UsedSinceNumbersPages
  <2>2. more = [hits EXCEPT ![r] = @ + 1]
    BY <1>3, Zenon DEF HitsWith
  <2> HIDE DEF r, n, used, more
  <2>3. /\ Hits(more, n)
        /\ SumFunction(hits) \in Int
        /\ SumFunction(more) = SumFunction(hits) + 1
        /\ \A x \in Nat : HitsBelow(more, x) = HitsBelow(hits, x) + (IF r < x THEN 1 ELSE 0)
    BY <1>1, <2>1, <2>2, OneMoreHit, ZenonT(60)
  <2>4. QueueInv(number + 1, used, more)
    BY <1>1, <1>2, <1>3, <2>3 DEF QueueInv
  <2> QED
    BY <1>3, <2>3, <2>4 DEF r, used, more
<1>4. CASE addr \notin DOMAIN pages
  <2>1. more = RoomForRank(hits)
    BY <1>4 DEF HitsWith
  <2> HIDE DEF n, used, more
  <2>2. /\ Hits(more, n + 1)
        /\ SumFunction(hits) \in Int
        /\ SumFunction(more) = SumFunction(hits)
        /\ \A x \in Nat : HitsBelow(more, x) = HitsBelow(hits, x)
    BY <1>1, <2>1, RoomHasNoHit
  <2>3. QueueInv(number + 1, used, more)
    BY <1>1, <1>2, <1>4, <2>2 DEF QueueInv
  <2>4. \A x \in Nat : HitsBelow(hits, x) \in Int
    <3> SUFFICES ASSUME NEW x \in Nat PROVE HitsBelow(hits, x) \in Int
      OBVIOUS
    <3> DEFINE S == (0..(x - 1)) \cap DOMAIN hits
    <3>1. S \in SUBSET (0..(n - 1)) /\ \A k \in S : hits[k] \in Int
      BY <1>1 DEF Hits
    <3>2. IsFiniteSet(S)
      BY <1>2, <3>1, SizeOfRanks, FS_Subset
    <3> HIDE DEF S
    <3>3. SumFunctionOnSet(hits, S) \in Int
      BY <3>1, <3>2, SumType
    <3> QED
      BY <3>3 DEF HitsBelow, S
  <2> QED
    BY <1>4, <2>2, <2>3, <2>4 DEF used, more
<1> QED
  BY <1>3, <1>4

\* The queue is empty at first.
LEMMA EmptyTable ==
    /\ QueueInv(1, <<>>, <<>>)
    /\ DOMAIN <<>> = {} /\ Cardinality(DOMAIN <<>>) = 0
<1> DEFINE none == <<>>
<1>1. DOMAIN none = {} /\ none \in [{} -> Nat]
  OBVIOUS
<1>2. Cardinality({}) = 0 /\ IsFiniteSet({})
  BY FS_EmptySet
<1> HIDE DEF none
<1>3. TableUntil(none, 1)
  BY <1>1, <1>2 DEF TableUntil
<1>4. Hits(none, 0)
  BY <1>1 DEF Hits
<1>5. SumFunction(none) = 0
  <2>1. SumFunctionOnSet(none, {}) = 0
    BY <1>2, SumProperties
  <2> QED
    BY <1>1, <2>1, Zenon DEF SumFunction
<1>6. QueueInv(1, none, none)
  BY <1>1, <1>2, <1>3, <1>4, <1>5 DEF QueueInv
<1> QED
  BY <1>1, <1>2, <1>6 DEF none

\* The accesses of the queue.
TreeAccess(addr) ==
    /\ tree_number <= MaxAccesses
    /\ tree_number' = tree_number + 1
    /\ tree_pages' = UsedAt(tree_pages, addr, tree_number)
    /\ tree_hits' = HitsWith(tree_pages, tree_hits, addr)
    /\ tree_success' = tree_success

SetAccess(addr) ==
    /\ set_number <= MaxAccesses
    /\ set_number' = set_number + 1
    /\ set_pages' = UsedAt(set_pages, addr, set_number)
    /\ set_hits' = HitsWith(set_pages, set_hits, addr)
    /\ set_success' = set_success

LEMMA ChangedTable ==
    ASSUME NEW pages, NEW addr, NEW number
    PROVE  UsedAt(pages, addr, number) =
              IF addr \in DOMAIN pages THEN [pages EXCEPT ![addr] = number]
              ELSE [a \in DOMAIN pages \cup {addr} |-> IF a = addr THEN number ELSE pages[a]]
<1>1. ASSUME addr \in DOMAIN pages PROVE DOMAIN pages = DOMAIN pages \cup {addr}
  BY <1>1
<1> QED
  BY <1>1 DEF UsedAt

LEMMA QueueAccess ==
    \A addr : /\ OS_TREE!Queue!MemoryAccess(addr) <=> TreeAccess(addr)
              /\ OS_SET!Queue!MemoryAccess(addr) <=> SetAccess(addr)
<1> SUFFICES ASSUME NEW addr
             PROVE  /\ OS_TREE!Queue!MemoryAccess(addr) <=> TreeAccess(addr)
                    /\ OS_SET!Queue!MemoryAccess(addr) <=> SetAccess(addr)
  OBVIOUS
<1>1. OS_TREE!Queue!MemoryAccess(addr) <=> TreeAccess(addr)
  BY ChangedTable, QueuesHaveHits, QueuesHavePages
     DEF OS_TREE!Queue!MemoryAccess, OS_TREE!Queue!Hit, OS_TREE!Queue!NewPage, TreeAccess, HitsWith
<1>2. OS_SET!Queue!MemoryAccess(addr) <=> SetAccess(addr)
  BY ChangedTable, QueuesHaveHits, QueuesHavePages
     DEF OS_SET!Queue!MemoryAccess, OS_SET!Queue!Hit, OS_SET!Queue!NewPage, SetAccess, HitsWith
<1> QED
  BY <1>1, <1>2

\* Reports of the queue.
LEMMA QueueReport ==
    /\ OS_TREE!Queue!GetSuccessFunction <=>
          /\ tree_success' = SuccessFunction(tree_hits)
          /\ tree_number' = tree_number /\ tree_pages' = tree_pages /\ tree_hits' = tree_hits
    /\ OS_SET!Queue!GetSuccessFunction <=>
          /\ set_success' = SuccessFunction(set_hits)
          /\ set_number' = set_number /\ set_pages' = set_pages /\ set_hits' = set_hits
BY QueuesHaveHits DEF OS_TREE!Queue!GetSuccessFunction, OS_SET!Queue!GetSuccessFunction

TreeQueueInv == QueueInv(tree_number, tree_pages, tree_hits)

LEMMA QueueInit == OS_TREE!Queue!Init => TreeQueueInv
BY EmptyTable DEF OS_TREE!Queue!Init, TreeQueueInv

LEMMA QueueNext == TreeQueueInv /\ [OS_TREE!Queue!Next]_(OS_TREE!Queue!vars) => TreeQueueInv'
<1> SUFFICES ASSUME TreeQueueInv, [OS_TREE!Queue!Next]_(OS_TREE!Queue!vars)
             PROVE  QueueInv(tree_number', tree_pages', tree_hits')
  BY DEF TreeQueueInv
<1>1. ASSUME NEW addr \in Addr, OS_TREE!Queue!MemoryAccess(addr)
      PROVE  QueueInv(tree_number', tree_pages', tree_hits')
  <2>1. TreeAccess(addr)
    BY <1>1, QueueAccess
  <2>2. QueueInv(tree_number, tree_pages, tree_hits)
    BY DEF TreeQueueInv
  <2> QED
    BY <2>1, <2>2, AccessResult DEF TreeAccess
<1>2. CASE OS_TREE!Queue!GetSuccessFunction
  BY <1>2, QueueReport DEF TreeQueueInv
<1>3. CASE UNCHANGED OS_TREE!Queue!vars
  BY <1>3 DEF OS_TREE!Queue!vars, TreeQueueInv
<1> QED
  BY <1>1, <1>2, <1>3 DEF OS_TREE!Queue!Next

\* Hits by rank and pages add up to the accesses: no access is lost, none is
\* counted twice.
THEOREM EveryAccessIsCounted == OS_TREE!Queue!Spec => []OS_TREE!Queue!AccessesAreAccountedFor
<1>1. \A f : OS_TREE!Queue!SumFunction(f) = SumFunction(f)
  BY DEF OS_TREE!Queue!SumFunction, SumFunction, OS_TREE!Queue!SumFunctionOnSet, SumFunctionOnSet,
         OS_TREE!Queue!FoldFunctionOnSet, FoldFunctionOnSet, OS_TREE!Queue!MapThenFoldSet, MapThenFoldSet
<1>2. TreeQueueInv => OS_TREE!Queue!AccessesAreAccountedFor
  BY <1>1, QueuesHavePages DEF TreeQueueInv, QueueInv, OS_TREE!Queue!AccessesAreAccountedFor
<1> QED
  BY <1>2, QueueInit, QueueNext, PTL DEF OS_TREE!Queue!Spec

\* A simulator with one queue tells what LRU caches of all sizes would have hit.
THEOREM QueueIsLRUOfAllSizes == OS_TREE!Queue!Spec => OS_TREE!Queue!ImplementsLRU
<1> DEFINE cache == [x \in 1..MaxSize |-> OS_TREE!Queue!FrontPages(tree_pages, x)]
           hits == [x \in 1..MaxSize |-> OS_TREE!Queue!HitsBelow(tree_hits, x)]
           reported == [x \in 1..MaxSize |-> OS_TREE!Queue!SuccessAt(tree_success, x)]
<1>0. \A x \in 1..MaxSize : x \in Nat \ {0}
  BY MaxSizeAssumption
<1>1. OS_TREE!Queue!Init => OS_TREE!Queue!LRU!Init
  <2> SUFFICES ASSUME OS_TREE!Queue!Init PROVE OS_TREE!Queue!LRU!Init
    OBVIOUS
  <2>1. /\ DOMAIN tree_pages = {} /\ DOMAIN tree_hits = {} /\ DOMAIN tree_success = {}
        /\ Cardinality(DOMAIN tree_pages) = 0
    BY EmptyTable DEF OS_TREE!Queue!Init
  <2>2. ASSUME NEW x \in 1..MaxSize PROVE OS_TREE!Queue!FrontPages(tree_pages, x) = <<>>
    <3>1. (IF x < 0 THEN x ELSE 0) = 0
      BY <1>0
    <3>2. FrontPages(tree_pages, x) = [i \in 1..0 |-> PageAt(tree_pages, i - 1)]
      BY <2>1, <3>1 DEF FrontPages
    <3> QED
      BY <3>2, QueuesHavePages
  <2>3. ASSUME NEW x \in 1..MaxSize PROVE OS_TREE!Queue!HitsBelow(tree_hits, x) = 0
    <3>1. SumFunctionOnSet(tree_hits, {}) = 0
      BY FS_EmptySet, SumProperties
    <3>2. (0..(x - 1)) \cap DOMAIN tree_hits = {}
      BY <2>1
    <3>3. HitsBelow(tree_hits, x) = 0
      BY <3>1, <3>2 DEF HitsBelow
    <3> QED
      BY <3>3, QueuesHaveHits
  <2>4. ASSUME NEW x \in 1..MaxSize PROVE OS_TREE!Queue!SuccessAt(tree_success, x) = 0
    BY <2>1, QueuesHavePages DEF SuccessAt
  <2> QED
    BY <2>2, <2>3, <2>4 DEF OS_TREE!Queue!LRU!Init, OS_TREE!Queue!LRU!Sizes
<1>2. ASSUME TreeQueueInv, NEW addr \in Addr, OS_TREE!Queue!MemoryAccess(addr)
      PROVE  OS_TREE!Queue!LRU!Access(addr)
  <2>1. TreeAccess(addr)
    BY <1>2, QueueAccess
  <2>2. QueueInv(tree_number, tree_pages, tree_hits)
    BY <1>2 DEF TreeQueueInv
  <2>3. /\ tree_pages' = UsedAt(tree_pages, addr, tree_number)
        /\ tree_success' = tree_success
        /\ \A x \in Nat : HitsBelow(tree_hits', x) = HitsBelow(tree_hits, x) +
              (IF addr \in DOMAIN tree_pages /\ UsedSince(tree_pages, addr) < x THEN 1 ELSE 0)
    BY <2>1, <2>2, AccessResult DEF TreeAccess
  <2>4. tree_number \in Nat /\ TableUntil(tree_pages, tree_number)
    BY <2>2 DEF QueueInv
  <2>5. ASSUME NEW x \in 1..MaxSize
        PROVE  /\ OS_TREE!Queue!FrontPages(tree_pages', x) =
                     OS_TREE!Queue!LRU!Touch(OS_TREE!Queue!FrontPages(tree_pages, x), addr, x)
               /\ OS_TREE!Queue!HitsBelow(tree_hits', x) = OS_TREE!Queue!HitsBelow(tree_hits, x) +
                     (IF OS_TREE!Queue!LRU!Holds(OS_TREE!Queue!FrontPages(tree_pages, x), addr)
                      THEN 1 ELSE 0)
    <3> DEFINE front == FrontPages(tree_pages, x)
    <3>1. /\ OS_TREE!Queue!LRU!Touch(front, addr, x) = Touch(front, addr, x)
          /\ OS_TREE!Queue!LRU!Holds(front, addr) <=> Holds(front, addr)
      BY DEF OS_TREE!Queue!LRU!Touch, OS_TREE!Queue!LRU!Holds, Touch, Holds
    <3>2. /\ FrontPages(tree_pages', x) = Touch(front, addr, x)
          /\ HitsBelow(tree_hits', x) = HitsBelow(tree_hits, x) + (IF Holds(front, addr) THEN 1 ELSE 0)
      BY <1>0, <2>3, <2>4, AccessTouchesFront, FrontHolds
    <3> QED
      BY <3>1, <3>2, QueuesHavePages, QueuesHaveHits
  <2>6. cache' = [x \in OS_TREE!Queue!LRU!Sizes |-> OS_TREE!Queue!LRU!Touch(cache[x], addr, x)]
    BY <2>5 DEF OS_TREE!Queue!LRU!Sizes
  <2>7. hits' = [x \in OS_TREE!Queue!LRU!Sizes |->
                    hits[x] + (IF OS_TREE!Queue!LRU!Holds(cache[x], addr) THEN 1 ELSE 0)]
    BY <2>5 DEF OS_TREE!Queue!LRU!Sizes
  <2>8. reported' = reported
    BY <2>3
  <2> QED
    BY <2>6, <2>7, <2>8 DEF OS_TREE!Queue!LRU!Access
<1>3. ASSUME TreeQueueInv, OS_TREE!Queue!GetSuccessFunction PROVE OS_TREE!Queue!LRU!Report
  <2>1. Hits(tree_hits, Cardinality(DOMAIN tree_pages))
    BY <1>3 DEF TreeQueueInv, QueueInv
  <2>2. /\ tree_success' = SuccessFunction(tree_hits)
        /\ tree_pages' = tree_pages /\ tree_hits' = tree_hits
    BY <1>3, QueueReport
  <2>3. \A x \in 1..MaxSize : OS_TREE!Queue!SuccessAt(tree_success', x) = OS_TREE!Queue!HitsBelow(tree_hits, x)
    BY <1>0, <2>1, <2>2, SuccessIsHits, QueuesHavePages, QueuesHaveHits
  <2>4. reported' = hits /\ cache' = cache /\ hits' = hits
    BY <2>2, <2>3
  <2> QED
    BY <2>4 DEF OS_TREE!Queue!LRU!Report
<1>4. UNCHANGED OS_TREE!Queue!vars => UNCHANGED OS_TREE!Queue!LRU!lruVars
  BY DEF OS_TREE!Queue!vars, OS_TREE!Queue!LRU!lruVars
<1>5. TreeQueueInv /\ [OS_TREE!Queue!Next]_(OS_TREE!Queue!vars)
         => [OS_TREE!Queue!LRU!Next]_(OS_TREE!Queue!LRU!lruVars)
  BY <1>2, <1>3, <1>4 DEF OS_TREE!Queue!Next, OS_TREE!Queue!LRU!Next
<1> QED
  BY <1>1, <1>5, QueueInit, QueueNext, PTL
     DEF OS_TREE!Queue!Spec, OS_TREE!Queue!ImplementsLRU, OS_TREE!Queue!LRU!Spec

-----------------------------------------------------------------------------
(* The tree of OSTCacheSim                                                 *)

\* As many members in two sets.
LEMMA SameNumber ==
    ASSUME NEW S, NEW T, IsFiniteSet(S), NEW f \in [S -> T],
           \A x, y \in S : f[x] = f[y] => x = y,
           \A z \in T : \E x \in S : f[x] = z
    PROVE  IsFiniteSet(T) /\ Cardinality(T) = Cardinality(S)
<1>1. f \in Bijection(S, T)
  BY DEF Bijection, Injection, Surjection, IsInjective
<1> QED
  BY <1>1, FS_Bijection DEF ExistsBijection

\* The entry of a page.
EntryOf(pages, a) == [ts |-> pages[a], value |-> a]

\* The tree that tells the story of a page table.
TreeHolds(t, pages) ==
    /\ DOMAIN pages \subseteq Addr
    /\ t \in Ost!Trees
    /\ Ost!Ordered(t)
    /\ Ost!Values(t) = {EntryOf(pages, a) : a \in DOMAIN pages}

LEMMA EntryProperties ==
    ASSUME NEW number \in Nat, NEW pages, TableUntil(pages, number), DOMAIN pages \subseteq Addr,
           NEW a \in DOMAIN pages
    PROVE  /\ EntryOf(pages, a) \in Ost!Entry
           /\ EntryOf(pages, a).ts = pages[a] /\ EntryOf(pages, a).value = a
           /\ pages[a] \in Nat /\ pages[a] < number
<1>1. pages[a] \in Nat /\ pages[a] < number /\ a \in Addr
  BY DEF TableUntil
<1> QED
  BY <1>1 DEF EntryOf, Ost!Entry

\* Each page is found at the rank that it has in the queue.
LEMMA PageInTree ==
    ASSUME NEW number \in Nat, NEW pages, TableUntil(pages, number),
           NEW t, TreeHolds(t, pages), NEW a \in DOMAIN pages
    PROVE  /\ EntryOf(pages, a) \in Ost!Values(t)
           /\ Ost!RankIn(t, pages[a]) = UsedSince(pages, a)
           /\ Ost!Find(t, pages[a]) = Ost!Found(UsedSince(pages, a), a)
           /\ UsedSince(pages, a) \in 0..(Ost!Size(t) - 1)
<1> DEFINE S == {b \in DOMAIN pages : pages[b] > pages[a]}
           T == {e \in Ost!Values(t) : e.ts > pages[a]}
           f == [b \in S |-> EntryOf(pages, b)]
<1>1. /\ DOMAIN pages \subseteq Addr
      /\ t \in Ost!Trees /\ Ost!Ordered(t)
      /\ Ost!Values(t) = {EntryOf(pages, b) : b \in DOMAIN pages}
  BY DEF TreeHolds
<1>2. \A b \in DOMAIN pages : EntryOf(pages, b).ts = pages[b] /\ EntryOf(pages, b).value = b
  BY <1>1, EntryProperties
<1>3. IsFiniteSet(S)
  BY FS_Subset DEF TableUntil
<1>4. Cardinality(T) = Cardinality(S)
  <2>1. f \in [S -> T]
    BY <1>1, <1>2
  <2>2. \A x, y \in S : f[x] = f[y] => x = y
    BY <1>2
  <2>3. \A z \in T : \E x \in S : f[x] = z
    BY <1>1, <1>2
  <2> HIDE DEF S, T, f
  <2> QED
    BY <1>3, <2>1, <2>2, <2>3, SameNumber
<1>5. Ost!RankIn(t, pages[a]) = UsedSince(pages, a)
  <2>1. Ost!Cardinality(T) = Cardinality(T)
    BY DEF Ost!Cardinality, Cardinality
  <2> QED
    BY <1>4, <2>1 DEF Ost!RankIn, UsedSince
<1>6. EntryOf(pages, a) \in Ost!Values(t)
  BY <1>1
<1>7. Ost!Find(t, EntryOf(pages, a).ts) = Ost!Found(Ost!RankIn(t, EntryOf(pages, a).ts), EntryOf(pages, a).value)
  BY <1>1, <1>6, Ost!FindResult
<1>8. Ost!RankIn(t, EntryOf(pages, a).ts) \in 0..(Ost!Size(t) - 1)
  BY <1>1, <1>6, Ost!RanksDiffer
<1> QED
  BY <1>2, <1>5, <1>6, <1>7, <1>8

\* A new entry at the front.
LEMMA EntryInserted ==
    ASSUME NEW number \in Nat, NEW pages, TableUntil(pages, number), NEW a \in Addr,
           NEW t \in Ost!Trees, Ost!Ordered(t), DOMAIN pages \subseteq Addr,
           Ost!Values(t) = {EntryOf(pages, b) : b \in DOMAIN pages \ {a}}
    PROVE  TreeHolds(Ost!Insert(t, number, a), UsedAt(pages, a, number))
<1> DEFINE e == [ts |-> number, value |-> a]
           used == UsedAt(pages, a, number)
           s == Ost!Insert(t, number, a)
<1>1. e \in Ost!Entry /\ e.ts = number /\ e.value = a
  BY DEF Ost!Entry
<1>2. \A d \in Ost!Values(t) : d.ts # number
  BY EntryProperties
<1>3. /\ DOMAIN used = DOMAIN pages \cup {a}
      /\ EntryOf(used, a) = e
      /\ \A b \in DOMAIN pages \ {a} : EntryOf(used, b) = EntryOf(pages, b)
  BY DEF UsedAt, EntryOf
<1> HIDE DEF e, used
<1>4. Ost!Inserts(s, t, e)
  BY <1>1, <1>2, Ost!InsertResult
<1>5. s \in Ost!Trees /\ Ost!Values(s) = Ost!Values(t) \cup {e} /\ Ost!Ordered(s)
  BY <1>4 DEF Ost!Inserts
<1>6. Ost!Values(s) = {EntryOf(used, b) : b \in DOMAIN used}
  BY <1>3, <1>5
<1> HIDE DEF s
<1>7. TreeHolds(s, used)
  BY <1>3, <1>5, <1>6 DEF TreeHolds
<1> QED
  BY <1>7 DEF s, used

\* An access moves the entry of its page to the front, or adds it there.
LEMMA TreeAfterHit ==
    ASSUME NEW number \in Nat, NEW pages, TableUntil(pages, number),
           NEW t, TreeHolds(t, pages), NEW a \in DOMAIN pages
    PROVE  TreeHolds(Ost!Insert(Ost!Remove(t, UsedSince(pages, a)).tree, number, a),
                     UsedAt(pages, a, number))
<1> DEFINE r == UsedSince(pages, a)
           removal == Ost!Remove(t, r)
           x == EntryOf(pages, a)
<1>1. /\ DOMAIN pages \subseteq Addr
      /\ t \in Ost!Trees /\ Ost!Ordered(t)
      /\ Ost!Values(t) = {EntryOf(pages, b) : b \in DOMAIN pages}
  BY DEF TreeHolds
<1>2. x \in Ost!Values(t) /\ Ost!RankIn(t, pages[a]) = r /\ r \in 0..(Ost!Size(t) - 1)
  BY PageInTree
<1>3. \A b \in DOMAIN pages : EntryOf(pages, b).ts = pages[b] /\ EntryOf(pages, b).value = b
  BY <1>1, EntryProperties
<1> HIDE DEF r
<1>4. Ost!Removes(removal, t, r)
  BY <1>1, <1>2, Ost!RemoveResult
<1>5. /\ removal.removed \in Ost!Values(t)
      /\ Ost!RankIn(t, removal.removed.ts) = r
      /\ removal.tree \in Ost!Trees /\ Ost!Ordered(removal.tree)
      /\ Ost!Values(removal.tree) = Ost!Values(t) \ {removal.removed}
  BY <1>4 DEF Ost!Removes
<1> HIDE DEF removal
<1>6. removal.removed = x
  <2>1. Ost!RankIn(t, removal.removed.ts) = Ost!RankIn(t, x.ts)
    BY <1>2, <1>3, <1>5
  <2> HIDE DEF x
  <2> QED
    BY <1>1, <1>2, <1>5, <2>1, Ost!RanksDiffer
<1>7. Ost!Values(removal.tree) = {EntryOf(pages, b) : b \in DOMAIN pages \ {a}}
  BY <1>1, <1>3, <1>5, <1>6
<1>8. TreeHolds(Ost!Insert(removal.tree, number, a), UsedAt(pages, a, number))
  BY <1>1, <1>5, <1>7, EntryInserted
<1> QED
  BY <1>8 DEF removal, r

LEMMA TreeAfterNewPage ==
    ASSUME NEW number \in Nat, NEW pages, TableUntil(pages, number),
           NEW t, TreeHolds(t, pages), NEW a \in Addr \ DOMAIN pages
    PROVE  TreeHolds(Ost!Insert(t, number, a), UsedAt(pages, a, number))
<1>1. /\ DOMAIN pages \subseteq Addr
      /\ t \in Ost!Trees /\ Ost!Ordered(t)
      /\ Ost!Values(t) = {EntryOf(pages, b) : b \in DOMAIN pages}
  BY DEF TreeHolds
<1>2. DOMAIN pages \ {a} = DOMAIN pages
  OBVIOUS
<1> QED
  BY <1>1, <1>2, EntryInserted

-----------------------------------------------------------------------------
(* The set of ContainerCacheSim                                            *)

LEMMA GreatestFirst == Set!Ordering
BY DEF Set!Ordering, OS_SET!Greater, OS_SET!Timestamp

\* The balanced tree of the timestamps of a page table.
SetHolds(t, pages) ==
    /\ t \in Set!Trees
    /\ Set!Ordered(t)
    /\ Set!Balanced(t)
    /\ Set!Values(t) = {pages[a] : a \in DOMAIN pages}

\* Each timestamp is found at the rank of its page in the queue.
LEMMA NumberInSet ==
    ASSUME NEW number \in Nat, NEW pages, TableUntil(pages, number),
           NEW t, SetHolds(t, pages), NEW a \in DOMAIN pages
    PROVE  Set!Find(t, pages[a]) = Set!Position(UsedSince(pages, a), <<pages[a]>>)
<1> DEFINE S == {b \in DOMAIN pages : pages[b] > pages[a]}
           T == {u \in Set!Values(t) : u > pages[a]}
           f == [b \in S |-> pages[b]]
           k == pages[a]
<1>1. /\ t \in Set!Trees /\ Set!Ordered(t)
      /\ Set!Values(t) = {pages[b] : b \in DOMAIN pages}
  BY DEF SetHolds
<1>2. IsFiniteSet(S) /\ k \in Nat
  BY FS_Subset DEF TableUntil
<1>3. Cardinality(T) = Cardinality(S)
  <2>1. f \in [S -> T]
    BY <1>1
  <2>2. \A x, y \in S : f[x] = f[y] => x = y
    BY DEF TableUntil
  <2>3. \A z \in T : \E x \in S : f[x] = z
    BY <1>1
  <2> HIDE DEF S, T, f
  <2> QED
    BY <1>2, <2>1, <2>2, <2>3, SameNumber
<1>4. Set!RankIn(t, k) = UsedSince(pages, a)
  <2>1. Set!Cardinality(T) = Cardinality(T)
    BY DEF Set!Cardinality, Cardinality
  <2> QED
    BY <1>3, <2>1 DEF Set!RankIn, UsedSince, OS_SET!Greater, OS_SET!Timestamp
<1>5. k \in Set!Values(t)
  BY <1>1
<1> HIDE DEF k
<1>6. Set!IsFirst(Set!Find(t, k), t, {k})
  BY <1>1, <1>2, GreatestFirst, Set!FindIsFirst
<1>7. Set!Find(t, k) = Set!Position(Set!RankIn(t, k), <<k>>)
  BY <1>5, <1>6 DEF Set!IsFirst, OS_SET!Timestamp
<1> QED
  BY <1>4, <1>7 DEF k

\* A new timestamp at the front.
LEMMA NumberInserted ==
    ASSUME NEW number \in Nat, NEW pages, TableUntil(pages, number), NEW a,
           NEW t \in Set!Trees, Set!Ordered(t), Set!Balanced(t),
           Set!Values(t) = {pages[b] : b \in DOMAIN pages \ {a}}
    PROVE  SetHolds(Set!Insert(t, number, 0, FALSE).root, UsedAt(pages, a, number))
<1> DEFINE used == UsedAt(pages, a, number)
           result == Set!Insert(t, number, 0, FALSE)
<1>1. \A u \in Set!Values(t) : u # number
  BY DEF TableUntil
<1>2. /\ DOMAIN used = DOMAIN pages \cup {a}
      /\ used[a] = number
      /\ \A b \in DOMAIN pages \ {a} : used[b] = pages[b]
  BY DEF UsedAt
<1>3. Set!InsertResult(t, number, 0, FALSE, result)
  BY GreatestFirst, Set!InsertResults
<1> HIDE DEF used, result
<1>4. result.did_insert
  BY <1>1, <1>3 DEF Set!InsertResult, OS_SET!Timestamp
<1>5. /\ result.root \in Set!Trees
      /\ Set!Ordered(result.root) /\ Set!Balanced(result.root)
      /\ Set!Values(result.root) = {number} \cup Set!Values(t)
  BY <1>3, <1>4 DEF Set!InsertResult, Set!Insertions
<1>6. Set!Values(result.root) = {used[b] : b \in DOMAIN used}
  BY <1>2, <1>5
<1>7. SetHolds(result.root, used)
  BY <1>5, <1>6 DEF SetHolds
<1> QED
  BY <1>7 DEF used, result

\* An access moves the timestamp of its page to the front, or adds one there.
LEMMA SetAfterHit ==
    ASSUME NEW number \in Nat, NEW pages, TableUntil(pages, number),
           NEW t, SetHolds(t, pages), NEW a \in DOMAIN pages
    PROVE  SetHolds(Set!Insert(Set!Erase(t, pages[a], 0, Set!Nil).root, number, 0, FALSE).root,
                    UsedAt(pages, a, number))
<1> DEFINE k == pages[a]
           result == Set!Erase(t, k, 0, Set!Nil)
<1>1. /\ t \in Set!Trees /\ Set!Ordered(t) /\ Set!Balanced(t)
      /\ Set!Values(t) = {pages[b] : b \in DOMAIN pages}
  BY DEF SetHolds
<1>2. k \in Nat /\ \A b \in DOMAIN pages : pages[b] = k => b = a
  BY DEF TableUntil
<1>3. Set!Nil \in Set!Links
  BY EmptySeq DEF Set!Nil, Set!Links
<1> HIDE DEF k
<1>4. Set!EraseResult(t, k, 0, Set!Nil, result)
  BY <1>1, <1>2, <1>3, GreatestFirst, Set!EraseResults
<1> HIDE DEF result
<1>5. /\ result.root \in Set!Trees
      /\ Set!Ordered(result.root) /\ Set!Balanced(result.root)
      /\ Set!Values(result.root) = {u \in Set!Values(t) : u # k}
  BY <1>1, <1>4 DEF Set!EraseResult, Set!Erasures, OS_SET!Timestamp
<1>6. Set!Values(result.root) = {pages[b] : b \in DOMAIN pages \ {a}}
  BY <1>1, <1>2, <1>5 DEF k
<1>7. SetHolds(Set!Insert(result.root, number, 0, FALSE).root, UsedAt(pages, a, number))
  BY <1>5, <1>6, NumberInserted
<1> QED
  BY <1>7 DEF result, k

LEMMA SetAfterNewPage ==
    ASSUME NEW number \in Nat, NEW pages, TableUntil(pages, number),
           NEW t, SetHolds(t, pages), NEW a, a \notin DOMAIN pages
    PROVE  SetHolds(Set!Insert(t, number, 0, FALSE).root, UsedAt(pages, a, number))
<1>1. /\ t \in Set!Trees /\ Set!Ordered(t) /\ Set!Balanced(t)
      /\ Set!Values(t) = {pages[b] : b \in DOMAIN pages}
  BY DEF SetHolds
<1>2. DOMAIN pages \ {a} = DOMAIN pages
  OBVIOUS
<1> QED
  BY <1>1, <1>2, NumberInserted

-----------------------------------------------------------------------------
(* The simulators                                                          *)

\* A success function, indexed from 0.
IsReport(success) == success # <<>> => \E n \in Nat : DOMAIN success = 0..n

\* The invariant of the two simulators: each tree tells the story of its page
\* table, and the rest of their states is the same.
SimInv ==
    /\ QueueInv(tree_number, tree_pages, tree_hits)
    /\ TreeHolds(tree_queue, tree_pages)
    /\ SetHolds(set_queue, set_pages)
    /\ IsReport(tree_success)
    /\ set_number = tree_number
    /\ set_pages = tree_pages
    /\ set_hits = tree_hits
    /\ set_success = tree_success

LEMMA SimInit == Init => SimInv
<1> SUFFICES ASSUME Init PROVE SimInv
  OBVIOUS
<1>1. /\ tree_number = 1 /\ tree_pages = <<>> /\ tree_hits = <<>> /\ tree_success = <<>>
      /\ tree_queue = Ost!Nil
  BY TreeHasContents DEF Init, OS_TREE!Init
<1>2. /\ set_number = 1 /\ set_pages = <<>> /\ set_hits = <<>> /\ set_success = <<>>
      /\ set_queue = Set!Nil
  BY SetHasTrees DEF Init, OS_SET!Init
<1>3. TreeHolds(tree_queue, tree_pages)
  <2>1. Ost!Values(Ost!Nil) = {} /\ Ost!Nil \in Ost!Trees /\ Ost!Ordered(Ost!Nil)
    BY Ost!ContentOfNil, Ost!NilProperties, Ost!NilIsOrdered
  <2>2. DOMAIN tree_pages = {}
    BY <1>1
  <2>3. {EntryOf(tree_pages, a) : a \in DOMAIN tree_pages} = {}
    BY <2>2
  <2> QED
    BY <1>1, <2>1, <2>2, <2>3 DEF TreeHolds
<1>4. SetHolds(set_queue, set_pages)
  <2>1. Set!Values(Set!Nil) = {} /\ Set!Nil \in Set!Trees /\ Set!Ordered(Set!Nil) /\ Set!Balanced(Set!Nil)
    BY Set!ContentOfNil, Set!NilProperties, Set!NilIsOrdered
  <2>2. {set_pages[a] : a \in DOMAIN set_pages} = {}
    BY <1>2
  <2> QED
    BY <1>2, <2>1, <2>2 DEF SetHolds
<1>5. QueueInv(tree_number, tree_pages, tree_hits)
  BY <1>1, EmptyTable
<1> QED
  BY <1>1, <1>2, <1>3, <1>4, <1>5 DEF SimInv, IsReport

\* An access of OSTCacheSim is one of the queue, and keeps its tree true.
LEMMA TreeStep ==
    ASSUME SimInv, NEW addr \in Addr, OS_TREE!MemoryAccess(addr)
    PROVE  TreeAccess(addr) /\ TreeHolds(tree_queue', tree_pages')
<1>1. /\ tree_number \in Nat /\ TableUntil(tree_pages, tree_number)
      /\ TreeHolds(tree_queue, tree_pages)
  BY DEF SimInv, QueueInv
<1>2. CASE OS_TREE!Hit(addr)
  <2> DEFINE r == UsedSince(tree_pages, addr)
  <2>1. /\ tree_number <= MaxAccesses /\ tree_number' = tree_number + 1
        /\ addr \in DOMAIN tree_pages
        /\ tree_pages' = [tree_pages EXCEPT ![addr] = tree_number]
        /\ tree_hits' = [tree_hits EXCEPT ![OS_TREE!Find(tree_queue, tree_pages[addr]).rank] = @ + 1]
        /\ tree_queue' = OS_TREE!MoveFront(tree_pages[addr], tree_number)
        /\ tree_success' = tree_success
    BY <1>2 DEF OS_TREE!Hit
  <2>2. OS_TREE!Find(tree_queue, tree_pages[addr]) = Ost!Found(r, addr)
    BY <1>1, <2>1, PageInTree, TreeHasOperations
  <2>3. Ost!Found(r, addr).rank = r /\ Ost!Found(r, addr).value = addr
    BY DEF Ost!Found
  <2>4. tree_pages' = UsedAt(tree_pages, addr, tree_number)
    BY <2>1, ChangedTable
  <2>5. tree_hits' = HitsWith(tree_pages, tree_hits, addr)
    BY <2>1, <2>2, <2>3, Zenon DEF HitsWith
  <2>6. tree_queue' = Ost!Insert(Ost!Remove(tree_queue, r).tree, tree_number, addr)
    BY <2>1, <2>2, <2>3, TreeHasOperations, Zenon DEF OS_TREE!MoveFront
  <2>7. TreeHolds(tree_queue', tree_pages')
    <3>1. TreeHolds(Ost!Insert(Ost!Remove(tree_queue, r).tree, tree_number, addr),
                    UsedAt(tree_pages, addr, tree_number))
      BY <1>1, <2>1, TreeAfterHit
    <3> QED
      BY <2>4, <2>6, <3>1, Zenon
  <2> QED
    BY <2>1, <2>4, <2>5, <2>7 DEF TreeAccess
<1>3. CASE OS_TREE!NewPage(addr)
  <2>1. /\ tree_number <= MaxAccesses /\ tree_number' = tree_number + 1
        /\ addr \notin DOMAIN tree_pages
        /\ tree_pages' = [a \in DOMAIN tree_pages \cup {addr} |->
                             IF a = addr THEN tree_number ELSE tree_pages[a]]
        /\ tree_hits' = OS_TREE!RoomForRank(tree_hits)
        /\ tree_queue' = OS_TREE!Insert(tree_queue, tree_number, addr)
        /\ tree_success' = tree_success
    BY <1>3 DEF OS_TREE!NewPage
  <2>2. tree_pages' = UsedAt(tree_pages, addr, tree_number)
    BY <2>1 DEF UsedAt
  <2>3. tree_hits' = HitsWith(tree_pages, tree_hits, addr)
    BY <2>1, SimulatorsHaveHits, Zenon DEF HitsWith
  <2>4. tree_queue' = Ost!Insert(tree_queue, tree_number, addr)
    BY <2>1, TreeHasOperations
  <2>5. TreeHolds(tree_queue', tree_pages')
    <3>1. TreeHolds(Ost!Insert(tree_queue, tree_number, addr), UsedAt(tree_pages, addr, tree_number))
      BY <1>1, <2>1, TreeAfterNewPage
    <3> QED
      BY <2>2, <2>4, <3>1, Zenon
  <2> QED
    BY <2>1, <2>2, <2>3, <2>5 DEF TreeAccess
<1> QED
  BY <1>2, <1>3 DEF OS_TREE!MemoryAccess

\* The same of ContainerCacheSim.
LEMMA SetStep ==
    ASSUME SimInv, NEW addr \in Addr, OS_SET!MemoryAccess(addr)
    PROVE  SetAccess(addr) /\ SetHolds(set_queue', set_pages')
<1>1. /\ set_number \in Nat /\ TableUntil(set_pages, set_number)
      /\ SetHolds(set_queue, set_pages)
  BY DEF SimInv, QueueInv
<1>2. CASE OS_SET!Hit(addr)
  <2> DEFINE r == UsedSince(set_pages, addr)
             k == set_pages[addr]
             moved == OS_SET!MoveFront(set_pages[addr], set_number)
  <2>1. /\ set_number <= MaxAccesses /\ set_number' = set_number + 1
        /\ addr \in DOMAIN set_pages
        /\ set_pages' = [set_pages EXCEPT ![addr] = set_number]
        /\ set_hits' = [set_hits EXCEPT ![moved.rank] = @ + 1]
        /\ set_queue' = moved.queue
        /\ set_success' = set_success
    BY <1>2 DEF OS_SET!Hit
  <2>2. OS_SET!Find(set_queue, k) = Set!Position(r, <<k>>)
    BY <1>1, <2>1, NumberInSet, SetHasQueries
  <2>3. Set!Position(r, <<k>>).idx = r /\ Set!Position(r, <<k>>).node = <<k>> /\ <<k>>[1] = k
    BY DEF Set!Position
  <2>4. moved = [rank |-> r,
                 queue |-> Set!Insert(Set!Erase(set_queue, k, 0, Set!Nil).root, set_number, 0, FALSE).root]
    BY <2>2, <2>3, SetHasTrees, SetHasInsert, SetHasErase, Zenon DEF OS_SET!MoveFront
  <2> HIDE DEF moved
  <2>5. moved.rank = r /\ moved.queue =
           Set!Insert(Set!Erase(set_queue, k, 0, Set!Nil).root, set_number, 0, FALSE).root
    BY <2>4
  <2>6. set_pages' = UsedAt(set_pages, addr, set_number)
    BY <2>1, ChangedTable
  <2>7. set_hits' = HitsWith(set_pages, set_hits, addr)
    BY <2>1, <2>5, Zenon DEF HitsWith
  <2>8. SetHolds(set_queue', set_pages')
    <3>1. SetHolds(Set!Insert(Set!Erase(set_queue, k, 0, Set!Nil).root, set_number, 0, FALSE).root,
                   UsedAt(set_pages, addr, set_number))
      BY <1>1, <2>1, SetAfterHit
    <3> QED
      BY <2>1, <2>5, <2>6, <3>1, Zenon
  <2> QED
    BY <2>1, <2>6, <2>7, <2>8 DEF SetAccess
<1>3. CASE OS_SET!NewPage(addr)
  <2>1. /\ set_number <= MaxAccesses /\ set_number' = set_number + 1
        /\ addr \notin DOMAIN set_pages
        /\ set_pages' = [a \in DOMAIN set_pages \cup {addr} |->
                             IF a = addr THEN set_number ELSE set_pages[a]]
        /\ set_hits' = OS_SET!RoomForRank(set_hits)
        /\ set_queue' = OS_SET!Insert(set_queue, set_number, 0, FALSE).root
        /\ set_success' = set_success
    BY <1>3 DEF OS_SET!NewPage
  <2>2. set_pages' = UsedAt(set_pages, addr, set_number)
    BY <2>1 DEF UsedAt
  <2>3. set_hits' = HitsWith(set_pages, set_hits, addr)
    BY <2>1, SimulatorsHaveHits, Zenon DEF HitsWith
  <2>4. set_queue' = Set!Insert(set_queue, set_number, 0, FALSE).root
    BY <2>1, SetHasInsert
  <2>5. SetHolds(set_queue', set_pages')
    <3>1. SetHolds(Set!Insert(set_queue, set_number, 0, FALSE).root, UsedAt(set_pages, addr, set_number))
      BY <1>1, <2>1, SetAfterNewPage
    <3> QED
      BY <2>2, <2>4, <3>1, Zenon
  <2> QED
    BY <2>1, <2>2, <2>3, <2>5 DEF SetAccess
<1> QED
  BY <1>2, <1>3 DEF OS_SET!MemoryAccess

\* Reports are reports of the queue.
LEMMA ReportStep ==
    ASSUME SimInv, GetSuccessFunction
    PROVE  /\ OS_TREE!Queue!GetSuccessFunction /\ OS_SET!Queue!GetSuccessFunction
           /\ tree_queue' = tree_queue /\ set_queue' = set_queue
           /\ IsReport(tree_success')
<1>1. /\ tree_success' = SuccessFunction(tree_hits)
      /\ tree_number' = tree_number /\ tree_pages' = tree_pages /\ tree_hits' = tree_hits
      /\ tree_queue' = tree_queue
  BY SimulatorsHaveHits DEF GetSuccessFunction, OS_TREE!GetSuccessFunction
<1>2. /\ set_success' = SuccessFunction(set_hits)
      /\ set_number' = set_number /\ set_pages' = set_pages /\ set_hits' = set_hits
      /\ set_queue' = set_queue
  BY SimulatorsHaveHits DEF GetSuccessFunction, OS_SET!GetSuccessFunction
<1>3. IsReport(tree_success')
  <2> DEFINE n == Cardinality(DOMAIN tree_pages)
  <2>1. n \in Nat /\ DOMAIN tree_hits = 0..(n - 1) /\ Cardinality(0..(n - 1)) = n
    BY SizeOfRanks DEF SimInv, QueueInv, Hits
  <2>2. DOMAIN SuccessFunction(tree_hits) = 0..n
    BY <2>1 DEF SuccessFunction
  <2> QED
    BY <1>1, <2>1, <2>2 DEF IsReport
<1> QED
  BY <1>1, <1>2, <1>3, QueueReport

LEMMA SimNext == SimInv /\ [Next]_vars => SimInv'
<1> SUFFICES ASSUME SimInv, [Next]_vars PROVE SimInv'
  OBVIOUS
<1>1. ASSUME NEW addr \in Addr, MemoryAccess(addr) PROVE SimInv'
  <2>1. TreeAccess(addr) /\ TreeHolds(tree_queue', tree_pages')
    BY <1>1, TreeStep DEF MemoryAccess
  <2>2. SetAccess(addr) /\ SetHolds(set_queue', set_pages')
    BY <1>1, SetStep DEF MemoryAccess
  <2>3. QueueInv(tree_number', tree_pages', tree_hits')
    BY <2>1, AccessResult DEF TreeAccess, SimInv
  <2> QED
    BY <2>1, <2>2, <2>3 DEF TreeAccess, SetAccess, SimInv
<1>2. CASE GetSuccessFunction
  BY <1>2, ReportStep, QueueReport DEF SimInv
<1>3. CASE UNCHANGED vars
  BY <1>3 DEF vars, tree_vars, set_vars, SimInv
<1> QED
  BY <1>1, <1>2, <1>3 DEF Next

LEMMA SimInvHolds == Spec => []SimInv
<1> QED
  BY SimInit, SimNext, PTL DEF Spec

-----------------------------------------------------------------------------
(* What the simulators promise                                             *)

LEMMA TreeStoryHolds == SimInv => TreeMatchesPageTable
<1> SUFFICES ASSUME SimInv PROVE TreeMatchesPageTable
  OBVIOUS
<1>1. /\ tree_number \in Nat /\ TableUntil(tree_pages, tree_number)
      /\ TreeHolds(tree_queue, tree_pages)
      /\ DOMAIN tree_hits = 0..(Cardinality(DOMAIN tree_pages) - 1)
  BY DEF SimInv, QueueInv, Hits
<1>2. OS_TREE!IsSearchTree(tree_queue)
  BY <1>1, Ost!OrderedIsSearchTree, TreeHasContents DEF TreeHolds
<1>3. OS_TREE!Values(tree_queue) = {[ts |-> tree_pages[a], value |-> a] : a \in DOMAIN tree_pages}
  BY <1>1, TreeHasContents DEF TreeHolds, EntryOf
<1>4. ASSUME NEW a \in DOMAIN tree_pages
      PROVE  /\ tree_pages[a] < tree_number
             /\ OS_TREE!Find(tree_queue, tree_pages[a]).rank \in DOMAIN tree_hits
  <2>1. OS_TREE!Find(tree_queue, tree_pages[a]) = Ost!Found(UsedSince(tree_pages, a), a)
    BY <1>1, PageInTree, TreeHasOperations
  <2>2. OS_TREE!Find(tree_queue, tree_pages[a]).rank = UsedSince(tree_pages, a)
    BY <2>1 DEF Ost!Found
  <2>3. UsedSince(tree_pages, a) \in DOMAIN tree_hits
    BY <1>1, UsedSinceNumbersPages
  <2> QED
    BY <1>1, <2>2, <2>3 DEF TableUntil
<1> QED
  BY <1>2, <1>3, <1>4, Zenon DEF TreeMatchesPageTable, OS_TREE!QueueMatchesPageTable

\* OSTCacheSim, on whatever trace: its tree is a search tree of right weights
\* with one entry for each page of the page table, and a hit finds its rank in
\* page_hits (ost_cache_sim.cc).
THEOREM TreeMatchesPageTableAlways == Spec => []TreeMatchesPageTable
<1> QED
  BY SimInvHolds, TreeStoryHolds, PTL

LEMMA SetStoryHolds == SimInv => SetMatchesPageTable
<1> SUFFICES ASSUME SimInv PROVE SetMatchesPageTable
  OBVIOUS
<1>1. /\ set_number \in Nat /\ TableUntil(set_pages, set_number)
      /\ SetHolds(set_queue, set_pages)
      /\ DOMAIN set_hits = 0..(Cardinality(DOMAIN set_pages) - 1)
  BY DEF SimInv, QueueInv, Hits
<1>2. /\ set_queue \in Set!Trees /\ Set!Ordered(set_queue) /\ Set!Balanced(set_queue)
      /\ Set!Values(set_queue) = {set_pages[a] : a \in DOMAIN set_pages}
  BY <1>1 DEF SetHolds
<1>3. OS_SET!IsSearchTree(set_queue)
  BY <1>2, GreatestFirst, Set!OrderedIsSearchTree, SetHasContents
<1>4. \A n \in OS_SET!Nodes(set_queue) : OS_SET!IsInBalance(n)
  BY <1>2, SetHasContents, SetHasBalance DEF Set!Balanced
<1>5. OS_SET!Keys(set_queue) = OS_SET!Range(set_pages)
  <2>1. Set!Keys(set_queue) = {OS_SET!Timestamp(v) : v \in Set!Values(set_queue)}
    BY <1>2, Set!ContentProperties
  <2> QED
    BY <1>2, <2>1, SetHasContents DEF OS_SET!Timestamp, OS_SET!Range
<1>6. OS_SET!Size(set_queue) = OS_SET!Cardinality(DOMAIN set_pages)
  <2> DEFINE D == DOMAIN set_pages
             V == Set!Values(set_queue)
  <2>1. Set!Cardinality(V) = Set!Size(set_queue)
    BY <1>2, GreatestFirst, Set!SizeCounts
  <2>2. set_pages \in [D -> V]
    BY <1>1, <1>2 DEF TableUntil
  <2>3. /\ IsFiniteSet(D)
        /\ \A x, y \in D : set_pages[x] = set_pages[y] => x = y
        /\ \A z \in V : \E x \in D : set_pages[x] = z
    BY <1>1, <1>2 DEF TableUntil
  <2> HIDE DEF D, V
  <2>4. Cardinality(V) = Cardinality(D)
    BY <2>2, <2>3, SameNumber
  <2>5. Set!Cardinality(V) = Cardinality(V) /\ OS_SET!Cardinality(D) = Cardinality(D)
    BY DEF Set!Cardinality, OS_SET!Cardinality, Cardinality
  <2> QED
    BY <2>1, <2>4, <2>5, SetHasTrees DEF D
<1>7. ASSUME NEW a \in DOMAIN set_pages
      PROVE  /\ set_pages[a] < set_number
             /\ OS_SET!Find(set_queue, set_pages[a]).idx \in DOMAIN set_hits
  <2>1. OS_SET!Find(set_queue, set_pages[a]) = Set!Position(UsedSince(set_pages, a), <<set_pages[a]>>)
    BY <1>1, NumberInSet, SetHasQueries
  <2>2. OS_SET!Find(set_queue, set_pages[a]).idx = UsedSince(set_pages, a)
    BY <2>1 DEF Set!Position
  <2>3. UsedSince(set_pages, a) \in DOMAIN set_hits
    BY <1>1, UsedSinceNumbersPages
  <2> QED
    BY <1>1, <2>2, <2>3 DEF TableUntil
<1> QED
  BY <1>3, <1>4, <1>5, <1>6, <1>7, Zenon DEF SetMatchesPageTable, OS_SET!QueueMatchesPageTable

\* ContainerCacheSim, on whatever trace: its set is a search tree in balance, of
\* the timestamps of the page table, and a hit finds its rank in page_hits
\* (container_cache_sim.cc).
THEOREM SetMatchesPageTableAlways == Spec => []SetMatchesPageTable
<1> QED
  BY SimInvHolds, SetStoryHolds, PTL

\* A report equals itself.
LEMMA ReportsAgree == SimInv => SimulatorsAgree
<1> SUFFICES ASSUME SimInv, tree_success # <<>> PROVE SameSuccess(tree_success, tree_success)
  BY DEF SimInv, SimulatorsAgree
<1>1. PICK n \in Nat : DOMAIN tree_success = 0..n
  BY DEF SimInv, IsReport
<1>2. Cardinality(0..n) = n + 1
  <2>1. 0 \in Int /\ n \in Int
    OBVIOUS
  <2>2. Cardinality(0..n) = IF 0 > n THEN 0 ELSE n - 0 + 1
    BY <2>1, FS_Interval, Zenon
  <2> QED
    BY <2>2
<1> DEFINE sizes == {Cardinality(DOMAIN tree_success), Cardinality(DOMAIN tree_success)}
           common == CHOOSE k \in sizes : \A m \in sizes : k <= m
<1>3. sizes = {n + 1}
  BY <1>1, <1>2
<1> HIDE DEF sizes
<1>4. common = n + 1
  BY <1>3
<1> HIDE DEF common
<1>5. /\ common > 0
      /\ \A x \in DOMAIN tree_success : x >= common => tree_success[x] = tree_success[common - 1]
  BY <1>1, <1>4
<1> QED
  BY <1>5, Zenon DEF SameSuccess, sizes, common

\* Whenever they are asked, the two simulators give the same answer: the tree
\* that is rebuilt and the tree that rotates, ranks from the one end and ranks
\* from the other (SimResult::operator==, simulation.cc).
THEOREM SimulatorsAgreeAlways == Spec => []SimulatorsAgree
<1> QED
  BY SimInvHolds, ReportsAgree, PTL

\* Find, remove and insert by rank do what an access does to the queue
\* (ost_cache_sim.cc): the tree implements it.
THEOREM TreeIsQueue == Spec => TreeImplementsQueue
<1>1. Init => OS_TREE!Queue!Init
  BY DEF Init, OS_TREE!Init, OS_TREE!Queue!Init
<1>2. SimInv /\ [Next]_vars => [OS_TREE!Queue!Next]_(OS_TREE!Queue!vars)
  <2> SUFFICES ASSUME SimInv, [Next]_vars PROVE [OS_TREE!Queue!Next]_(OS_TREE!Queue!vars)
    OBVIOUS
  <2>1. ASSUME NEW addr \in Addr, MemoryAccess(addr) PROVE OS_TREE!Queue!MemoryAccess(addr)
    BY <2>1, TreeStep, QueueAccess DEF MemoryAccess
  <2>2. CASE GetSuccessFunction
    BY <2>2, ReportStep DEF OS_TREE!Queue!Next
  <2>3. CASE UNCHANGED vars
    BY <2>3 DEF vars, tree_vars, set_vars, OS_TREE!Queue!vars
  <2> QED
    BY <2>1, <2>2, <2>3 DEF Next, OS_TREE!Queue!Next
<1> QED
  BY <1>1, <1>2, SimInvHolds, PTL DEF Spec, TreeImplementsQueue, OS_TREE!ImplementsQueue, OS_TREE!Queue!Spec

\* The rank of an iterator, erase and insert do what an access does to the queue
\* (container_cache_sim.cc): the set implements it.
THEOREM SetIsQueue == Spec => SetImplementsQueue
<1>1. Init => OS_SET!Queue!Init
  BY DEF Init, OS_SET!Init, OS_SET!Queue!Init
<1>2. SimInv /\ [Next]_vars => [OS_SET!Queue!Next]_(OS_SET!Queue!vars)
  <2> SUFFICES ASSUME SimInv, [Next]_vars PROVE [OS_SET!Queue!Next]_(OS_SET!Queue!vars)
    OBVIOUS
  <2>1. ASSUME NEW addr \in Addr, MemoryAccess(addr) PROVE OS_SET!Queue!MemoryAccess(addr)
    BY <2>1, SetStep, QueueAccess DEF MemoryAccess
  <2>2. CASE GetSuccessFunction
    BY <2>2, ReportStep DEF OS_SET!Queue!Next
  <2>3. CASE UNCHANGED vars
    BY <2>3 DEF vars, tree_vars, set_vars, OS_SET!Queue!vars
  <2> QED
    BY <2>1, <2>2, <2>3 DEF Next, OS_SET!Queue!Next
<1> QED
  BY <1>1, <1>2, SimInvHolds, PTL DEF Spec, SetImplementsQueue, OS_SET!ImplementsQueue, OS_SET!Queue!Spec

\* The simulators tell what LRU caches of all sizes would have hit: their tree
\* is the queue, and the queue is these caches.
THEOREM SimulatorsAreLRU == Spec => ImplementsLRU
<1>1. Spec => OS_TREE!Queue!Spec
  BY TreeIsQueue DEF TreeImplementsQueue, OS_TREE!ImplementsQueue
<1> QED
  BY <1>1, QueueIsLRUOfAllSizes DEF ImplementsLRU

\* The misses of a report of the queue.
LEMMA MissesOfReport ==
    ASSUME NEW number, NEW pages, NEW hits, QueueInv(number, pages, hits)
    PROVE  Misses(number, SuccessFunction(hits)) = Cardinality(DOMAIN pages)
<1> DEFINE n == Cardinality(DOMAIN pages)
<1>1. Hits(hits, n) /\ n \in Nat /\ number \in Nat /\ number - 1 = SumFunction(hits) + n
  BY DEF QueueInv, Hits
<1> HIDE DEF n
<1>2. Misses(number, SuccessFunction(hits)) = number - 1 - SumFunction(hits)
  BY <1>1, SuccessIsHits
<1>3. SumFunction(hits) \in Int
  BY <1>1, RoomHasNoHit
<1> QED
  BY <1>1, <1>2, <1>3 DEF n

\* The misses that dump_success_function prints are first accesses, one per
\* page, whatever the order of accesses (cache_sim.h).
THEOREM MissesPrintedAreForced == Spec => MissesAreForced
<1> DEFINE T == OS_TREE!Queue!GetSuccessFunction =>
                   OS_TREE!Queue!Misses(tree_number, tree_success') = OS_TREE!Queue!Cardinality(DOMAIN tree_pages)
           S == OS_SET!Queue!GetSuccessFunction =>
                   OS_SET!Queue!Misses(set_number, set_success') = OS_SET!Queue!Cardinality(DOMAIN set_pages)
<1>1. SimInv => T
  BY MissesOfReport, QueueReport, QueuesHavePages DEF SimInv
<1>2. SimInv => S
  BY MissesOfReport, QueueReport, QueuesHavePages DEF SimInv
<1>3. SimInv /\ [Next]_vars => [T]_(OS_TREE!Queue!vars) /\ [S]_(OS_SET!Queue!vars)
  BY <1>1, <1>2
<1>4. Spec => [][T]_(OS_TREE!Queue!vars) /\ [][S]_(OS_SET!Queue!vars)
  <2> HIDE DEF T, S
  <2> QED
    BY <1>3, SimInvHolds, PTL DEF Spec
<1> QED
  BY <1>4 DEF MissesAreForced, OS_TREE!Queue!MissesAreForced, OS_SET!Queue!MissesAreForced

-----------------------------------------------------------------------------
(* LRU caches, of themselves.  LRU is a stack algorithm, and so success    *)
(* functions never decrease.  Inclusion alone is not inductive: where an   *)
(* address lies in a cache is a CHOOSE, which gives the same place in two  *)
(* caches because no cache holds an address twice.                         *)

VARIABLES
    cache,       \* the variables of LRUCaches
    cache_hits,
    reported

Caches == INSTANCE LRUCaches WITH hits <- cache_hits, success <- reported

\* The content of an LRU cache of x pages.
Content(c, x) ==
    /\ c \in Seq(Addr)
    /\ Len(c) <= x
    /\ \A i, j \in 1..Len(c) : c[i] = c[j] => i = j

\* One cache begins like another one, and is the same unless it is full.
Included(c, d, x) ==
    /\ Len(c) <= Len(d)
    /\ \A i \in 1..Len(c) : c[i] = d[i]
    /\ Len(c) < x => Len(d) = Len(c)

CachesInv ==
    /\ \A x \in Caches!Sizes : Content(cache[x], x)
    /\ Caches!Inclusion
    /\ \A x \in Caches!Sizes : cache_hits[x] \in Nat /\ reported[x] \in Nat
    /\ Caches!LargerCachesHitMore

\* The place that the address displaces in a cache.
Displaced(c, addr, size, p) ==
    /\ p \in 1..size
    /\ IF Caches!Holds(c, addr) THEN p \in 1..Len(c) /\ c[p] = addr
       ELSE p = IF Len(c) = size THEN size ELSE Len(c) + 1

Longer(c, p) == IF p > Len(c) THEN p ELSE Len(c)

-----------------------------------------------------------------------------
\* What an access makes of a cache, by the place that its address displaces.
Displaces(t, c, addr, x, p) ==
    /\ Displaced(c, addr, x, p)
    /\ t \in Seq(Addr)
    /\ Len(t) = Longer(c, p)
    /\ \A i \in 1..Longer(c, p) :
           t[i] = IF i = 1 THEN addr ELSE IF i <= p THEN c[i - 1] ELSE c[i]

\* What Touch does, without CHOOSE.
LEMMA TouchDisplaces ==
    ASSUME NEW x \in Nat \ {0}, NEW c, Content(c, x), NEW addr \in Addr
    PROVE  \E p \in 1..x : Displaces(Caches!Touch(c, addr, x), c, addr, x, p)
<1> DEFINE p == IF Caches!Holds(c, addr)
                THEN CHOOSE i \in 1..Len(c) : c[i] = addr
                ELSE IF Len(c) = x THEN x ELSE Len(c) + 1
           n == Longer(c, p)
           t == [i \in 1..n |-> IF i = 1 THEN addr
                                ELSE IF i <= p THEN c[i - 1] ELSE c[i]]
<1>1. Len(c) \in Nat /\ Len(c) <= x /\ \A i \in 1..Len(c) : c[i] \in Addr
  BY LenProperties DEF Content
<1>2. Displaced(c, addr, x, p)
  <2>1. CASE Caches!Holds(c, addr)
    <3>1. \E i \in 1..Len(c) : c[i] = addr
      BY <2>1 DEF Caches!Holds
    <3> DEFINE q == CHOOSE i \in 1..Len(c) : c[i] = addr
    <3>2. q \in 1..Len(c) /\ c[q] = addr
      BY <3>1
    <3>3. p = q
      BY <2>1
    <3> HIDE DEF p, q
    <3> QED
      BY <1>1, <2>1, <3>2, <3>3 DEF Displaced
  <2>2. CASE ~Caches!Holds(c, addr)
    BY <1>1, <2>2 DEF Displaced
  <2> QED
    BY <2>1, <2>2
<1>3. Caches!Touch(c, addr, x) = t
  BY DEF Caches!Touch, Longer
<1> HIDE DEF p
<1>4. p \in 1..x /\ p <= Len(c) + 1
  BY <1>1, <1>2 DEF Displaced
<1>5. n \in Nat /\ n >= Len(c)
  BY <1>1, <1>4 DEF Longer
<1>6. t \in [1..n -> Addr]
  <2> SUFFICES ASSUME NEW i \in 1..n
               PROVE  (IF i = 1 THEN addr ELSE IF i <= p THEN c[i - 1] ELSE c[i]) \in Addr
    OBVIOUS
  <2>1. CASE i # 1 /\ i <= p
    <3>1. i - 1 \in 1..Len(c)
      BY <1>1, <1>4, <1>5, <2>1
    <3> QED
      BY <1>1, <2>1, <3>1
  <2>2. CASE i # 1 /\ ~(i <= p)
    <3>1. i \in 1..Len(c)
      BY <1>1, <1>4, <1>5, <2>2 DEF Longer
    <3> QED
      BY <1>1, <2>2, <3>1
  <2> QED
    BY <2>1, <2>2
<1>7. t \in Seq(Addr) /\ Len(t) = n
  <2> HIDE DEF t, n
  <2>1. t \in Seq(Addr)
    BY <1>5, <1>6
  <2> QED
    BY <1>5, <1>6, <2>1, LenProperties
<1>8. \A i \in 1..n : t[i] = IF i = 1 THEN addr ELSE IF i <= p THEN c[i - 1] ELSE c[i]
  <2> HIDE DEF n
  <2> QED
    OBVIOUS
<1> HIDE DEF t
<1>9. Displaces(t, c, addr, x, p)
  BY <1>2, <1>7, <1>8 DEF Displaces
<1> QED
  BY <1>3, <1>4, <1>9

\* A cache never holds an address twice, nor more than its size.
LEMMA TouchContent ==
    ASSUME NEW x \in Nat \ {0}, NEW c, Content(c, x), NEW addr \in Addr
    PROVE  Content(Caches!Touch(c, addr, x), x)
<1> DEFINE t == Caches!Touch(c, addr, x)
<1>0. PICK p \in 1..x : Displaces(t, c, addr, x, p)
  BY TouchDisplaces
<1>1. /\ Displaced(c, addr, x, p)
      /\ t \in Seq(Addr)
      /\ Len(t) = Longer(c, p)
      /\ \A i \in 1..Longer(c, p) :
             t[i] = IF i = 1 THEN addr ELSE IF i <= p THEN c[i - 1] ELSE c[i]
      /\ p \in 1..x
  BY <1>0 DEF Displaces
<1>2. Len(c) \in Nat /\ Len(c) <= x /\ p <= Len(c) + 1
  BY <1>1, LenProperties DEF Content, Displaced
<1> HIDE DEF t
<1>3. Len(t) \in Nat /\ Len(t) <= x
  BY <1>1, <1>2 DEF Longer
<1>4. \A i \in 1..Len(c) : i # p => c[i] # addr
  BY <1>1 DEF Displaced, Caches!Holds, Content
<1>5. ASSUME NEW i \in 1..Len(t), NEW j \in 1..Len(t), i < j
      PROVE  t[i] # t[j]
  <2> DEFINE from(k) == IF k <= p THEN k - 1 ELSE k
  <2>1. \A k \in 1..Len(t) : k # 1 =>
            from(k) \in 1..Len(c) /\ from(k) # p /\ t[k] = c[from(k)]
    BY <1>1, <1>2 DEF Longer
  <2>2. t[1] = addr
    BY <1>1, <1>3
  <2>3. CASE i = 1
    BY <1>4, <1>5, <2>1, <2>2, <2>3
  <2>4. CASE i # 1
    <3>1. from(i) # from(j) /\ j # 1
      BY <1>5, <1>3
    <3> HIDE DEF from
    <3> QED
      BY <2>1, <2>4, <3>1 DEF Content
  <2> QED
    BY <2>3, <2>4
<1> QED
  <2>1. \A i, j \in 1..Len(t) : i # j => i < j \/ j < i
    BY <1>3
  <2> QED
    BY <1>1, <1>3, <1>5, <2>1 DEF Content, t

\* An access keeps the caches included in each other.
LEMMA TouchIncluded ==
    ASSUME NEW x \in Nat \ {0}, NEW y \in Nat, x <= y,
           NEW c, Content(c, x), NEW d, Content(d, y),
           Included(c, d, x), NEW addr \in Addr
    PROVE  Included(Caches!Touch(c, addr, x), Caches!Touch(d, addr, y), x)
<1> DEFINE t == Caches!Touch(c, addr, x)
           u == Caches!Touch(d, addr, y)
<1>01. PICK p \in 1..x : Displaces(t, c, addr, x, p)
  BY TouchDisplaces
<1>02. PICK q \in 1..y : Displaces(u, d, addr, y, q)
  <2>1. y \in Nat \ {0}
    OBVIOUS
  <2> QED
    BY <2>1, TouchDisplaces
<1>1. /\ p \in 1..x /\ Displaced(c, addr, x, p)
      /\ Len(t) = Longer(c, p)
      /\ \A i \in 1..Longer(c, p) :
             t[i] = IF i = 1 THEN addr ELSE IF i <= p THEN c[i - 1] ELSE c[i]
  BY <1>01 DEF Displaces
<1>2. /\ q \in 1..y /\ Displaced(d, addr, y, q)
      /\ Len(u) = Longer(d, q)
      /\ \A i \in 1..Longer(d, q) :
             u[i] = IF i = 1 THEN addr ELSE IF i <= q THEN d[i - 1] ELSE d[i]
  BY <1>02 DEF Displaces
<1> HIDE DEF t, u
<1>3. /\ Len(c) \in Nat /\ Len(c) <= x /\ Len(d) \in Nat /\ Len(d) <= y
      /\ Len(c) <= Len(d) /\ (Len(c) < x => Len(d) = Len(c))
      /\ \A i \in 1..Len(c) : c[i] = d[i]
  BY LenProperties DEF Content, Included
<1>4. CASE Caches!Holds(c, addr)
  <2>1. Caches!Holds(d, addr)
    BY <1>3, <1>4 DEF Caches!Holds
  <2>2. p \in 1..Len(c) /\ c[p] = addr /\ q \in 1..Len(d) /\ d[q] = addr
    BY <1>1, <1>2, <1>4, <2>1 DEF Displaced
  <2>3. p = q
    BY <1>3, <2>2 DEF Content
  <2>4. Len(t) = Len(c) /\ Len(u) = Len(d)
    BY <1>1, <1>2, <1>3, <2>2 DEF Longer
  <2>5. \A i \in 1..Len(t) : t[i] = u[i]
    BY <1>1, <1>2, <1>3, <2>2, <2>3, <2>4, SMTT(30) DEF Longer
  <2> QED
    BY <1>3, <2>4, <2>5, SMTT(30) DEF Included, t, u
<1>5. CASE ~Caches!Holds(c, addr) /\ Len(c) = x
  <2>1. p = x /\ Len(t) = x
    BY <1>1, <1>3, <1>5 DEF Displaced, Longer
  <2>2. q >= x /\ Len(u) >= x
    <3>1. CASE Caches!Holds(d, addr)
      <4>1. q \in 1..Len(d) /\ d[q] = addr
        BY <1>2, <3>1 DEF Displaced
      <4>2. ~(q <= x)
        BY <1>3, <1>5, <4>1 DEF Caches!Holds
      <4> QED
        BY <1>2, <1>3, <4>1, <4>2 DEF Longer
    <3>2. CASE ~Caches!Holds(d, addr)
      BY <1>2, <1>3, <1>5, <3>2 DEF Displaced, Longer
    <3> QED
      BY <3>1, <3>2
  <2>3. ASSUME NEW i \in 1..x PROVE t[i] = u[i]
    <3>1. i \in 1..Longer(c, p) /\ i \in 1..Longer(d, q) /\ i <= p /\ i <= q
      BY <1>1, <1>2, <2>1, <2>2
    <3>2. i # 1 => c[i - 1] = d[i - 1]
      BY <1>3, <1>5
    <3> QED
      BY <1>1, <1>2, <3>1, <3>2
  <2>4. Len(u) \in Nat
    BY <1>2, <1>3 DEF Longer
  <2> QED
    BY <2>1, <2>2, <2>3, <2>4 DEF Included, t, u
<1>6. CASE ~Caches!Holds(c, addr) /\ Len(c) # x
  <2>1. Len(d) = Len(c) /\ Len(c) < x /\ Len(d) # y
    BY <1>3, <1>6
  <2>2. ~Caches!Holds(d, addr)
    BY <1>3, <1>6, <2>1 DEF Caches!Holds
  <2>3. p = Len(c) + 1 /\ q = Len(c) + 1
    BY <1>1, <1>2, <1>6, <2>1, <2>2 DEF Displaced
  <2>4. Longer(c, p) = Len(c) + 1 /\ Longer(d, q) = Len(c) + 1
    BY <1>3, <2>1, <2>3 DEF Longer
  <2>5. ASSUME NEW i \in 1..(Len(c) + 1) PROVE t[i] = u[i]
    <3>1. i # 1 => c[i - 1] = d[i - 1]
      BY <1>3
    <3> QED
      BY <1>1, <1>2, <2>3, <2>4, <3>1
  <2> QED
    BY <1>1, <1>2, <1>3, <2>4, <2>5 DEF Included, t, u
<1> QED
  BY <1>4, <1>5, <1>6

-----------------------------------------------------------------------------
\* The invariant of the caches holds at first,
LEMMA CachesInit == Caches!Init => CachesInv
BY EmptySeq DEF Caches!Init, CachesInv, Content, Caches!Inclusion, Caches!LargerCachesHitMore, Caches!Sizes

\* and every access keeps it.
LEMMA CachesStep == CachesInv /\ [Caches!Next]_Caches!lruVars => CachesInv'
<1> SUFFICES ASSUME CachesInv, [Caches!Next]_Caches!lruVars PROVE CachesInv'
  OBVIOUS
<1>1. \A x \in Caches!Sizes : x \in Nat \ {0}
  BY DEF Caches!Sizes
<1>2. ASSUME NEW addr \in Addr, Caches!Access(addr) PROVE CachesInv'
  <2>1. /\ \A x \in Caches!Sizes : cache'[x] = Caches!Touch(cache[x], addr, x)
        /\ \A x \in Caches!Sizes : cache_hits'[x] = cache_hits[x] + (IF Caches!Holds(cache[x], addr) THEN 1 ELSE 0)
        /\ reported' = reported
    BY <1>2 DEF Caches!Access
  <2>2. \A x \in Caches!Sizes : Content(cache'[x], x)
    BY <1>1, <2>1, TouchContent DEF CachesInv
  <2>3. ASSUME NEW x \in Caches!Sizes, NEW y \in Caches!Sizes, x <= y
        PROVE  /\ Included(cache[x], cache[y], x)
               /\ Included(cache'[x], cache'[y], x)
    <3>1. Included(cache[x], cache[y], x)
      BY <2>3 DEF CachesInv, Caches!Inclusion, Included
    <3>2. Content(cache[x], x) /\ Content(cache[y], y)
      BY DEF CachesInv
    <3> QED
      BY <1>1, <2>1, <2>3, <3>1, <3>2, TouchIncluded
  <2>4. Caches!Inclusion'
    BY <2>3 DEF Caches!Inclusion, Included
  <2>5. \A x \in Caches!Sizes : cache_hits'[x] \in Nat /\ reported'[x] \in Nat
    BY <2>1 DEF CachesInv
  <2>6. ASSUME NEW x \in Caches!Sizes, NEW y \in Caches!Sizes, x <= y
        PROVE  cache_hits'[x] <= cache_hits'[y] /\ reported'[x] <= reported'[y]
    <3>1. cache_hits[x] <= cache_hits[y] /\ reported[x] <= reported[y]
      BY <2>6 DEF CachesInv, Caches!LargerCachesHitMore
    <3>2. Len(cache[x]) \in Nat /\ Len(cache[y]) \in Nat
      BY LenProperties DEF CachesInv, Content
    <3>3. Caches!Holds(cache[x], addr) => Caches!Holds(cache[y], addr)
      BY <2>3, <2>6, <3>2 DEF Caches!Holds, Included
    <3> QED
      BY <2>1, <3>1, <3>3 DEF CachesInv
  <2>7. Caches!LargerCachesHitMore'
    BY <2>6 DEF Caches!LargerCachesHitMore
  <2> QED
    BY <2>2, <2>4, <2>5, <2>7 DEF CachesInv
<1>3. CASE Caches!Report
  BY <1>3 DEF Caches!Report, CachesInv, Caches!Inclusion, Caches!LargerCachesHitMore
<1>4. CASE UNCHANGED Caches!lruVars
  BY <1>4 DEF Caches!lruVars, CachesInv, Caches!Inclusion, Caches!LargerCachesHitMore
<1> QED
  BY <1>2, <1>3, <1>4 DEF Caches!Next

\* LRU is a stack algorithm: of two caches the larger holds all that the smaller
\* holds, in the same order.  One histogram of distances serves all sizes.
THEOREM LRUIsAStackAlgorithm == Caches!Spec => []Caches!Inclusion
<1>1. CachesInv => Caches!Inclusion
  BY DEF CachesInv
<1> QED
  BY CachesInit, CachesStep, <1>1, PTL DEF Caches!Spec

\* The success functions that the simulators promise never decrease.
THEOREM SuccessNeverDecreases == Caches!Spec => []Caches!LargerCachesHitMore
<1>1. CachesInv => Caches!LargerCachesHitMore
  BY DEF CachesInv
<1> QED
  BY CachesInit, CachesStep, <1>1, PTL DEF Caches!Spec

=============================================================================
