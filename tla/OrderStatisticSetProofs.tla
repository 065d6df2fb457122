------------------------ MODULE OrderStatisticSetProofs ------------------------
(***************************************************************************)
(* Proofs about OrderStatisticSet for every set of keys: whatever is       *)
(* inserted, erased and asked, in any order, the tree is the ordered set   *)
(* of the elements, every node of it is in balance, every query is         *)
(* answered as on the set, and iterators stay at the rank of their         *)
(* element.                                                                *)
(***************************************************************************)
EXTENDS OrderStatisticSet, FiniteSetTheorems, TLAPS

\* The proofs about the tree, of which this module uses the results only.
Raw == INSTANCE RawOrderStatisticSetProofs WITH
    Value <- Elements, LessThan <- Less, KeyOf <- FirstOfPair

-----------------------------------------------------------------------------
(* The tree of the set is the tree of the proofs                           *)

\* The two copies of a definition are the same: cardinality,
LEMMA SameCardinality == \A S : Cardinality(S) = Raw!Cardinality(S)
BY DEF Cardinality, Raw!Cardinality

\* trees and nodes,
LEMMA SameTrees ==
    /\ Nil = Raw!Nil
    /\ \A n : Size(n) = Raw!Size(n) /\ Key(n) = Raw!Key(n)
    /\ Tree = Raw!Tree
    /\ \A n : Below(n) = Raw!Below(n)
    /\ \A l, v, r : Node(l, v, r) = Raw!Node(l, v, r)
BY DEF Nil, Raw!Nil, Size, Raw!Size, Key, Raw!Key, Tree, Raw!Tree, Below, Raw!Below, Node, Raw!Node

\* the balance and the rotations,
LEMMA SameBalance ==
    /\ \A n : IsInBalance(n) <=> Raw!IsInBalance(n)
    /\ \A n : MaybeRebalance(n) = Raw!MaybeRebalance(n)
<1> USE SameTrees
<1>1. /\ \A n : IsInBalance(n) <=> Raw!IsInBalance(n)
      /\ \A a, b : SingleIsEnough(a, b) <=> Raw!SingleIsEnough(a, b)
      /\ \A n : RotateLeft(n) = Raw!RotateLeft(n) /\ RotateRight(n) = Raw!RotateRight(n)
  BY DEF IsInBalance, Raw!IsInBalance, SingleIsEnough, Raw!SingleIsEnough,
         kRebalanceFactor, Raw!kRebalanceFactor,
         RotateLeft, Raw!RotateLeft, RotateRight, Raw!RotateRight
<1>2. \A n : RotateRightLeft(n) = Raw!RotateRightLeft(n) /\ RotateLeftRight(n) = Raw!RotateLeftRight(n)
  BY <1>1 DEF RotateRightLeft, Raw!RotateRightLeft, RotateLeftRight, Raw!RotateLeftRight
<1>3. \A n : MaybeRebalance(n) = Raw!MaybeRebalance(n)
  BY <1>1, <1>2 DEF MaybeRebalance, Raw!MaybeRebalance
<1> QED
  BY <1>1, <1>3

\* the queries,
LEMMA SameQueries ==
    /\ \A n, k : Find(n, k) = Raw!Find(n, k)
    /\ \A n, k : LowerBound(n, k) = Raw!LowerBound(n, k)
    /\ \A n, k : UpperBound(n, k) = Raw!UpperBound(n, k)
    /\ \A n, i : Select(n, i) = Raw!Select(n, i)
    /\ \A i, n : Position(i, n) = Raw!Position(i, n)
    /\ \A n : LeftMost(n) = Raw!LeftMost(n)
BY DEF Find, Raw!Find, LowerBound, Raw!LowerBound, UpperBound, Raw!UpperBound,
       OrThis, Raw!OrThis, Select, Raw!Select, LeftMost, Raw!LeftMost,
       Position, Raw!Position, PastLeft, Raw!PastLeft,
       Nil, Raw!Nil, Size, Raw!Size, Key, Raw!Key, Tree, Raw!Tree, Below, Raw!Below

\* the content of a tree,
LEMMA SameContents ==
    /\ \A n : Nodes(n) = Raw!Nodes(n)
    /\ \A n : Values(n) = Raw!Values(n)
    /\ \A n : Keys(n) = Raw!Keys(n)
    /\ \A n : IsSearchTree(n) <=> Raw!IsSearchTree(n)
<1>1. \A n : Nodes(n) = Raw!Nodes(n)
  BY DEF Nodes, Raw!Nodes, Nil, Raw!Nil, Size, Raw!Size, Tree, Raw!Tree, Below, Raw!Below
<1>2. \A n : Values(n) = Raw!Values(n) /\ Keys(n) = Raw!Keys(n)
  BY <1>1, SameTrees DEF Values, Raw!Values, Keys, Raw!Keys
<1>3. \A n : IsSearchTree(n) <=> Raw!IsSearchTree(n)
  BY <1>1, <1>2, SameTrees, SameCardinality, Zenon DEF IsSearchTree, Raw!IsSearchTree
<1> QED
  BY <1>1, <1>2, <1>3

\* The steps with which Insert, UnlinkRightMost and Erase recurse.
InsertStep(insert, m, v, assign, rank) ==
    IF m = Nil THEN Inserted(Node(Nil, v, Nil), rank, TRUE)
    ELSE IF Less(Key(m), FirstOfPair(v))
    THEN LET sub == insert[m.right][rank + Size(m.left) + 1]
         IN [sub EXCEPT !.root = MaybeRebalance(Node(m.left, m.value, @))]
    ELSE IF Less(FirstOfPair(v), Key(m))
    THEN LET sub == insert[m.left][rank]
         IN [sub EXCEPT !.root = MaybeRebalance(Node(@, m.value, m.right))]
    ELSE Inserted(MaybeRebalance(IF assign THEN Node(m.left, v, m.right) ELSE m), rank, FALSE)

RawInsertStep(insert, m, v, assign, rank) ==
    IF m = Raw!Nil THEN Raw!Inserted(Raw!Node(Raw!Nil, v, Raw!Nil), rank, TRUE)
    ELSE IF Less(Raw!Key(m), FirstOfPair(v))
    THEN LET sub == insert[m.right][rank + Raw!Size(m.left) + 1]
         IN [sub EXCEPT !.root = Raw!MaybeRebalance(Raw!Node(m.left, m.value, @))]
    ELSE IF Less(FirstOfPair(v), Raw!Key(m))
    THEN LET sub == insert[m.left][rank]
         IN [sub EXCEPT !.root = Raw!MaybeRebalance(Raw!Node(@, m.value, m.right))]
    ELSE Raw!Inserted(Raw!MaybeRebalance(IF assign THEN Raw!Node(m.left, v, m.right) ELSE m), rank, FALSE)

\* Insert(),
LEMMA SameInsert == \A n, v, r, a : Insert(n, v, r, a) = Raw!Insert(n, v, r, a)
<1> SUFFICES ASSUME NEW n, NEW v, NEW r, NEW a
             PROVE  Insert(n, v, r, a) = Raw!Insert(n, v, r, a)
  OBVIOUS
<1> DEFINE Body(f) == [m \in Below(n) |-> [rank \in Nat |-> InsertStep(f, m, v, a, rank)]]
           RawBody(f) == [m \in Raw!Below(n) |-> [rank \in Nat |-> RawInsertStep(f, m, v, a, rank)]]
<1>1. Insert(n, v, r, a) = (CHOOSE f : f = Body(f))[n][r]
  BY DEF Insert, InsertStep
<1>2. Raw!Insert(n, v, r, a) = (CHOOSE f : f = RawBody(f))[n][r]
  BY DEF Raw!Insert, RawInsertStep
<1>3. \A f, m, rank : InsertStep(f, m, v, a, rank) = RawInsertStep(f, m, v, a, rank)
  <2> SUFFICES ASSUME NEW f, NEW m, NEW rank
               PROVE  InsertStep(f, m, v, a, rank) = RawInsertStep(f, m, v, a, rank)
    OBVIOUS
  <2>1. \A l, w, t : MaybeRebalance(Node(l, w, t)) = Raw!MaybeRebalance(Raw!Node(l, w, t))
    BY SameTrees, SameBalance
  <2>2. /\ m = Nil <=> m = Raw!Nil
        /\ Key(m) = Raw!Key(m) /\ Size(m.left) = Raw!Size(m.left)
        /\ Inserted(Node(Nil, v, Nil), rank, TRUE) = Raw!Inserted(Raw!Node(Raw!Nil, v, Raw!Nil), rank, TRUE)
    BY SameTrees DEF Inserted, Raw!Inserted
  <2>3. \A sub : [sub EXCEPT !.root = MaybeRebalance(Node(m.left, m.value, @))] =
                 [sub EXCEPT !.root = Raw!MaybeRebalance(Raw!Node(m.left, m.value, @))]
    BY <2>1, Zenon
  <2>4. \A sub : [sub EXCEPT !.root = MaybeRebalance(Node(@, m.value, m.right))] =
                 [sub EXCEPT !.root = Raw!MaybeRebalance(Raw!Node(@, m.value, m.right))]
    BY <2>1, Zenon
  <2>5. Inserted(MaybeRebalance(IF a THEN Node(m.left, v, m.right) ELSE m), rank, FALSE) =
        Raw!Inserted(Raw!MaybeRebalance(IF a THEN Raw!Node(m.left, v, m.right) ELSE m), rank, FALSE)
    BY SameTrees, SameBalance DEF Inserted, Raw!Inserted
  <2> QED
    BY <2>2, <2>3, <2>4, <2>5, Zenon DEF InsertStep, RawInsertStep
<1>4. \A f : Body(f) = RawBody(f)
  BY <1>3, SameTrees
<1> HIDE DEF Body, RawBody
<1>5. (CHOOSE f : f = Body(f)) = (CHOOSE f : f = RawBody(f))
  BY <1>4
<1> QED
  BY <1>1, <1>2, <1>5
UnlinkStep(unlink, m) ==
    IF m.right = Nil THEN [root |-> m.left, removed |-> m.value]
    ELSE [unlink[m.right] EXCEPT !.root = MaybeRebalance(Node(m.left, m.value, @))]

RawUnlinkStep(unlink, m) ==
    IF m.right = Raw!Nil THEN [root |-> m.left, removed |-> m.value]
    ELSE [unlink[m.right] EXCEPT !.root = Raw!MaybeRebalance(Raw!Node(m.left, m.value, @))]

\* UnlinkRightMost(),
LEMMA SameUnlinkRightMost == \A n : UnlinkRightMost(n) = Raw!UnlinkRightMost(n)
<1> SUFFICES ASSUME NEW n PROVE UnlinkRightMost(n) = Raw!UnlinkRightMost(n)
  OBVIOUS
<1> DEFINE Body(f) == [m \in Below(n) \ {Nil} |-> UnlinkStep(f, m)]
           RawBody(f) == [m \in Raw!Below(n) \ {Raw!Nil} |-> RawUnlinkStep(f, m)]
<1>1. UnlinkRightMost(n) = (CHOOSE f : f = Body(f))[n]
  BY DEF UnlinkRightMost, UnlinkStep
<1>2. Raw!UnlinkRightMost(n) = (CHOOSE f : f = RawBody(f))[n]
  BY DEF Raw!UnlinkRightMost, RawUnlinkStep
<1>3. \A f, m : UnlinkStep(f, m) = RawUnlinkStep(f, m)
  <2> SUFFICES ASSUME NEW f, NEW m PROVE UnlinkStep(f, m) = RawUnlinkStep(f, m)
    OBVIOUS
  <2>1. \A l, w, t : MaybeRebalance(Node(l, w, t)) = Raw!MaybeRebalance(Raw!Node(l, w, t))
    BY SameTrees, SameBalance
  <2>2. \A sub : [sub EXCEPT !.root = MaybeRebalance(Node(m.left, m.value, @))] =
                 [sub EXCEPT !.root = Raw!MaybeRebalance(Raw!Node(m.left, m.value, @))]
    BY <2>1, Zenon
  <2>3. m.right = Nil <=> m.right = Raw!Nil
    BY SameTrees
  <2> QED
    BY <2>2, <2>3, Zenon DEF UnlinkStep, RawUnlinkStep
<1>4. \A f : Body(f) = RawBody(f)
  <2>1. Below(n) \ {Nil} = Raw!Below(n) \ {Raw!Nil}
    BY SameTrees
  <2> QED
    BY <1>3, <2>1
<1> HIDE DEF Body, RawBody
<1>5. (CHOOSE f : f = Body(f)) = (CHOOSE f : f = RawBody(f))
  BY <1>4
<1> QED
  BY <1>1, <1>2, <1>5

\* the deletion of a node,
LEMMA SameAtNode == \A m, r, x : AtNode(m, r, x) = Raw!AtNode(m, r, x)
<1>1. \A n : LeftMost(n) = Raw!LeftMost(n)
  BY SameQueries
<1>2. \A n : DeleteNode(n) = Raw!DeleteNode(n)
  BY SameTrees, SameBalance, SameUnlinkRightMost DEF DeleteNode, Raw!DeleteNode
<1> QED
  BY <1>1, <1>2, SameTrees DEF AtNode, Raw!AtNode, Erased, Raw!Erased

EraseStep(erase, m, k, rank, next) ==
    IF m = Nil THEN Erased(Nil, rank, Nil, Nil)
    ELSE IF Less(Key(m), k)
    THEN [erase[m.right][rank + 1 + Size(m.left)][next]
             EXCEPT !.root = MaybeRebalance(Node(m.left, m.value, @))]
    ELSE IF Less(k, Key(m))
    THEN [erase[m.left][rank][<<Key(m)>>]
             EXCEPT !.root = MaybeRebalance(Node(@, m.value, m.right))]
    ELSE AtNode(m, rank, next)

RawEraseStep(erase, m, k, rank, next) ==
    IF m = Raw!Nil THEN Raw!Erased(Raw!Nil, rank, Raw!Nil, Raw!Nil)
    ELSE IF Less(Raw!Key(m), k)
    THEN [erase[m.right][rank + 1 + Raw!Size(m.left)][next]
             EXCEPT !.root = Raw!MaybeRebalance(Raw!Node(m.left, m.value, @))]
    ELSE IF Less(k, Raw!Key(m))
    THEN [erase[m.left][rank][<<Raw!Key(m)>>]
             EXCEPT !.root = Raw!MaybeRebalance(Raw!Node(@, m.value, m.right))]
    ELSE Raw!AtNode(m, rank, next)

\* and Erase().
LEMMA SameErase == \A n, k, r, x : Erase(n, k, r, x) = Raw!Erase(n, k, r, x)
<1> SUFFICES ASSUME NEW n, NEW k, NEW r, NEW x
             PROVE  Erase(n, k, r, x) = Raw!Erase(n, k, r, x)
  OBVIOUS
<1> DEFINE Body(f) == [m \in Below(n) |-> [rank \in Nat |-> [next \in Links |-> EraseStep(f, m, k, rank, next)]]]
           RawBody(f) == [m \in Raw!Below(n) |->
                            [rank \in Nat |-> [next \in Raw!Links |-> RawEraseStep(f, m, k, rank, next)]]]
<1>1. Erase(n, k, r, x) = (CHOOSE f : f = Body(f))[n][r][x]
  BY DEF Erase, EraseStep
<1>2. Raw!Erase(n, k, r, x) = (CHOOSE f : f = RawBody(f))[n][r][x]
  BY DEF Raw!Erase, RawEraseStep
<1>3. \A f, m, rank, next : EraseStep(f, m, k, rank, next) = RawEraseStep(f, m, k, rank, next)
  <2> SUFFICES ASSUME NEW f, NEW m, NEW rank, NEW next
               PROVE  EraseStep(f, m, k, rank, next) = RawEraseStep(f, m, k, rank, next)
    OBVIOUS
  <2>1. \A l, w, t : MaybeRebalance(Node(l, w, t)) = Raw!MaybeRebalance(Raw!Node(l, w, t))
    BY SameTrees, SameBalance
  <2>2. /\ m = Nil <=> m = Raw!Nil
        /\ Key(m) = Raw!Key(m) /\ Size(m.left) = Raw!Size(m.left)
        /\ Erased(Nil, rank, Nil, Nil) = Raw!Erased(Raw!Nil, rank, Raw!Nil, Raw!Nil)
        /\ AtNode(m, rank, next) = Raw!AtNode(m, rank, next)
    BY SameTrees, SameAtNode DEF Erased, Raw!Erased
  <2>3. \A sub : [sub EXCEPT !.root = MaybeRebalance(Node(m.left, m.value, @))] =
                 [sub EXCEPT !.root = Raw!MaybeRebalance(Raw!Node(m.left, m.value, @))]
    BY <2>1, Zenon
  <2>4. \A sub : [sub EXCEPT !.root = MaybeRebalance(Node(@, m.value, m.right))] =
                 [sub EXCEPT !.root = Raw!MaybeRebalance(Raw!Node(@, m.value, m.right))]
    BY <2>1, Zenon
  <2> QED
    BY <2>2, <2>3, <2>4, Zenon DEF EraseStep, RawEraseStep
<1>4. \A f : Body(f) = RawBody(f)
  BY <1>3, SameTrees DEF Links, Raw!Links
<1> HIDE DEF Body, RawBody
<1>5. (CHOOSE f : f = Body(f)) = (CHOOSE f : f = RawBody(f))
  BY <1>4
<1> QED
  BY <1>1, <1>2, <1>5
-----------------------------------------------------------------------------
(* A tree that holds a set of elements                                     *)

SetOf(t, s) == t \in Raw!Trees /\ Raw!Ordered(t) /\ Values(t) = s

Rank(s, k) == Cardinality({e \in s : e.key < k})

First(s, candidates) ==
    IF candidates = {} THEN Position(Cardinality(s), Nil)
    ELSE LET first == CHOOSE e \in candidates : \A f \in candidates : e.key <= f.key
         IN Position(Rank(s, first.key), <<first.key>>)

\* Elements have integer keys,
LEMMA ElementsAreTyped == \A e \in Elements : e.key \in KeyType /\ e.key \in Int
BY KeyTypeAssumption DEF Elements

\* which are ordered as the proofs about trees assume.
LEMMA KeysAreOrdered == Raw!Ordering
BY KeyTypeAssumption, ElementsAreTyped DEF Raw!Ordering, Less, FirstOfPair

\* The elements of a tree: finitely many, as many as its size, with different keys.
LEMMA SetProperties ==
    ASSUME NEW t, NEW s, SetOf(t, s)
    PROVE  /\ s \subseteq Elements
           /\ \A e \in s : e.key \in KeyType /\ e.key \in Int
           /\ IsFiniteSet(s) /\ Cardinality(s) = Size(t) /\ Size(t) \in Nat
           /\ \A e, f \in s : e.key = f.key => e = f
           /\ \A k : Rank(s, k) = Raw!RankIn(t, k)
           /\ IsSearchTree(t)
<1>1. t \in Raw!Trees /\ Raw!Ordered(t) /\ Raw!Values(t) = s
  BY SameContents DEF SetOf
<1>2. s \subseteq Elements
  BY <1>1, Raw!ContentProperties
<1>3. Raw!IsFiniteSet(s) /\ Raw!Cardinality(s) = Raw!Size(t)
  BY <1>1, KeysAreOrdered, Raw!SizeCounts
<1>4. IsFiniteSet(s)
  BY <1>3 DEF IsFiniteSet, Raw!IsFiniteSet
<1>5. Cardinality(s) = Size(t)
  BY <1>3, SameCardinality, SameTrees
<1>6. Size(t) \in Nat
  BY <1>4, <1>5, FS_CardinalityType
<1>7. \A e, f \in s : FirstOfPair(e) = FirstOfPair(f) => e = f
  BY <1>1, KeysAreOrdered, Raw!KeysDiffer
<1>8. \A k : Rank(s, k) = Raw!RankIn(t, k)
  BY <1>1, SameCardinality DEF Rank, Raw!RankIn, Less, FirstOfPair
<1>9. IsSearchTree(t)
  BY <1>1, KeysAreOrdered, SameContents, Raw!OrderedIsSearchTree
<1> QED
  BY <1>2, <1>4, <1>5, <1>6, <1>7, <1>8, <1>9, ElementsAreTyped DEF FirstOfPair

\* The least of some elements is the only one that no other comes before.
LEMMA LeastIsFirst ==
    ASSUME NEW t, NEW s, SetOf(t, s), NEW candidates \in SUBSET s, NEW u \in candidates,
           \A w \in candidates : ~(w.key < u.key)
    PROVE  First(s, candidates) = Position(Rank(s, u.key), <<u.key>>)
<1>1. /\ \A e \in s : e.key \in Int
      /\ \A e, f \in s : e.key = f.key => e = f
  BY SetProperties
<1>2. \A f \in candidates : u.key <= f.key
  BY <1>1
<1> DEFINE first == CHOOSE e \in candidates : \A f \in candidates : e.key <= f.key
<1>3. first \in candidates /\ \A f \in candidates : first.key <= f.key
  BY <1>2
<1>4. first = u
  <2> HIDE DEF first
  <2>1. first.key <= u.key /\ u.key <= first.key /\ first.key \in Int /\ u.key \in Int
    BY <1>1, <1>2, <1>3
  <2>2. first.key = u.key
    BY <2>1
  <2> QED
    BY <1>1, <1>3, <2>2
<1>5. candidates # {}
  OBVIOUS
<1> HIDE DEF first
<1>6. First(s, candidates) = Position(Rank(s, first.key), <<first.key>>)
  BY <1>5 DEF First, first
<1> QED
  BY <1>4, <1>6

\* What a query finds in the tree is the first of the elements it is for.
LEMMA FoundIsFirst ==
    ASSUME NEW t, NEW s, SetOf(t, s), NEW K, NEW p, Raw!IsFirst(p, t, K)
    PROVE  (IF p.node = Nil THEN End(t) ELSE p) = First(s, {e \in s : e.key \in K})
<1> DEFINE candidates == {e \in s : e.key \in K}
<1>1. /\ Cardinality(s) = Size(t)
      /\ \A k : Rank(s, k) = Raw!RankIn(t, k)
  BY SetProperties
<1>2. Raw!Values(t) = s
  BY SameContents DEF SetOf
<1>3. CASE \E u \in s : /\ u.key \in K
                        /\ \A w \in s : w.key \in K => ~(w.key < u.key)
                        /\ p = Raw!Position(Raw!RankIn(t, u.key), <<u.key>>)
  <2>1. PICK u \in s : /\ u.key \in K
                       /\ \A w \in s : w.key \in K => ~(w.key < u.key)
                       /\ p = Raw!Position(Raw!RankIn(t, u.key), <<u.key>>)
    BY <1>3
  <2>2. p = Position(Rank(s, u.key), <<u.key>>)
    BY <1>1, <2>1, SameQueries
  <2>3. p.node = <<u.key>> /\ <<u.key>> # Nil
    BY <2>2 DEF Position, Nil
  <2>4. u \in candidates /\ \A w \in candidates : ~(w.key < u.key)
    BY <2>1
  <2>5. First(s, candidates) = Position(Rank(s, u.key), <<u.key>>)
    <3> HIDE DEF candidates
    <3>1. candidates \in SUBSET s
      BY DEF candidates
    <3> QED
      BY <2>4, <3>1, LeastIsFirst
  <2>6. (IF p.node = Nil THEN End(t) ELSE p) = p
    BY <2>3
  <2> QED
    BY <2>2, <2>5, <2>6
<1>4. CASE (\A u \in s : u.key \notin K) /\ p.node = Nil
  <2>1. candidates = {}
    BY <1>4
  <2>2. First(s, candidates) = Position(Cardinality(s), Nil)
    BY <2>1 DEF First
  <2> QED
    BY <1>1, <1>4, <2>2 DEF End
<1>5. \/ \E u \in s : /\ u.key \in K
                      /\ \A w \in s : w.key \in K => ~(w.key < u.key)
                      /\ p = Raw!Position(Raw!RankIn(t, u.key), <<u.key>>)
      \/ (\A u \in s : u.key \notin K) /\ p.node = Nil
  BY <1>2, SameTrees DEF Raw!IsFirst, FirstOfPair, Less
<1> QED
  BY <1>3, <1>4, <1>5

\* An iterator at an element, with the rank of the element, or at the end.
ValidIn(i, t, s) ==
    i = End(t) \/ \E e \in s : i = Position(Rank(s, e.key), <<e.key>>)

\* What a query finds is a valid iterator.
LEMMA FoundIsValid ==
    ASSUME NEW t, NEW s, SetOf(t, s), NEW K, NEW p, Raw!IsFirst(p, t, K)
    PROVE  ValidIn(IF p.node = Nil THEN End(t) ELSE p, t, s)
<1>1. \A k : Rank(s, k) = Raw!RankIn(t, k)
  BY SetProperties
<1>2. Raw!Values(t) = s
  BY SameContents DEF SetOf
<1>3. \/ \E u \in s : p = Raw!Position(Raw!RankIn(t, u.key), <<u.key>>)
      \/ p.node = Nil
  BY <1>2, SameTrees DEF Raw!IsFirst, FirstOfPair
<1>4. \/ \E u \in s : p = Position(Rank(s, u.key), <<u.key>>)
      \/ p.node = Nil
  BY <1>1, <1>3, SameQueries
<1> QED
  BY <1>4 DEF ValidIn

-----------------------------------------------------------------------------
(* Queries                                                                 *)

\* The answers of the tree to the queries for a key are those of the set.
QueriesOn(t, s, k) ==
    /\ (IF Find(t, k).node = Nil THEN End(t) ELSE Find(t, k)) = First(s, {e \in s : e.key = k})
    /\ (IF LowerBound(t, k).node = Nil THEN End(t) ELSE LowerBound(t, k)) =
          First(s, {e \in s : e.key >= k})
    /\ (IF UpperBound(t, k).node = Nil THEN End(t) ELSE UpperBound(t, k)) =
          First(s, {e \in s : e.key > k})
    /\ {e \in s : e.key = k} # {} => Select(t, Rank(s, k)) = <<k>>
    /\ LET erased == Erase(t, k, 0, Nil)
       IN /\ erased.rank = Rank(s, k)
          /\ {e \in s : e.key = k} = {erased.extracted[i] : i \in DOMAIN erased.extracted}

\* Every query answers as on the set.
LEMMA QueriesOfSet ==
    ASSUME NEW t, NEW s, SetOf(t, s), NEW k \in KeyType
    PROVE  QueriesOn(t, s, k)
<1>1. /\ t \in Raw!Trees /\ Raw!Ordered(t) /\ Raw!Values(t) = s
      /\ \A e \in s : e.key \in KeyType /\ e.key \in Int
      /\ \A e, f \in s : e.key = f.key => e = f
      /\ \A j : Rank(s, j) = Raw!RankIn(t, j)
  BY SetProperties, SameContents DEF SetOf
<1>2. k \in Int
  BY KeyTypeAssumption
<1>3. (IF Find(t, k).node = Nil THEN End(t) ELSE Find(t, k)) = First(s, {e \in s : e.key = k})
  <2>1. Raw!IsFirst(Find(t, k), t, {k})
    BY <1>1, KeysAreOrdered, SameQueries, Raw!FindIsFirst
  <2>2. {e \in s : e.key \in {k}} = {e \in s : e.key = k}
    OBVIOUS
  <2> QED
    BY <2>1, <2>2, FoundIsFirst
<1>4. (IF LowerBound(t, k).node = Nil THEN End(t) ELSE LowerBound(t, k)) = First(s, {e \in s : e.key >= k})
  <2> DEFINE K == {j \in KeyType : ~Less(j, k)}
  <2>1. Raw!IsFirst(LowerBound(t, k), t, K)
    BY <1>1, KeysAreOrdered, SameQueries, Raw!LowerBoundIsFirst
  <2>2. {e \in s : e.key \in K} = {e \in s : e.key >= k}
    BY <1>1, <1>2 DEF Less
  <2> HIDE DEF K
  <2> QED
    BY <2>1, <2>2, FoundIsFirst
<1>5. (IF UpperBound(t, k).node = Nil THEN End(t) ELSE UpperBound(t, k)) = First(s, {e \in s : e.key > k})
  <2> DEFINE K == {j \in KeyType : Less(k, j)}
  <2>1. Raw!IsFirst(UpperBound(t, k), t, K)
    BY <1>1, KeysAreOrdered, SameQueries, Raw!UpperBoundIsFirst
  <2>2. {e \in s : e.key \in K} = {e \in s : e.key > k}
    BY <1>1, <1>2 DEF Less
  <2> HIDE DEF K
  <2> QED
    BY <2>1, <2>2, FoundIsFirst
<1>6. ASSUME NEW u \in s, u.key = k
      PROVE  Select(t, Rank(s, k)) = <<k>>
  <2>1. Raw!Select(t, Raw!RankIn(t, FirstOfPair(u))) = <<FirstOfPair(u)>>
    BY <1>1, KeysAreOrdered, Raw!SelectsByRank
  <2> QED
    BY <1>1, <1>6, <2>1, SameQueries DEF FirstOfPair
<1>7. Raw!EraseResult(t, k, 0, Nil, Erase(t, k, 0, Nil))
  <2>1. Nil \in Raw!Links
    BY SameTrees, Raw!LinkProperties
  <2> QED
    BY <1>1, <2>1, KeysAreOrdered, SameErase, Raw!EraseResults
<1> DEFINE erased == Erase(t, k, 0, Nil)
<1> HIDE DEF erased
<1>8. /\ erased.rank = 0 + Raw!RankIn(t, k)
      /\ (\A u \in s : FirstOfPair(u) # k) => erased.extracted = Nil
      /\ \A u \in s : FirstOfPair(u) = k => erased.extracted = <<u>>
  BY <1>1, <1>7, SameTrees DEF Raw!EraseResult, erased
<1>9. erased.rank = Rank(s, k)
  <2>1. Raw!RankIn(t, k) \in Nat
    BY <1>1, KeysAreOrdered, Raw!RankIsBounded
  <2> QED
    BY <1>1, <1>8, <2>1
<1>10. {e \in s : e.key = k} = {erased.extracted[i] : i \in DOMAIN erased.extracted}
  <2>1. CASE \A u \in s : u.key # k
    <3>1. erased.extracted = <<>>
      BY <1>8, <2>1 DEF Nil, FirstOfPair
    <3> QED
      BY <2>1, <3>1
  <2>2. CASE \E u \in s : u.key = k
    <3>1. PICK u \in s : u.key = k
      BY <2>2
    <3>2. erased.extracted = <<u>>
      BY <1>8, <3>1 DEF FirstOfPair
    <3>3. {e \in s : e.key = k} = {u}
      BY <1>1, <3>1
    <3> QED
      BY <3>2, <3>3
  <2> QED
    BY <2>1, <2>2
<1> QED
  BY <1>3, <1>4, <1>5, <1>6, <1>9, <1>10 DEF erased, QueriesOn

-----------------------------------------------------------------------------
(* Changes                                                                 *)

\* The empty tree has no element.
LEMMA EmptySet == SetOf(Nil, {}) /\ Raw!Balanced(Nil) /\ Size(Nil) = 0
BY SameTrees, SameContents, Raw!NilIsOrdered, Raw!NilProperties, Raw!ContentOfNil DEF SetOf

\* The set after insert, and after insert_or_assign.
WithInserted(s, value, assign) ==
    LET there == {e \in s : e.key = value.key}
    IN IF there = {} THEN s \cup {value}
       ELSE IF assign THEN (s \ there) \cup {value} ELSE s

\* What an insertion into the tree of a set returns.
IsInsertedInto(s, value, assign, inserted) ==
    /\ SetOf(inserted.root, WithInserted(s, value, assign)) /\ Raw!Balanced(inserted.root)
    /\ inserted.did_insert \in BOOLEAN /\ inserted.idx \in Nat
    /\ inserted.did_insert <=> {e \in s : e.key = value.key} = {}
    /\ inserted.did_insert => inserted.idx = Rank(WithInserted(s, value, assign), value.key)

\* insert and insert_or_assign keep the tree that of the set, and in balance.
LEMMA InsertIntoSet ==
    ASSUME NEW t, NEW s, SetOf(t, s), Raw!Balanced(t), NEW value \in Elements, NEW assign \in BOOLEAN
    PROVE  IsInsertedInto(s, value, assign, Insert(t, value, 0, assign))
<1> DEFINE inserted == Insert(t, value, 0, assign)
           there == {e \in s : e.key = value.key}
           now == WithInserted(s, value, assign)
<1>1. /\ t \in Raw!Trees /\ Raw!Ordered(t) /\ Raw!Values(t) = s
      /\ \A e \in s : e.key \in KeyType /\ e.key \in Int
      /\ \A j : Rank(s, j) = Raw!RankIn(t, j)
  BY SetProperties, SameContents DEF SetOf
<1>2. Raw!InsertResult(t, value, 0, assign, inserted)
  BY <1>1, KeysAreOrdered, SameInsert, Raw!InsertResults
<1>3. value.key \in Int
  BY ElementsAreTyped
<1> HIDE DEF inserted
<1>4. /\ inserted.root \in Raw!Trees /\ inserted.idx \in Nat /\ inserted.did_insert \in BOOLEAN
      /\ Raw!Ordered(inserted.root) /\ Raw!Balanced(inserted.root)
  BY <1>2 DEF Raw!InsertResult, Raw!Insertions
<1>5. ASSUME inserted.did_insert
      PROVE  /\ there = {} /\ Raw!Values(inserted.root) = s \cup {value}
             /\ inserted.idx = Rank(s \cup {value}, value.key)
  <2>1. /\ \A u \in s : u.key # value.key
        /\ Raw!Values(inserted.root) = {value} \cup s
        /\ inserted.idx = 0 + Raw!RankIn(t, value.key)
    BY <1>1, <1>2, <1>5 DEF Raw!InsertResult, FirstOfPair
  <2>2. Rank(s \cup {value}, value.key) = Rank(s, value.key)
    <3>1. {e \in s \cup {value} : e.key < value.key} = {e \in s : e.key < value.key}
      BY <1>3
    <3> QED
      BY <3>1 DEF Rank
  <2>3. Raw!RankIn(t, value.key) \in Nat
    BY <1>1, KeysAreOrdered, Raw!RankIsBounded
  <2> QED
    BY <1>1, <2>1, <2>2, <2>3
<1>6. ASSUME ~inserted.did_insert
      PROVE  /\ there # {}
             /\ Raw!Values(inserted.root) = IF assign THEN (s \ there) \cup {value} ELSE s
  <2>1. /\ \E u \in s : u.key = value.key
        /\ Raw!Values(inserted.root) = IF assign THEN {value} \cup {u \in s : u.key # value.key} ELSE s
    BY <1>1, <1>2, <1>6 DEF Raw!InsertResult, FirstOfPair
  <2>2. s \ there = {u \in s : u.key # value.key}
    OBVIOUS
  <2> QED
    BY <2>1, <2>2
<1>7. Raw!Values(inserted.root) = now
  BY <1>4, <1>5, <1>6 DEF WithInserted
<1>8. SetOf(inserted.root, now)
  BY <1>4, <1>7, SameContents DEF SetOf
<1>9. inserted.did_insert => now = s \cup {value}
  BY <1>5 DEF WithInserted
<1> HIDE DEF now
<1>10. inserted.did_insert => inserted.idx = Rank(now, value.key)
  BY <1>5, <1>9
<1>11. inserted.did_insert <=> there = {}
  BY <1>5, <1>6
<1>12. IsInsertedInto(s, value, assign, inserted)
  BY <1>4, <1>8, <1>10, <1>11 DEF IsInsertedInto, now
<1> QED
  BY <1>12 DEF inserted

\* erase and extract: the element with the key is gone, and the successor is at
\* the rank where it was.
LEMMA EraseFromSet ==
    ASSUME NEW t, NEW s, SetOf(t, s), Raw!Balanced(t), NEW k \in KeyType
    PROVE  LET erased == Erase(t, k, 0, Nil)
               now == s \ {e \in s : e.key = k}
           IN  /\ SetOf(erased.root, now) /\ Raw!Balanced(erased.root)
               /\ (\A e \in s : e.key # k) => erased.successor = Nil
               /\ (\E e \in s : e.key = k) =>
                     (IF erased.successor = Nil THEN End(erased.root)
                      ELSE Position(erased.rank, erased.successor)) =
                     First(now, {f \in now : f.key > k})
               /\ ValidIn(IF erased.successor = Nil THEN End(erased.root)
                          ELSE Position(erased.rank, erased.successor), erased.root, now)
<1> DEFINE erased == Erase(t, k, 0, Nil)
           now == s \ {e \in s : e.key = k}
           after == {f \in now : f.key > k}
<1>1. /\ t \in Raw!Trees /\ Raw!Ordered(t) /\ Raw!Values(t) = s
      /\ \A e \in s : e.key \in KeyType /\ e.key \in Int
      /\ \A j : Rank(s, j) = Raw!RankIn(t, j)
      /\ \A e, f \in s : e.key = f.key => e = f
  BY SetProperties, SameContents DEF SetOf
<1>2. k \in Int
  BY KeyTypeAssumption
<1>3. Raw!EraseResult(t, k, 0, Nil, erased)
  <2>1. Nil \in Raw!Links
    BY SameTrees, Raw!LinkProperties
  <2> QED
    BY <1>1, <2>1, KeysAreOrdered, SameErase, Raw!EraseResults
<1> HIDE DEF erased
<1>4. /\ erased.root \in Raw!Trees /\ Raw!Ordered(erased.root) /\ Raw!Balanced(erased.root)
      /\ Raw!Values(erased.root) = {u \in s : u.key # k}
      /\ erased.rank = Rank(s, k)
  <2>1. Raw!RankIn(t, k) \in Nat
    BY <1>1, KeysAreOrdered, Raw!RankIsBounded
  <2> QED
    BY <1>1, <1>3, <2>1 DEF Raw!EraseResult, Raw!Erasures, FirstOfPair
<1>5. now = {u \in s : u.key # k}
  OBVIOUS
<1> HIDE DEF now
<1>6. SetOf(erased.root, now)
  BY <1>4, <1>5, SameContents DEF SetOf
<1>7. (\A e \in s : e.key # k) => erased.successor = Nil
  BY <1>1, <1>3, SameTrees DEF Raw!EraseResult, FirstOfPair
<1>8. ASSUME NEW u \in s, u.key = k
      PROVE  /\ (IF erased.successor = Nil THEN End(erased.root)
                  ELSE Position(erased.rank, erased.successor)) = First(now, after)
             /\ ValidIn(IF erased.successor = Nil THEN End(erased.root)
                        ELSE Position(erased.rank, erased.successor), erased.root, now)
  <2>1. Raw!IsNext(erased.successor, t, k, Nil)
    BY <1>1, <1>3, <1>8 DEF Raw!EraseResult, FirstOfPair
  <2>2. \/ \E w \in s : /\ k < w.key /\ erased.successor = <<w.key>>
                        /\ \A x \in s : k < x.key => ~(x.key < w.key)
        \/ (\A w \in s : ~(k < w.key)) /\ erased.successor = Nil
    BY <1>1, <2>1 DEF Raw!IsNext, Less, FirstOfPair
  <2>3. CASE \E w \in s : /\ k < w.key /\ erased.successor = <<w.key>>
                          /\ \A x \in s : k < x.key => ~(x.key < w.key)
    <3>1. PICK w \in s : /\ k < w.key /\ erased.successor = <<w.key>>
                         /\ \A x \in s : k < x.key => ~(x.key < w.key)
      BY <2>3
    <3>2. w \in after /\ \A x \in after : ~(x.key < w.key)
      BY <1>1, <1>2, <1>5, <3>1
    <3>3. First(now, after) = Position(Rank(now, w.key), <<w.key>>)
      <4> HIDE DEF after
      <4>1. after \in SUBSET now
        BY DEF after
      <4> QED
        BY <1>6, <3>2, <4>1, LeastIsFirst
    <3>4. Rank(now, w.key) = Rank(s, k)
      <4>1. {e \in now : e.key < w.key} = {e \in s : e.key < k}
        BY <1>1, <1>2, <1>5, <3>1
      <4> QED
        BY <4>1 DEF Rank
    <3>5. erased.successor # Nil
      BY <3>1 DEF Nil
    <3>6. w \in now
      BY <3>2
    <3> QED
      BY <1>4, <3>1, <3>3, <3>4, <3>5, <3>6 DEF ValidIn
  <2>4. CASE (\A w \in s : ~(k < w.key)) /\ erased.successor = Nil
    <3>1. after = {}
      BY <1>1, <1>2, <1>5, <2>4
    <3>2. Cardinality(now) = Size(erased.root)
      BY <1>6, SetProperties
    <3> QED
      BY <2>4, <3>1, <3>2 DEF First, End, ValidIn
  <2> QED
    BY <2>2, <2>3, <2>4
<1>9. (\A e \in s : e.key # k) =>
         ValidIn(IF erased.successor = Nil THEN End(erased.root)
                 ELSE Position(erased.rank, erased.successor), erased.root, now)
  BY <1>7 DEF ValidIn
<1> QED
  BY <1>4, <1>6, <1>7, <1>8, <1>9 DEF erased, now

\* The queries return valid iterators.
LEMMA QueriesAreValid ==
    ASSUME NEW t, NEW s, SetOf(t, s), NEW k \in KeyType
    PROVE  /\ ValidIn(IF Find(t, k).node = Nil THEN End(t) ELSE Find(t, k), t, s)
           /\ ValidIn(IF LowerBound(t, k).node = Nil THEN End(t) ELSE LowerBound(t, k), t, s)
           /\ ValidIn(IF UpperBound(t, k).node = Nil THEN End(t) ELSE UpperBound(t, k), t, s)
<1>1. t \in Raw!Trees /\ Raw!Ordered(t)
  BY DEF SetOf
<1>2. /\ Raw!IsFirst(Find(t, k), t, {k})
      /\ Raw!IsFirst(LowerBound(t, k), t, {j \in KeyType : ~Less(j, k)})
      /\ Raw!IsFirst(UpperBound(t, k), t, {j \in KeyType : Less(k, j)})
  BY <1>1, KeysAreOrdered, SameQueries, Raw!FindIsFirst, Raw!LowerBoundIsFirst, Raw!UpperBoundIsFirst
<1> QED
  BY <1>2, FoundIsValid

\* select finds the element of an index, and the end for an index too large.
LEMMA SelectsElement ==
    ASSUME NEW t, NEW s, SetOf(t, s), NEW i \in Nat
    PROVE  /\ i < Size(t) => ValidIn(Position(i, Select(t, i)), t, s) /\ Select(t, i) # Nil
           /\ i >= Size(t) => Select(t, i) = Nil
<1>1. /\ t \in Raw!Trees /\ Raw!Ordered(t) /\ Raw!Values(t) = s
      /\ Size(t) = Raw!Size(t) /\ Size(t) \in Nat
      /\ \A k : Rank(s, k) = Raw!RankIn(t, k)
  BY SetProperties, SameContents, SameTrees DEF SetOf
<1>2. ASSUME i < Size(t)
      PROVE  ValidIn(Position(i, Select(t, i)), t, s) /\ Select(t, i) # Nil
  <2>1. \E u \in s : i = Raw!RankIn(t, FirstOfPair(u)) /\ Select(t, i) = <<FirstOfPair(u)>>
    BY <1>1, <1>2, KeysAreOrdered, SameQueries, Raw!SelectsByRank
  <2>2. PICK u \in s : i = Rank(s, u.key) /\ Select(t, i) = <<u.key>>
    BY <1>1, <2>1 DEF FirstOfPair
  <2>3. Select(t, i) # Nil
    BY <2>2 DEF Nil
  <2> QED
    BY <2>2, <2>3 DEF ValidIn
<1>3. ASSUME i >= Size(t)
      PROVE  Select(t, i) = Nil
  <2>1. Raw!Size(t) <= i => Raw!Select(t, i) = Raw!Nil
    BY <1>1, KeysAreOrdered, Raw!SelectDef
  <2> QED
    BY <1>1, <1>3, <2>1, SameQueries, SameTrees
<1> QED
  BY <1>2, <1>3

-----------------------------------------------------------------------------
(* The invariant                                                           *)

\* The iterator leads to an element, and has its rank unless it is refused.
IteratorIsValid(i, r, t, s) ==
    /\ i = Position(i.idx, i.node)
    /\ i.node # Nil => \E e \in s : i.node = <<e.key>>
    /\ r \in BOOLEAN
    /\ (i # NoIterator /\ ~r) => ValidIn(i, t, s)

\* The inductive invariant.
IInv ==
    /\ SetOf(root, elements)
    /\ Raw!Balanced(root)
    /\ IteratorIsValid(it, refused, root, elements)

\* The parts of a position.
LEMMA PositionHas == \A i, n : Position(i, n).idx = i /\ Position(i, n).node = n
BY DEF Position

\* A valid iterator may follow every step.
LEMMA ValidIsEnough ==
    ASSUME NEW t, NEW s, NEW i, NEW r \in BOOLEAN, ValidIn(i, t, s)
    PROVE  IteratorIsValid(i, r, t, s)
<1>1. CASE i = End(t)
  <2>1. i = Position(Size(t), Nil)
    BY <1>1 DEF End
  <2>2. i.idx = Size(t) /\ i.node = Nil
    BY <2>1, PositionHas
  <2> QED
    BY <2>1, <2>2 DEF IteratorIsValid
<1>2. CASE \E e \in s : i = Position(Rank(s, e.key), <<e.key>>)
  <2>1. PICK e \in s : i = Position(Rank(s, e.key), <<e.key>>)
    BY <1>2
  <2>2. i.idx = Rank(s, e.key) /\ i.node = <<e.key>>
    BY <2>1, PositionHas
  <2> QED
    BY <2>1, <2>2 DEF IteratorIsValid
<1> QED
  BY <1>1, <1>2 DEF ValidIn

\* So may no iterator.
LEMMA NoIteratorIsEnough ==
    ASSUME NEW t, NEW s, NEW r \in BOOLEAN
    PROVE  IteratorIsValid(NoIterator, r, t, s)
<1>1. NoIterator = Position(-1, Nil)
  BY DEF NoIterator
<1>2. NoIterator.idx = -1 /\ NoIterator.node = Nil
  BY <1>1, PositionHas
<1> QED
  BY <1>1, <1>2 DEF IteratorIsValid

\* The invariant holds at first.
LEMMA InitInvariant == Init => IInv
<1> SUFFICES ASSUME Init PROVE IInv
  OBVIOUS
<1>1. SetOf(root, elements) /\ Raw!Balanced(root)
  BY EmptySet DEF Init
<1>2. IteratorIsValid(it, refused, root, elements)
  BY NoIteratorIsEnough DEF Init
<1> QED
  BY <1>1, <1>2 DEF IInv

\* insert and insert_or_assign
LEMMA InsertStepKeeps ==
    ASSUME IInv, NEW value \in Elements, InsertValue(value) \/ InsertOrAssign(value)
    PROVE  IInv'
<1>1. PICK assign \in BOOLEAN :
         /\ ReturnInserted(value, Insert(root, value, 0, assign))
         /\ elements' = IF WithKey(value.key) = {} THEN elements \cup {value}
                        ELSE IF assign THEN (elements \ WithKey(value.key)) \cup {value} ELSE elements
  <2>1. CASE InsertValue(value)
    BY <2>1 DEF InsertValue
  <2>2. CASE InsertOrAssign(value)
    <3>1. elements' = IF WithKey(value.key) = {} THEN elements \cup {value}
                      ELSE (elements \ WithKey(value.key)) \cup {value}
      BY <2>2 DEF InsertOrAssign
    <3> QED
      BY <2>2, <3>1 DEF InsertOrAssign
  <2> QED
    BY <2>1, <2>2
<1> DEFINE inserted == Insert(root, value, 0, assign)
           there == {e \in elements : e.key = value.key}
           now == WithInserted(elements, value, assign)
<1>2. /\ SetOf(inserted.root, now) /\ Raw!Balanced(inserted.root)
      /\ inserted.did_insert \in BOOLEAN /\ inserted.idx \in Nat
      /\ inserted.did_insert <=> there = {}
      /\ inserted.did_insert => inserted.idx = Rank(now, value.key)
  <2>1. SetOf(root, elements) /\ Raw!Balanced(root)
    BY DEF IInv
  <2>2. IsInsertedInto(elements, value, assign, inserted)
    BY <1>1, <2>1, InsertIntoSet
  <2> QED
    BY <2>2 DEF IsInsertedInto
<1>3. /\ root' = inserted.root /\ it' = Position(inserted.idx, <<value.key>>)
      /\ refused' = ~inserted.did_insert
  BY <1>1 DEF ReturnInserted
<1>4. elements' = now
  BY <1>1 DEF WithKey, WithInserted
<1>5. \E e \in now : e.key = value.key
  BY DEF WithInserted
<1> HIDE DEF inserted, now
<1>6. it'.idx = inserted.idx /\ it'.node = <<value.key>>
  BY <1>3, PositionHas
<1>7. inserted.did_insert => ValidIn(it', root', now)
  BY <1>2, <1>3, <1>5 DEF ValidIn
<1>8. IteratorIsValid(it', refused', root', now)
  BY <1>2, <1>3, <1>5, <1>6, <1>7 DEF IteratorIsValid
<1> QED
  BY <1>2, <1>3, <1>4, <1>8 DEF IInv

\* erase(iterator) and erase(key)
LEMMA EraseStepKeeps ==
    ASSUME IInv, NEW k \in KeyType,
           root' = Erase(root, k, 0, Nil).root, elements' = elements \ WithKey(k), refused' = FALSE,
           it' = NoIterator \/ it' = (IF Erase(root, k, 0, Nil).successor = Nil
                                      THEN End(Erase(root, k, 0, Nil).root)
                                      ELSE Position(Erase(root, k, 0, Nil).rank,
                                                    Erase(root, k, 0, Nil).successor))
    PROVE  IInv'
<1> DEFINE erased == Erase(root, k, 0, Nil)
           now == elements \ {e \in elements : e.key = k}
           next == IF erased.successor = Nil THEN End(erased.root)
                   ELSE Position(erased.rank, erased.successor)
<1>1. /\ SetOf(erased.root, now) /\ Raw!Balanced(erased.root)
      /\ ValidIn(next, erased.root, now)
  <2>1. SetOf(root, elements) /\ Raw!Balanced(root)
    BY DEF IInv
  <2> QED
    BY <2>1, EraseFromSet
<1>2. elements' = now /\ root' = erased.root /\ (it' = NoIterator \/ it' = next)
  BY DEF WithKey
<1> HIDE DEF erased, now, next
<1>3. IteratorIsValid(it', refused', root', now)
  BY <1>1, <1>2, ValidIsEnough, NoIteratorIsEnough
<1> QED
  BY <1>1, <1>2, <1>3 DEF IInv

\* A step that only returns an iterator, which is valid.
LEMMA ReturnKeeps ==
    ASSUME IInv, UNCHANGED <<root, elements>>, refused' \in BOOLEAN, ValidIn(it', root, elements)
    PROVE  IInv'
<1>1. IteratorIsValid(it', refused', root, elements)
  BY ValidIsEnough
<1> QED
  BY <1>1 DEF IInv

\* Every step keeps the invariant.
LEMMA NextInvariant == IInv /\ [Next]_vars => IInv'
<1> SUFFICES ASSUME IInv, [Next]_vars PROVE IInv'
  OBVIOUS
<1>1. /\ SetOf(root, elements) /\ Raw!Balanced(root)
      /\ IteratorIsValid(it, refused, root, elements)
  BY DEF IInv
<1>2. /\ \A e \in elements : e.key \in KeyType
      /\ Size(root) \in Nat
  BY <1>1, SetProperties
<1>3. ASSUME NEW e \in Elements, InsertValue(e) \/ InsertOrAssign(e)
      PROVE  IInv'
  BY <1>3, InsertStepKeeps
<1>4. ASSUME NEW k \in KeyType, EraseKey(k)
      PROVE  IInv'
  BY <1>4, EraseStepKeeps DEF EraseKey
<1>5. ASSUME NEW k \in KeyType, Lookup(k)
      PROVE  IInv'
  <2>1. /\ UNCHANGED <<root, elements>> /\ refused' = FALSE
        /\ \/ it' = OrEnd(Find(root, k))
           \/ it' = OrEnd(LowerBound(root, k))
           \/ it' = OrEnd(UpperBound(root, k))
    BY <1>5 DEF Lookup, Return
  <2>2. ValidIn(it', root, elements)
    BY <1>1, <2>1, QueriesAreValid DEF OrEnd
  <2> QED
    BY <2>1, <2>2, ReturnKeeps
<1>6. CASE EraseAt
  <2>1. PICK e \in elements : it.node = <<e.key>>
    BY <1>1, <1>6 DEF EraseAt, IteratorIsValid
  <2>2. it.node[1] = e.key /\ e.key \in KeyType
    BY <1>2, <2>1
  <2> QED
    BY <1>6, <2>2, EraseStepKeeps DEF EraseAt
<1>7. CASE Clear
  <2>1. IteratorIsValid(NoIterator, FALSE, Nil, {})
    BY NoIteratorIsEnough
  <2> QED
    BY <1>7, <2>1, EmptySet DEF Clear, IInv
<1>8. ASSUME NEW idx \in 0..Cardinality(KeyType), SelectAt(idx)
      PROVE  IInv'
  <2>1. idx \in Nat
    OBVIOUS
  <2>2. UNCHANGED <<root, elements>> /\ refused' = FALSE /\ it' = OrEnd(Position(idx, Select(root, idx)))
    BY <1>8 DEF SelectAt, Return
  <2>3. /\ idx < Size(root) => /\ ValidIn(Position(idx, Select(root, idx)), root, elements)
                               /\ Select(root, idx) # Nil
        /\ idx >= Size(root) => Select(root, idx) = Nil
    BY <1>1, <2>1, SelectsElement
  <2>4. ValidIn(OrEnd(Position(idx, Select(root, idx))), root, elements)
    <3>1. CASE idx < Size(root)
      BY <2>3, <3>1, PositionHas DEF OrEnd
    <3>2. CASE idx >= Size(root)
      BY <2>3, <3>2, PositionHas DEF OrEnd, ValidIn
    <3> QED
      BY <1>2, <2>1, <3>1, <3>2
  <2> QED
    BY <2>2, <2>4, ReturnKeeps
<1>9. ASSUME NEW n \in {-1, 1, 2}, Advance(n)
      PROVE  IInv'
  <2> DEFINE idx == it.idx + n
  <2>1. idx \in 0..Size(root)
    BY <1>9 DEF Advance
  <2>2. it' = Position(idx, Select(root, idx)) /\ UNCHANGED <<root, elements, refused>>
    BY <1>9 DEF Advance
  <2> HIDE DEF idx
  <2>3. idx \in Nat /\ (idx < Size(root) \/ idx = Size(root))
    BY <1>2, <2>1
  <2>4. /\ idx < Size(root) => ValidIn(Position(idx, Select(root, idx)), root, elements)
        /\ idx >= Size(root) => Select(root, idx) = Nil
    BY <1>1, <2>3, SelectsElement
  <2>5. ValidIn(Position(idx, Select(root, idx)), root, elements)
    BY <1>2, <2>3, <2>4 DEF ValidIn, End
  <2>6. refused' \in BOOLEAN
    BY <1>1, <2>2 DEF IteratorIsValid
  <2> QED
    BY <2>2, <2>5, <2>6, ReturnKeeps
<1>10. CASE UNCHANGED vars
  BY <1>1, <1>10 DEF vars, IInv
<1> QED
  BY <1>3, <1>4, <1>5, <1>6, <1>7, <1>8, <1>9, <1>10 DEF Next

\* The invariant, always.
THEOREM SpecInvariant == Spec => []IInv
BY InitInvariant, NextInvariant, PTL DEF Spec

\* The tree holds the elements that were inserted and not erased, as a search
\* tree with right sizes, whatever the calls and however many keys.
THEOREM TreeHoldsElementsAlways == Spec => []TreeHoldsElements
<1>1. IInv => TreeHoldsElements
  BY SetProperties DEF IInv, SetOf, TreeHoldsElements
<1> QED
  BY <1>1, SpecInvariant, PTL

\* Every query answers as on the ordered set of the elements.
THEOREM QueriesAgreeAlways == Spec => []QueriesAgree
<1>1. ASSUME IInv, NEW k \in KeyType
      PROVE  /\ OrEnd(Find(root, k)) = FirstOf(WithKey(k))
             /\ OrEnd(LowerBound(root, k)) = FirstOf({e \in elements : e.key >= k})
             /\ OrEnd(UpperBound(root, k)) = FirstOf({e \in elements : e.key > k})
             /\ WithKey(k) # {} => Select(root, RankOf(k)) = <<k>>
             /\ LET erased == Erase(root, k, 0, Nil)
                IN /\ erased.rank = RankOf(k)
                   /\ WithKey(k) = {erased.extracted[i] : i \in DOMAIN erased.extracted}
  <2>1. SetOf(root, elements)
    BY <1>1 DEF IInv
  <2>2. \A candidates : FirstOf(candidates) = First(elements, candidates)
    BY DEF FirstOf, First, RankOf, Rank
  <2>3. RankOf(k) = Rank(elements, k)
    BY DEF RankOf, Rank
  <2>4. WithKey(k) = {e \in elements : e.key = k}
    BY DEF WithKey
  <2>5. \A p : OrEnd(p) = IF p.node = Nil THEN End(root) ELSE p
    BY DEF OrEnd
  <2>6. QueriesOn(root, elements, k)
    BY <2>1, QueriesOfSet
  <2> QED
    BY <2>2, <2>3, <2>4, <2>5, <2>6 DEF QueriesOn
<1>2. IInv => QueriesAgree
  BY <1>1 DEF QueriesAgree
<1> QED
  BY <1>2, SpecInvariant, PTL

\* Every node of the tree is in balance after every call: the comment above
\* Check() does not promise it, the code does it.
THEOREM AlwaysBalancedAlways == Spec => []AlwaysBalanced
<1>1. IInv => AlwaysBalanced
  BY SameContents, SameBalance DEF IInv, AlwaysBalanced, Raw!Balanced
<1> QED
  BY <1>1, SpecInvariant, PTL

\* An iterator that is not from a refused insert stays at the rank of its
\* element, or at the end.
THEOREM IteratorsHaveRanksAlways == Spec => []IteratorsHaveRanks
<1>1. IInv => IteratorsHaveRanks
  BY DEF IInv, IteratorIsValid, ValidIn, IteratorsHaveRanks, RankOf, Rank
<1> QED
  BY <1>1, SpecInvariant, PTL

\* erase(iterator) returns the successor of the element that it erases.
THEOREM EraseReturnsSuccessorAlways == Spec => EraseReturnsSuccessor
<1> DEFINE Returns == \A e \in elements :
               it.node = <<e.key>> /\ EraseAt =>
                   it' = FirstOf({f \in elements : f.key > e.key})'
<1>1. ASSUME IInv, NEW e \in elements, it.node = <<e.key>>, EraseAt
      PROVE  it' = FirstOf({f \in elements : f.key > e.key})'
  <2> DEFINE erased == Erase(root, e.key, 0, Nil)
             now == elements \ {f \in elements : f.key = e.key}
             next == IF erased.successor = Nil THEN End(erased.root)
                     ELSE Position(erased.rank, erased.successor)
  <2>1. it.node[1] = e.key
    BY <1>1
  <2>2. it' = next /\ elements' = now
    BY <1>1, <2>1 DEF EraseAt, WithKey
  <2>3. next = First(now, {f \in now : f.key > e.key})
    <3>1. SetOf(root, elements) /\ Raw!Balanced(root)
      BY <1>1 DEF IInv
    <3>2. e.key \in KeyType
      BY <3>1, SetProperties
    <3>3. \E f \in elements : f.key = e.key
      OBVIOUS
    <3> QED
      BY <3>1, <3>2, <3>3, EraseFromSet
  <2> HIDE DEF next, now
  <2>4. it' = First(elements', {f \in elements' : f.key > e.key})
    BY <2>2, <2>3
  <2> QED
    BY <2>4 DEF FirstOf, First, RankOf, Rank
<1>2. IInv /\ [Next]_vars => [Returns]_vars
  BY <1>1
<1> QED
  BY <1>2, SpecInvariant, PTL DEF Spec, EraseReturnsSuccessor

=============================================================================
