------------------------- MODULE RawOrderStatisticSet -------------------------
(***************************************************************************)
(* The weight-balanced tree of container/raw_order_statistic_set.h, as     *)
(* operators on trees.  Of a set the value of a node is the key, of a map  *)
(* it is the key with what it is mapped to.  Every assignment of a child   *)
(* recomputes the summary of a node.  A reference to a node stays valid    *)
(* until its element is erased and keys are unique, so that a Node* is     *)
(* modelled as the key it leads to: <<key>>, or Nil.                       *)
(***************************************************************************)
EXTENDS Integers, Sequences, FiniteSets

CONSTANTS
    KeyType,         \* the keys
    Value,           \* the values of nodes, each with a key
    LessThan(_, _),  \* the comparison functor, a strict order of the keys
    KeyOf(_)         \* Node::key, the key of a value

INSTANCE SizedTree

\* The pointers that can be handed down.
Links == Seq(KeyType)

RotateLeft(n) ==
    Node(Node(n.left, n.value, n.right.left), n.right.value, n.right.right)

RotateRight(n) ==
    Node(n.left.left, n.left.value, Node(n.left.right, n.value, n.right))

\* Faulty: leaves out the rotation of the child.
RotateOnce(n) == RotateLeft(n)

RotateRightLeft(n) == RotateLeft(Node(n.left, n.value, RotateRight(n.right)))

RotateLeftRight(n) == RotateRight(Node(RotateLeft(n.left), n.value, n.right))

kRebalanceFactor == 4

IsInBalance(n) ==
    LET left_weight == 1 + Size(n.left)
        total_weight == left_weight + 1 + Size(n.right)
    IN /\ total_weight <= kRebalanceFactor * left_weight
       /\ kRebalanceFactor * left_weight <= (kRebalanceFactor - 1) * total_weight

\* A single rotation restores the balance if the subtree that stays on its side
\* of the new root, "inner" in weight, is less than 2/3 of the heavy child.
SingleIsEnough(inner, outer) ==
    inner * (kRebalanceFactor - 1) < (inner + outer) * (kRebalanceFactor - 2)

MaybeRebalance(n) ==
    IF IsInBalance(n) THEN n
    ELSE IF Size(n.left) < Size(n.right)
    THEN IF SingleIsEnough(1 + Size(n.right.left), 1 + Size(n.right.right))
         THEN RotateLeft(n) ELSE RotateRightLeft(n)
    ELSE IF SingleIsEnough(1 + Size(n.left.right), 1 + Size(n.left.left))
         THEN RotateRight(n) ELSE RotateLeftRight(n)

Inserted(root, idx, did_insert) ==
    [root |-> root, idx |-> idx, did_insert |-> did_insert]

\* Faulty: does not count the node itself when it goes right.
InsertSkippingNode(n, v, rank_so_far, assign) ==
    LET insert[m \in Below(n)] == [rank \in Nat |->
            IF m = Nil THEN Inserted(Node(Nil, v, Nil), rank, TRUE)
            ELSE IF LessThan(Key(m), KeyOf(v))
            THEN LET sub == insert[m.right][rank + Size(m.left)]
                 IN [sub EXCEPT !.root = MaybeRebalance(Node(m.left, m.value, @))]
            ELSE IF LessThan(KeyOf(v), Key(m))
            THEN LET sub == insert[m.left][rank]
                 IN [sub EXCEPT !.root = MaybeRebalance(Node(@, m.value, m.right))]
            ELSE Inserted(IF assign THEN Node(m.left, v, m.right) ELSE m, rank, FALSE)]
    IN insert[n][rank_so_far]

\* The new root, the index reported for the key of v, and whether v was
\* inserted.  If its key was there, the value is replaced on request, and the
\* index does not count the smaller keys in the left subtree of the node.
Insert(n, v, rank_so_far, assign) ==
    LET insert[m \in Below(n)] == [rank \in Nat |->
            IF m = Nil THEN Inserted(Node(Nil, v, Nil), rank, TRUE)
            ELSE IF LessThan(Key(m), KeyOf(v))
            THEN LET sub == insert[m.right][rank + Size(m.left) + 1]
                 IN [sub EXCEPT !.root = MaybeRebalance(Node(m.left, m.value, @))]
            ELSE IF LessThan(KeyOf(v), Key(m))
            THEN LET sub == insert[m.left][rank]
                 IN [sub EXCEPT !.root = MaybeRebalance(Node(@, m.value, m.right))]
            ELSE Inserted(MaybeRebalance(IF assign THEN Node(m.left, v, m.right) ELSE m),
                          rank, FALSE)]
    IN insert[n][rank_so_far]

LeftMost(n) ==
    LET leftmost[m \in Below(n) \ {Nil}] ==
            IF m.left = Nil THEN Key(m) ELSE leftmost[m.left]
    IN leftmost[n]

\* What is left of a subtree without its greatest node, and that node.
UnlinkRightMost(n) ==
    LET unlink[m \in Below(n) \ {Nil}] ==
            IF m.right = Nil THEN [root |-> m.left, removed |-> m.value]
            ELSE [unlink[m.right] EXCEPT !.root = MaybeRebalance(Node(m.left, m.value, @))]
    IN unlink[n]

\* The subtree without its root: the predecessor of the root takes its place.
DeleteNode(n) ==
    IF n.left = Nil THEN n.right
    ELSE LET unlinked == UnlinkRightMost(n.left)
         IN MaybeRebalance(Node(unlinked.root, unlinked.removed, n.right))

\* What erase returns when it comes to a node with the key, or to none.
Erased(root, rank, successor, extracted) ==
    [root |-> root, rank |-> rank, successor |-> successor, extracted |-> extracted]

AtNode(m, rank, successor_node) ==
    Erased(DeleteNode(m), rank + Size(m.left),
           IF m.right # Nil THEN <<LeftMost(m.right)>> ELSE successor_node, <<m.value>>)

\* Faulty: passes the successor of the whole subtree on to the left.
EraseKeepingSuccessor(n, k, rank_so_far, successor_node) ==
    LET erase[m \in Below(n)] == [rank \in Nat |-> [next \in Links |->
            IF m = Nil THEN Erased(Nil, rank, Nil, Nil)
            ELSE IF LessThan(Key(m), k)
            THEN [erase[m.right][rank + 1 + Size(m.left)][next]
                     EXCEPT !.root = MaybeRebalance(Node(m.left, m.value, @))]
            ELSE IF LessThan(k, Key(m))
            THEN [erase[m.left][rank][next]
                     EXCEPT !.root = MaybeRebalance(Node(@, m.value, m.right))]
            ELSE AtNode(m, rank, next)]]
    IN erase[n][rank_so_far][successor_node]

\* The new root, the rank of k, the node after k, and the value taken out.
Erase(n, k, rank_so_far, successor_node) ==
    LET erase[m \in Below(n)] == [rank \in Nat |-> [next \in Links |->
            IF m = Nil THEN Erased(Nil, rank, Nil, Nil)
            ELSE IF LessThan(Key(m), k)
            THEN [erase[m.right][rank + 1 + Size(m.left)][next]
                     EXCEPT !.root = MaybeRebalance(Node(m.left, m.value, @))]
            ELSE IF LessThan(k, Key(m))
            THEN [erase[m.left][rank][<<Key(m)>>]
                     EXCEPT !.root = MaybeRebalance(Node(@, m.value, m.right))]
            ELSE AtNode(m, rank, next)]]
    IN erase[n][rank_so_far][successor_node]

\* An index and a pointer to the node there.  The index of a query that went
\* right is moved by the nodes it passed.
Position(idx, node) == [idx |-> idx, node |-> node]

PastLeft(n, position) == [position EXCEPT !.idx = Size(n.left) + 1 + @]

Find(n, k) ==
    LET find[m \in Below(n)] ==
            IF m = Nil THEN Position(0, Nil)
            ELSE IF LessThan(k, Key(m)) THEN find[m.left]
            ELSE IF LessThan(Key(m), k) THEN PastLeft(m, find[m.right])
            ELSE Position(Size(m.left), <<Key(m)>>)
    IN find[n]

\* The answer of a bound from the left subtree, or n if it has none.
OrThis(n, position) == IF position.node = Nil THEN Position(Size(n.left), <<Key(n)>>) ELSE position

LowerBound(n, k) ==
    LET bound[m \in Below(n)] ==
            IF m = Nil THEN Position(0, Nil)
            ELSE IF LessThan(k, Key(m)) THEN OrThis(m, bound[m.left])
            ELSE IF LessThan(Key(m), k) THEN PastLeft(m, bound[m.right])
            ELSE Position(Size(m.left), <<Key(m)>>)
    IN bound[n]

\* Faulty: stops at a key that is equal.
UpperBoundNotStrict(n, k) == LowerBound(n, k)

UpperBound(n, k) ==
    LET bound[m \in Below(n)] ==
            IF m = Nil THEN Position(0, Nil)
            ELSE IF LessThan(k, Key(m)) THEN OrThis(m, bound[m.left])
            ELSE PastLeft(m, bound[m.right])
    IN bound[n]

Select(n, idx) ==
    LET select[m \in Below(n)] == [i \in Nat |->
            IF Size(m) <= i THEN Nil
            ELSE IF Size(m.left) = i THEN <<Key(m)>>
            ELSE IF Size(m.left) > i THEN select[m.left][i]
            ELSE select[m.right][i - Size(m.left) - 1]]
    IN select[n][idx]

=============================================================================
