-------------------------------- MODULE OSTree --------------------------------
(***************************************************************************)
(* The order statistic tree (ostree.h, ostree.cc), as operators on trees.  *)
(* A node has an entry, which is a timestamp with a value, the weight of   *)
(* its subtree, here the size, and two subtrees.  Later timestamps are to  *)
(* the left, so that the rank of an entry is the number of later entries.  *)
(***************************************************************************)
EXTENDS Integers, Sequences, FiniteSets

CONSTANT Stored  \* the values that are stored with timestamps

Entry == [ts : Nat, value : Stored]

Later(ts, other) == ts > other

TimestampOf(entry) == entry.ts

INSTANCE SizedTree WITH
    KeyType <- Nat, Value <- Entry, LessThan <- Later, KeyOf <- TimestampOf

Leaf(ts, value) == Node(Nil, [ts |-> ts, value |-> value], Nil)

\* Faulty: looks at the left side only.
BadBalanceLeft(t) == Size(t.left) + 1 > 2 * (Size(t.right) + 1)

\* Subtrees differ by more than a factor of two, the parent counted in both.
BadBalance(t) ==
    LET lweight == Size(t.left) + 1
        rweight == Size(t.right) + 1
    IN lweight > 2 * rweight \/ rweight > 2 * lweight

\* The entries from left to right.
ToArray(t) ==
    LET array[m \in Below(t)] ==
            IF m = Nil THEN <<>> ELSE array[m.left] \o <<m.value>> \o array[m.right]
    IN array[t]

\* The balanced tree of elements lo..hi-1 of an array indexed from 0.
FromArray(array, lo, hi) ==
    LET n == Len(array)
        tree[r \in (0..n) \X (0..n)] ==
            LET mid == r[1] + (r[2] - r[1]) \div 2
            IN IF r[1] >= r[2] THEN Nil
               ELSE Node(tree[<<r[1], mid>>], array[mid + 1], tree[<<mid + 1, r[2]>>])
    IN tree[<<lo, hi>>]

\* Faulty: leaves out the last element.
RebalanceButLast(t) == FromArray(ToArray(t), 0, Size(t) - 1)

Rebalance(t) == FromArray(ToArray(t), 0, Size(t))

\* A subtree is rebalanced on the way down, before the insertion below it.
OnTheWayDown(t) == IF BadBalance(t) THEN Rebalance(t) ELSE t

Insert(t, newts, newval) ==
    LET smaller == {m \in Below(t) : Size(m) <= Size(t)}
        insert[m \in smaller] ==
            IF m = Nil THEN Leaf(newts, newval)
            ELSE LET b == OnTheWayDown(m)
                 IN IF newts > Key(b)
                    THEN [b EXCEPT !.left = insert[@], !.size = @ + 1]
                    ELSE [b EXCEPT !.right = insert[@], !.size = @ + 1]
    IN insert[t]

\* Faulty: hangs the leftmost node, with the left subtree, below the right one.
NewRootDeep(t, leftmost, right) ==
    LET new == Node(t.left, leftmost, Nil)
        hang[m \in Below(right)] ==
            IF m = Nil THEN new ELSE Node(hang[m.left], m.value, m.right)
    IN hang[right]

\* The leftmost node of the right subtree as the root in the place of t, above
\* what is left of the right subtree.
NewRoot(t, leftmost, right) ==
    [value |-> leftmost, size |-> t.size - 1, left |-> t.left, right |-> right]

Removed(removed, tree) == [removed |-> removed, tree |-> tree]

\* The entry that remove() hands to its caller and the tree it leaves: of a
\* subtree a function of the ranks there are, as it asserts.
Remove(t, rank) ==
    LET remove[m \in Below(t)] == [r \in 0..(Size(m) - 1) |->
            LET lweight == Size(m.left)
                on_left == remove[m.left][r]
                on_right == remove[m.right][r - lweight - 1]
                leftmost == remove[m.right][0]
            IN IF r < lweight
               THEN Removed(on_left.removed, [m EXCEPT !.left = on_left.tree, !.size = @ - 1])
               ELSE IF r > lweight
               THEN Removed(on_right.removed, [m EXCEPT !.right = on_right.tree, !.size = @ - 1])
               ELSE IF m.left = Nil THEN Removed(m.value, m.right)
               ELSE IF m.right = Nil THEN Removed(m.value, m.left)
               ELSE Removed(m.value, NewRoot(m, leftmost.removed, leftmost.tree))]
    IN remove[t][rank]

Found(rank, value) == [rank |-> rank, value |-> value]

\* The rank and the value found for a timestamp: of a subtree a function of the
\* timestamps that are in it, as it assumes.
Find(t, searchts) ==
    LET find[m \in Nodes(t)] == [ts \in Keys(m) |->
            LET lweight == Size(m.left)
                on_right == find[m.right][ts]
            IN IF ts = Key(m) THEN Found(lweight, m.value.value)
               ELSE IF ts > Key(m) THEN find[m.left][ts]
               ELSE Found(on_right.rank + 1 + lweight, on_right.value)]
    IN find[t][searchts]

\* get_last: the value of the element of greatest rank.
LastValue(t) ==
    LET last[m \in Below(t) \ {Nil}] ==
            IF m.right = Nil THEN m.value.value ELSE last[m.right]
    IN last[t]

-----------------------------------------------------------------------------
(* What is said of trees                                                   *)

Depth(t) ==
    LET depth[m \in Below(t)] ==
            IF m = Nil THEN 0
            ELSE IF depth[m.left] >= depth[m.right] THEN 1 + depth[m.left]
            ELSE 1 + depth[m.right]
    IN depth[t]

\* The subtrees met on the way from the root to a timestamp.
Path(t, ts) == {n \in Nodes(t) : ts \in Keys(n)}

=============================================================================
