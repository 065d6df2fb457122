------------------------------- MODULE SizedTree -------------------------------
(***************************************************************************)
(* Search trees whose nodes have a value, the size of their subtree and    *)
(* two subtrees: what the two order statistic trees of the repository have *)
(* in common.  The null pointer is Nil.                                    *)
(***************************************************************************)
EXTENDS Integers, Sequences, FiniteSets

CONSTANTS
    KeyType,         \* the keys
    Value,           \* the values of nodes, each with a key
    LessThan(_, _),  \* what is smaller is on the left, a strict order of the keys
    KeyOf(_)         \* the key of a value

Nil == <<>>

Size(n) == IF n = Nil THEN 0 ELSE n.size

\* The trees up to a height.
Tree[h \in Nat] ==
    IF h = 0 THEN {Nil}
    ELSE {Nil} \cup {n \in [value : Value, size : Nat, left : Tree[h - 1], right : Tree[h - 1]] :
                        n.size = 1 + Size(n.left) + Size(n.right)}

\* The trees no higher than the number of nodes of n: n, its subtrees and theirs,
\* over which the member functions recurse, are among them.
Below(n) == Tree[Size(n)]

\* A node with its size recomputed.
Node(left, value, right) ==
    [value |-> value, size |-> 1 + Size(left) + Size(right),
     left |-> left, right |-> right]

Key(n) == KeyOf(n.value)

-----------------------------------------------------------------------------
(* What is said of trees                                                   *)

Nodes(n) ==
    LET nodes[m \in Below(n)] ==
            IF m = Nil THEN {} ELSE {m} \cup nodes[m.left] \cup nodes[m.right]
    IN nodes[n]

Values(n) == {m.value : m \in Nodes(n)}

Keys(n) == {Key(m) : m \in Nodes(n)}

\* Sizes count nodes and keys are in order, at every node and for all pairs.
IsSearchTree(n) ==
    \A m \in Nodes(n) :
        /\ m.size = Cardinality(Nodes(m))
        /\ \A k \in Keys(m.left) : LessThan(k, Key(m))
        /\ \A k \in Keys(m.right) : LessThan(Key(m), k)

=============================================================================
