-------------------------- MODULE OrderStatisticSet --------------------------
(***************************************************************************)
(* OrderStatisticSet and OrderStatisticMap (container/), which share their *)
(* tree and their interface: a tree and the iterator that the last call    *)
(* returned, under any sequence of calls.  An element is a key with what   *)
(* it is mapped to; without insert_or_assign, and with one value for every *)
(* key, this is the set.  Every change of the tree invalidates the         *)
(* iterators there were.                                                   *)
(***************************************************************************)
EXTENDS Integers, FiniteSets

CONSTANTS
    KeyType,       \* the keys, integers
    AssignedKeys   \* those of them that are inserted with two values

ASSUME KeyTypeAssumption == KeyType \subseteq Int /\ AssignedKeys \subseteq KeyType

Elements == [key : KeyType, mapped : {0}] \cup [key : AssignedKeys, mapped : {1}]

Less(a, b) == a < b

\* RawMapNode::key
FirstOfPair(value) == value.key

INSTANCE RawOrderStatisticSet WITH
    Value <- Elements, LessThan <- Less, KeyOf <- FirstOfPair

NoIterator == Position(-1, Nil)

VARIABLES
    root,      \* the root of the tree
    elements,  \* the elements the set should have
    it,        \* the last iterator returned, NoIterator if it is invalid
    refused    \* whether it comes from an insert that found its key present

vars == <<root, elements, it, refused>>

Init ==
    /\ root = Nil
    /\ elements = {}
    /\ it = NoIterator
    /\ refused = FALSE

End(tree) == Position(Size(tree), Nil)

WithKey(k) == {e \in elements : e.key = k}

\* The iterator that insert and insert_or_assign return.
ReturnInserted(value, inserted) ==
    /\ root' = inserted.root
    /\ it' = Position(inserted.idx, <<value.key>>)
    /\ refused' = ~inserted.did_insert

\* insert: an element that is there stays as it is.
InsertValue(value) ==
    /\ ReturnInserted(value, Insert(root, value, 0, FALSE))
    /\ elements' = IF WithKey(value.key) = {} THEN elements \cup {value} ELSE elements

\* Faulty: inserts only.
InsertOrKeep(value) ==
    /\ ReturnInserted(value, Insert(root, value, 0, FALSE))
    /\ elements' = (elements \ WithKey(value.key)) \cup {value}

\* insert_or_assign of the map
InsertOrAssign(value) ==
    /\ ReturnInserted(value, Insert(root, value, 0, TRUE))
    /\ elements' = (elements \ WithKey(value.key)) \cup {value}

\* erase(iterator): the key of the node decides, not the index.
EraseAt ==
    /\ it.node # Nil
    /\ LET erased == Erase(root, it.node[1], 0, Nil)
       IN /\ root' = erased.root
          /\ it' = IF erased.successor = Nil THEN End(erased.root)
                   ELSE Position(erased.rank, erased.successor)
    /\ refused' = FALSE
    /\ elements' = elements \ WithKey(it.node[1])

\* erase(key), and extract(key), which hands out the element and its rank too.
EraseKey(k) ==
    /\ root' = Erase(root, k, 0, Nil).root
    /\ it' = NoIterator
    /\ refused' = FALSE
    /\ elements' = elements \ WithKey(k)

Clear ==
    /\ root' = Nil
    /\ it' = NoIterator
    /\ refused' = FALSE
    /\ elements' = {}

\* The iterator made of what a query found.
OrEnd(position) == IF position.node = Nil THEN End(root) ELSE position

Return(iterator) ==
    /\ it' = iterator
    /\ refused' = FALSE
    /\ UNCHANGED <<root, elements>>

\* find, lower_bound, upper_bound and select
Lookup(k) ==
    \/ Return(OrEnd(Find(root, k)))
    \/ Return(OrEnd(LowerBound(root, k)))
    \/ Return(OrEnd(UpperBound(root, k)))

SelectAt(idx) == Return(OrEnd(Position(idx, Select(root, idx))))

\* operator+=: selects anew by index; the program stops if it leaves 0..size.
Advance(n) ==
    /\ it # NoIterator
    /\ it.idx + n \in 0..Size(root)
    /\ it' = Position(it.idx + n, Select(root, it.idx + n))
    /\ UNCHANGED <<root, elements, refused>>

Next ==
    \/ \E e \in Elements : InsertValue(e) \/ InsertOrAssign(e)
    \/ \E k \in KeyType : EraseKey(k) \/ Lookup(k)
    \/ EraseAt
    \/ Clear
    \/ \E idx \in 0..Cardinality(KeyType) : SelectAt(idx)
    \/ \E n \in {-1, 1, 2} : Advance(n)

Spec == Init /\ [][Next]_vars

-----------------------------------------------------------------------------
(* Properties                                                              *)

RankOf(k) == Cardinality({e \in elements : e.key < k})

\* The iterator at the least of some elements, or at the end.
FirstOf(candidates) ==
    IF candidates = {} THEN Position(Cardinality(elements), Nil)
    ELSE LET first == CHOOSE e \in candidates : \A f \in candidates : e.key <= f.key
         IN Position(RankOf(first.key), <<first.key>>)

\* The tree is a search tree with right sizes and holds the elements that were
\* inserted and not erased, each with what it was last mapped to.
TreeHoldsElements ==
    IsSearchTree(root) /\ Values(root) = elements /\ Size(root) = Cardinality(elements)

\* Every query answers as it would on the ordered set of elements: find, the
\* two bounds, select, and the element and the rank that extract hands out.
QueriesAgree ==
    \A k \in KeyType :
        /\ OrEnd(Find(root, k)) = FirstOf(WithKey(k))
        /\ OrEnd(LowerBound(root, k)) = FirstOf({e \in elements : e.key >= k})
        /\ OrEnd(UpperBound(root, k)) = FirstOf({e \in elements : e.key > k})
        /\ WithKey(k) # {} => Select(root, RankOf(k)) = <<k>>
        /\ LET erased == Erase(root, k, 0, Nil)
           IN /\ erased.rank = RankOf(k)
              /\ WithKey(k) = {erased.extracted[i] : i \in DOMAIN erased.extracted}

\* The balance that Check() wants at every node: the comment above Check() does
\* not promise it ("we don't manage to keep the tree always balanced"), the
\* rotations after each insertion and deletion do achieve it.
AlwaysBalanced == \A n \in Nodes(root) : IsInBalance(n)

\* An iterator has the index of its element, or is at the end; left out is the
\* one from an insert of a key that was present (see InsertedAtRank).
IteratorsHaveRanks ==
    (it # NoIterator /\ ~refused) =>
        it = End(root) \/ \E e \in elements : it = Position(RankOf(e.key), <<e.key>>)

\* erase(iterator): "returning an iterator that points at the successor".
EraseReturnsSuccessor ==
    [][\A e \in elements :
          it.node = <<e.key>> /\ EraseAt =>
              it' = FirstOf({f \in elements : f.key > e.key})']_vars

\* The comment of Insert(): "inserted_at_idx is the rank of k after the
\* insertion", also when k was there before.
InsertedAtRank ==
    [][\A e \in Elements : InsertValue(e) => it'.idx = RankOf(e.key)']_vars

=============================================================================
