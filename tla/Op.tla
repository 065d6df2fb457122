--------------------------------- MODULE Op ---------------------------------
(***************************************************************************)
(* The operations of the Increment-and-Freeze algorithm (op.h) and the     *)
(* array of them that populate_operations builds from a vector of requests *)
(* (increment_and_freeze.cc).                                              *)
(*                                                                         *)
(* An Op acts on the distances of the requests start..end of a projection: *)
(*   Prefix t   adds 1 to the distances of start..t                        *)
(*   Postfix t  adds 1 to the distances of t..end and freezes t            *)
(* and every Op, the Null ones too, then adds full_amnt to all of them.    *)
(* The code packs the type and the target in one word whose value 0 means  *)
(* Null: here the three fields are a record and a Null has target 0.       *)
(***************************************************************************)
EXTENDS Integers, Sequences, FiniteSets, FiniteSetsExt, TLC

\* op.h:67: a Prefix whose target is 0 is, by its encoding, a Null.
PrefixOp(target, full) ==
    [type |-> IF target = 0 THEN "Null" ELSE "Prefix",
     target |-> target, full |-> full]

\* op.h:71, used with a target of at least 1.
PostfixOp(target) == [type |-> "Postfix", target |-> target, full |-> 0]

\* op.h:74: the Op() that fills vectors and that replaces a moved operation.
NoImpact == [type |-> "Null", target |-> 0, full |-> 0]

IsNull(op) == op.target = 0

\* Faulty: clears the type of the operation and forgets its target.
MakeNullKeepingTarget(op) == [op EXCEPT !.type = "Null"]

\* op.h:86: the full amount of the operation survives.
MakeNull(op) == [type |-> "Null", target |-> 0, full |-> op.full]

AddFull(op, amount) == [op EXCEPT !.full = @ + amount]

IncAmnt == 1

\* Faulty: compares with the end of the left side as if it were excluded.
MoveToScratchOffByOne(op, projStart) ==
    op.type = "Postfix" /\ op.target < projStart - 1

\* op.h:90: the operation crosses from the right side to the left one.
MoveToScratch(op, projStart) == op.type = "Postfix" /\ op.target < projStart

\* Faulty: takes the Postfix with this target for the boundary.
IsBoundaryOpPostfix(op, leftEnd) == op.type = "Postfix" /\ op.target = leftEnd

IsBoundaryOp(op, leftEnd) == op.type = "Prefix" /\ op.target = leftEnd

\* Faulty: forgets that a Prefix that ends on the right covers all the left.
FullAmountOnly(op, rightStart) == op.full

FullIncrToLeft(op, rightStart) ==
    IF op.type = "Prefix" /\ op.target >= rightStart
    THEN IncAmnt + op.full
    ELSE op.full

-----------------------------------------------------------------------------
\* A request is [addr, access_number]; requests are ordered by address, then
\* by access number (increment_and_freeze.h, request::operator<).
ReqLess(r, q) ==
    \/ r.addr < q.addr
    \/ r.addr = q.addr /\ r.access_number < q.access_number

\* A sequence as itself; TLC computes its elements here, once, and not again
\* at every use of one of them.
Vector(seq) == SubSeq(seq, 1, Len(seq))

\* std::sort: each request goes behind those that are less than it.
SortedBy(reqs, Less(_, _)) ==
    LET lesser(i) == {j \in 1..Len(reqs) : Less(reqs[j], reqs[i])}
    IN Vector([m \in 1..Len(reqs) |->
           reqs[CHOOSE i \in 1..Len(reqs) : Cardinality(lesser(i)) = m - 1]])

SortedRequests(reqs) == SortedBy(reqs, ReqLess)

\* The previous element of the sorted vector accesses the same address.
FollowsSameAddr(sorted, i) == i > 1 /\ sorted[i].addr = sorted[i-1].addr

UniqueIds(sorted) ==
    Cardinality({i \in 1..Len(sorted) : ~FollowsSameAddr(sorted, i)})

\* The two slots of every access: a Prefix, and a Postfix when the sorted
\* vector has an earlier access of the same address just before it.
UncompactedOperations(sorted) ==
    LET n == Len(sorted)
        Writer(k) == {i \in 1..n : (k + 1) \div 2 = sorted[i].access_number}
        Slot(k, i) ==
            IF k % 2 = 1
            THEN PrefixOp(sorted[i].access_number - 1,
                          IF FollowsSameAddr(sorted, i) THEN -1 ELSE 0)
            ELSE IF FollowsSameAddr(sorted, i)
                 THEN PostfixOp(sorted[i-1].access_number)
                 ELSE NoImpact
    IN Vector([k \in 1..2*n |->
           IF Writer(k) = {} THEN NoImpact
           ELSE Slot(k, CHOOSE i \in Writer(k) : TRUE)])

\* A finite set of integers as an increasing sequence.
Ascending(S) ==
    Vector([m \in 1..Cardinality(S) |->
        CHOOSE k \in S : Cardinality({j \in S : j < k}) = m - 1])

\* The first slot always stays; the other Null ones are squeezed out.
Compact(ops) ==
    LET kept == Ascending({k \in 1..Len(ops) : k = 1 \/ ~IsNull(ops[k])})
    IN Vector([m \in 1..Len(kept) |-> ops[kept[m]]])

PopulateOperations(sorted) == Compact(UncompactedOperations(sorted))

\* Faulty: forgets the last element of the sorted vector.
SurvivorsButLast(sorted) ==
    {sorted[i] : i \in {j \in 1..(Len(sorted) - 1) : ~FollowsSameAddr(sorted, j + 1)}}

\* The requests that survive a chunk: those that are followed, in the sorted
\* vector, by another address or by nothing.
Survivors(sorted) ==
    {sorted[i] : i \in {j \in 1..Len(sorted) :
                          j = Len(sorted) \/ ~FollowsSameAddr(sorted, j + 1)}}

\* A set of requests as the vector std::sort makes of it, by access number.
ByAccessNumber(S) ==
    {v \in [1..Cardinality(S) -> S] :
        \A i, j \in 1..Cardinality(S) :
            i < j => v[i].access_number < v[j].access_number}

-----------------------------------------------------------------------------
\* What one operation adds to the distance of request j of start..end, and
\* what operations from..to of ops leave there (the loops of do_base_case).
Effect(op, j) ==
    IF \/ op.type = "Prefix" /\ j <= op.target
       \/ op.type = "Postfix" /\ j >= op.target
    THEN IncAmnt
    ELSE 0

\* The distance that the Postfix at position k of ops freezes when ops are
\* applied in order from position first: the increments up to and including
\* its own, and the full amounts of the operations before it.
FrozenDistance(ops, first, k) ==
      SumFunction([m \in first..k |-> Effect(ops[m], ops[k].target)])
    + SumFunction([m \in first..(k - 1) |-> ops[m].full])

=============================================================================
