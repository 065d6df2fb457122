----------------------------- MODULE Projections -----------------------------
(***************************************************************************)
(* IncrementAndFreeze::update_hits_vector: the parallel recursion that     *)
(* turns a vector of requests into a histogram of stack distances          *)
(* (increment_and_freeze.cc, projection.cc, partition.h, projection.h).    *)
(*                                                                         *)
(* A task is one activation of do_projections.  It owns a projected        *)
(* sequence: the requests start..end and num_ops operations of the shared  *)
(* vector "operations", from position base on.  A task with many requests  *)
(* splits them from right to left into several partitions, hands each one  *)
(* but the leftmost to a new OpenMP task as soon as it is ready, and goes  *)
(* on in place with what remains; a task with few requests applies its     *)
(* operations one by one and increments the shared hits vector.            *)
(*                                                                         *)
(* The new task runs concurrently with the task that goes on partitioning  *)
(* in the same vector.  One step below is one iteration of a loop of one   *)
(* task; which task moves is up to the OpenMP runtime.                     *)
(***************************************************************************)
EXTENDS Op, StackDistance, SequencesExt

CONSTANTS
    Branching,    \* kIafBranching: partitions of a task that splits
    BaseCase,     \* kIafBaseCase: fewer requests apart than this: no split
    IntBits,      \* width of the int indexes of PartitionState
    MaskBits,     \* mask_bits: width of the target of an operation
    Addr,         \* addresses that requests may have, positive integers
    MaxRequests   \* bound on the number of requests of a call

\* The partitions but the last are leaves of a tree of depth
\* floor(log2(Branching)).
ASSUME BranchingAssumption ==
    /\ Branching \in Nat \ {0, 1}
    /\ \E k \in 1..Branching : Branching \in {2^k, 2^k + 1}
ASSUME BaseCaseAssumption == BaseCase \in Nat /\ BaseCase >= 1
ASSUME IntBitsAssumption == IntBits \in Nat /\ IntBits >= 2
ASSUME MaskBitsAssumption == MaskBits \in Nat
ASSUME AddrAssumption == Addr \subseteq Nat \ {0}
ASSUME MaxRequestsAssumption == MaxRequests \in Nat
\* True of all numbers; stated because the provers know nothing of powers.
ASSUME PowersAssumption ==
    /\ 2^0 = 1
    /\ \A k \in 0..(Branching + IntBits) : 2^k \in Nat \ {0} /\ 2^(k + 1) = 2 * 2^k

VARIABLES
    trace,        \* the addresses of the call's requests, in access order
    phase,        \* "called", "sorted", "built", "projecting" or "returned"
    requests,     \* the vector of requests, sorted in place
    operations,   \* the vector shared by all tasks, indexed from 0
    hits_vector,  \* the histogram shared by all tasks, indexed from 0
    tasks         \* the unfinished tasks, each under the start of its range

vars == <<trace, phase, requests, operations, hits_vector, tasks>>

-----------------------------------------------------------------------------
(* PartitionState (partition.h)                                            *)

\* The conversion of an unsigned count to int.
AsInt(x) ==
    ((x + 2^(IntBits - 1)) % 2^IntBits) - 2^(IntBits - 1)

\* ce_log2, the depth of the tree kept in incr_array.
TreeDepth == CHOOSE k \in 0..Branching : 2^k <= Branching /\ Branching < 2^(k+1)

\* The node at a depth of the tree on the way to a leaf, children of node k
\* at 2k+1 and 2k+2, and the turn taken there: 0 is left and 1 is right.
Node(leaf, depth) == 2^depth - 1 + (leaf % 2^TreeDepth) \div 2^(TreeDepth - depth)

Turn(leaf, depth) == (leaf \div 2^(TreeDepth - 1 - depth)) % 2

\* qry_and_upd_partition_incr: what it returns and the array it leaves.
IncrSum(incr_array, leaf) ==
    SumFunction([d \in 0..(TreeDepth - 1) |->
                    Turn(leaf, d) * incr_array[Node(leaf, d)]])

\* Faulty: counts at the nodes left to the right.
IncrUpdatedRight(incr_array, leaf) ==
    [k \in DOMAIN incr_array |->
        IF \E d \in 0..(TreeDepth - 1) : Node(leaf, d) = k /\ Turn(leaf, d) = 1
        THEN incr_array[k] + 1
        ELSE incr_array[k]]

IncrUpdated(incr_array, leaf) ==
    [k \in DOMAIN incr_array |->
        IF \E d \in 0..(TreeDepth - 1) : Node(leaf, d) = k /\ Turn(leaf, d) = 0
        THEN incr_array[k] + 1
        ELSE incr_array[k]]

\* The scratch spaces begin with a Null operation each.
EmptyScratch == [p \in 0..(Branching - 2) |-> <<NoImpact>>]

\* Faulty: merges behind the last operation.
NewPartitionStateOffByOne(num_ops) ==
    [incr_array     |-> [k \in 0..(Branching - 1) |-> 0],
     all_full_incr  |-> 0,
     scratch        |-> EmptyScratch,
     merge_into_idx |-> AsInt(num_ops),
     cur_idx        |-> AsInt(num_ops - 1)]

NewPartitionState(num_ops) ==
    [incr_array     |-> [k \in 0..(Branching - 1) |-> 0],
     all_full_incr  |-> 0,
     scratch        |-> EmptyScratch,
     merge_into_idx |-> AsInt(num_ops - 1),
     cur_idx        |-> AsInt(num_ops - 1)]

-----------------------------------------------------------------------------
(* Projected sequences and tasks                                           *)

ProjSequence(start, end, base, num_ops) ==
    [start |-> start, end |-> end, base |-> base, num_ops |-> num_ops]

Size(seq) == seq.end - seq.start + 1

\* A task at the first line of do_projections; "split" and "local" hold the
\* local variables of the two branches once one is taken.
NewTask(seq) == [pc |-> "do_projections", seq |-> seq, split |-> <<>>, local |-> <<>>]

\* Where the remaining sequence ends after the current iteration of the loop
\* of do_projections: the floor of fractional_end, which began at the last
\* request and has lost dist/num_partitions once per iteration.
LeftEnd(t) ==
    LET s == t.split
    IN (s.last * s.num_partitions - (s.num_partitions - s.i) * s.dist)
          \div s.num_partitions

\* The partition of the target of a Postfix:
\* ceil((target - (start-1)) / div_factor) - 1 with div_factor =
\* dist/num_partitions.
PartitionTarget(t, target) ==
    LET s == t.split
    IN ((target - (t.seq.start - 1)) * s.num_partitions + s.dist - 1)
          \div s.dist - 1

\* The two sides of a partition: "left should include all operations up to
\* merge_into_idx, right is all operations after that".
\* Faulty: leaves the slot at merge_into_idx to both sides.
LeftSideWithMergeSlot(t) ==
    ProjSequence(t.seq.start, LeftEnd(t), t.seq.base, t.split.state.merge_into_idx + 1)

LeftSide(t) ==
    ProjSequence(t.seq.start, LeftEnd(t), t.seq.base, t.split.state.merge_into_idx)

\* Faulty: does not deduct the operations of the left side.
RightSideWithAllOps(t) ==
    ProjSequence(LeftEnd(t) + 1, t.seq.end, t.seq.base + t.split.state.merge_into_idx,
                 t.seq.num_ops)

RightSide(t) ==
    ProjSequence(LeftEnd(t) + 1, t.seq.end, t.seq.base + t.split.state.merge_into_idx,
                 t.seq.num_ops - t.split.state.merge_into_idx)

Slot(t, idx) == t.seq.base + idx

CurOp(t) == operations[Slot(t, t.split.state.cur_idx)]

\* The slot to merge into once kept has been merged: a Null can be merged again.
NextMergeIdx(merge_into_idx, kept) ==
    IF IsNull(kept) THEN merge_into_idx ELSE merge_into_idx - 1

\* Faulty: does not step down to the slot for the Null operation.
NullSlotNotTaken(merge_into_idx, moved) == merge_into_idx - moved

\* The slot of the Null operation below the unstacked operations: where the
\* next partition is merged from.
NullIdx(merge_into_idx, moved) == merge_into_idx - moved - 1

\* A task with another state of its partitioning.
InState(t, pc, st) == [t EXCEPT !.pc = pc, !.split = [t.split EXCEPT !.state = st]]

SetTask(s, t) == tasks' = [tasks EXCEPT ![s] = t]

-----------------------------------------------------------------------------
Traces == {t \in UNION {[1..n -> Addr] : n \in 1..MaxRequests} : FirstUseOrdered(t)}

RequestVector(tr) == [i \in 1..Len(tr) |-> [addr |-> tr[i], access_number |-> i]]

Init ==
    /\ trace \in Traces
    /\ phase = "called"
    /\ requests = RequestVector(trace)
    /\ operations = <<>>
    /\ hits_vector = <<>>
    /\ tasks = <<>>

FromZero(seq) == [k \in 0..(Len(seq) - 1) |-> seq[k + 1]]

\* populate_operations: the requests are sorted, their operations built in
\* two slots each, and the Null ones squeezed out.
SortRequests ==
    /\ phase = "called"
    /\ phase' = "sorted"
    /\ requests' = SortedRequests(requests)
    /\ UNCHANGED <<trace, operations, hits_vector, tasks>>

BuildOperations ==
    /\ phase = "sorted"
    /\ phase' = "built"
    /\ operations' = UncompactedOperations(requests)
    /\ UNCHANGED <<trace, requests, hits_vector, tasks>>

\* Then update_hits_vector makes room in the hits vector and starts with one
\* task for the whole sequence.
StartProjections ==
    /\ phase = "built"
    /\ phase' = "projecting"
    /\ operations' = FromZero(Compact(operations))
    /\ hits_vector' = [d \in 0..UniqueIds(requests) |-> 0]
    /\ tasks' = [s \in {1} |-> NewTask(ProjSequence(1, Len(requests), 0,
                                                    Len(Compact(operations))))]
    /\ UNCHANGED <<trace, requests>>

\* Faulty: compares the number of requests with the size of the base case.
IsSmallStrictly(seq) == Size(seq) < BaseCase

IsSmall(seq) == seq.end - seq.start < BaseCase

\* do_projections: small sequences go to do_base_case, which begins with a
\* zeroed array of distances; others prepare the partitioning.
DoProjections(s) ==
    LET t == tasks[s]
        dist == Size(t.seq)
        num_partitions == Min({dist, Branching})
    IN  /\ t.pc = "do_projections"
        /\ IF IsSmall(t.seq)
           THEN SetTask(s, [t EXCEPT
                    !.pc = "base_case",
                    !.local = [idx |-> 0, full_amnt |-> 0,
                               distances |-> [j \in t.seq.start..t.seq.end |-> 0]]])
           ELSE SetTask(s, [t EXCEPT
                    !.pc = "partition",
                    !.split = [dist |-> dist, num_partitions |-> num_partitions,
                               last |-> t.seq.end, i |-> num_partitions - 1,
                               state |-> NewPartitionState(t.seq.num_ops)]])
        /\ UNCHANGED <<trace, phase, requests, operations, hits_vector>>

\* An iteration of the loop of partition(): cur_idx counts down to the
\* boundary operation.
Iterating(s) == tasks[s].pc = "partition" /\ tasks[s].split.state.cur_idx >= 0

\* The boundary operation, the Prefix that ends with the left side, is for
\* the left a full increment and for the right nothing but its full amount.
MergeBoundary(s) ==
    LET t == tasks[s]
        st == t.split.state
        op == CurOp(t)
        cur == Slot(t, st.cur_idx)
        merge == Slot(t, st.merge_into_idx)
        credited == [operations EXCEPT ![cur - 1] = AddFull(@, op.full + IncAmnt)]
    IN  /\ Iterating(s)
        /\ IsBoundaryOp(op, LeftEnd(t))
        /\ operations' =
             IF merge = cur
             THEN [credited EXCEPT ![cur] = MakeNull(op)]
             ELSE [credited EXCEPT ![merge] = AddFull(@, op.full), ![cur] = NoImpact]
        /\ SetTask(s, InState(t, "split", [st EXCEPT !.cur_idx = @ - 1]))
        /\ UNCHANGED <<trace, phase, requests, hits_vector>>

\* A Postfix whose target is on the left goes to the scratch space of the
\* target's partition, with the full increments that partition has not seen
\* yet; on the right it becomes a full increment.
MovePostfixToScratch(s) ==
    LET t == tasks[s]
        st == t.split.state
        op == CurOp(t)
        cur == Slot(t, st.cur_idx)
        merge == Slot(t, st.merge_into_idx)
        target == PartitionTarget(t, op.target)
        incrs == IncrSum(st.incr_array, target)
        stack == st.scratch[target]
        moved == AddFull(op, incrs + st.all_full_incr - Last(stack).full)
        all_full_incr == st.all_full_incr + op.full
    IN  /\ Iterating(s)
        /\ ~IsBoundaryOp(op, LeftEnd(t))
        /\ MoveToScratch(op, LeftEnd(t) + 1)
        /\ operations' =
             IF cur # merge
             THEN [operations EXCEPT ![merge] = AddFull(@, op.full + IncAmnt),
                                     ![cur] = NoImpact]
             ELSE [operations EXCEPT ![cur] = MakeNull(AddFull(op, IncAmnt))]
        /\ SetTask(s, InState(t, "partition",
             [st EXCEPT
                !.incr_array = IncrUpdated(@, target),
                !.all_full_incr = all_full_incr,
                !.scratch = [@ EXCEPT ![target] =
                    Front(stack) \o <<moved, AddFull(NoImpact, incrs + all_full_incr)>>],
                !.cur_idx = @ - 1]))
        /\ UNCHANGED <<trace, phase, requests, hits_vector>>

\* Any other operation stays on the right: it is merged into the Null
\* operation kept at merge_into_idx.
KeepOnRight(s) ==
    LET t == tasks[s]
        st == t.split.state
        op == CurOp(t)
        cur == Slot(t, st.cur_idx)
        merge == Slot(t, st.merge_into_idx)
        kept == IF merge = cur THEN op ELSE AddFull(op, operations[merge].full)
    IN  /\ Iterating(s)
        /\ ~IsBoundaryOp(op, LeftEnd(t))
        /\ ~MoveToScratch(op, LeftEnd(t) + 1)
        /\ operations' =
             IF merge = cur
             THEN operations
             ELSE [operations EXCEPT ![merge] = kept, ![cur] = NoImpact]
        /\ SetTask(s, InState(t, "partition",
             [st EXCEPT
                !.all_full_incr = @ + FullIncrToLeft(op, LeftEnd(t) + 1),
                !.merge_into_idx = NextMergeIdx(@, kept),
                !.cur_idx = @ - 1]))
        /\ UNCHANGED <<trace, phase, requests, hits_vector>>

\* The end of partition() and of an iteration of do_projections.  The right
\* side begins at merge_into_idx and becomes a new task; the scratch space of
\* the partition just left of it is unstacked below; the task goes on with
\* the left side, or, when that is one partition, projects it in turn.
SplitOff(s) ==
    LET t == tasks[s]
        st == t.split.state
        split_off_idx == t.split.i
        stack == st.scratch[split_off_idx - 1]
        moved == Front(stack)
        merge == st.merge_into_idx
        null_idx == NullIdx(merge, Len(moved))
        incrs_to_end == IncrSum(st.incr_array, split_off_idx - 1)
        left == LeftSide(t)
        right == RightSide(t)
        null_op == AddFull(operations[Slot(t, null_idx)],
                           st.all_full_incr + incrs_to_end - Last(stack).full)
        continued == InState(
            [t EXCEPT !.seq = left, !.split = [t.split EXCEPT !.i = @ - 1]],
            "partition",
            [st EXCEPT
                !.incr_array = IncrUpdated(@, split_off_idx - 1),
                !.scratch = [@ EXCEPT ![split_off_idx - 1] = <<>>],
                !.merge_into_idx = null_idx])
    IN  /\ t.pc = "split"
        /\ operations' = [k \in DOMAIN operations |->
             IF k \in Slot(t, merge - Len(moved))..Slot(t, merge - 1)
             THEN moved[Slot(t, merge) - k]
             ELSE IF k = Slot(t, null_idx) THEN null_op ELSE operations[k]]
        /\ tasks' = [u \in DOMAIN tasks \cup {right.start} |->
             IF u = right.start THEN NewTask(right)
             ELSE IF u # s THEN tasks[u]
             ELSE IF split_off_idx = 1 THEN NewTask(left) ELSE continued]
        /\ UNCHANGED <<trace, phase, requests, hits_vector>>

\* One iteration of the loop of do_base_case; a Postfix freezes its target.
ApplyOperation(s) ==
    LET t == tasks[s]
        l == t.local
        op == operations[Slot(t, l.idx)]
        distances == [j \in DOMAIN l.distances |-> l.distances[j] + Effect(op, j)]
        hit == distances[op.target] + l.full_amnt
    IN  /\ t.pc = "base_case"
        /\ l.idx < t.seq.num_ops
        /\ hits_vector' = IF op.type = "Postfix"
                          THEN [hits_vector EXCEPT ![hit] = @ + 1]
                          ELSE hits_vector
        /\ SetTask(s, [t EXCEPT !.local =
             [idx |-> l.idx + 1, full_amnt |-> l.full_amnt + op.full,
              distances |-> distances]])
        /\ UNCHANGED <<trace, phase, requests, operations>>

\* Faulty: leaves the loop before the last operation.
EndBaseCaseEarly(s) ==
    /\ tasks[s].pc = "base_case"
    /\ tasks[s].local.idx = tasks[s].seq.num_ops - 1
    /\ tasks' = [u \in DOMAIN tasks \ {s} |-> tasks[u]]
    /\ UNCHANGED <<trace, phase, requests, operations, hits_vector>>

EndBaseCase(s) ==
    /\ tasks[s].pc = "base_case"
    /\ tasks[s].local.idx = tasks[s].seq.num_ops
    /\ tasks' = [u \in DOMAIN tasks \ {s} |-> tasks[u]]
    /\ UNCHANGED <<trace, phase, requests, operations, hits_vector>>

\* The barrier at the end of the parallel region.
Return ==
    /\ phase = "projecting"
    /\ DOMAIN tasks = {}
    /\ phase' = "returned"
    /\ UNCHANGED <<trace, requests, operations, hits_vector, tasks>>

TaskStep(s) ==
    \/ DoProjections(s)
    \/ MergeBoundary(s)
    \/ MovePostfixToScratch(s)
    \/ KeepOnRight(s)
    \/ SplitOff(s)
    \/ ApplyOperation(s)
    \/ EndBaseCase(s)

Populate == SortRequests \/ BuildOperations

Next ==
    \/ Populate
    \/ StartProjections
    \/ \E s \in DOMAIN tasks : TaskStep(s)
    \/ Return

Spec == Init /\ [][Next]_vars

\* A task created when dist <= 8192 is final: the thread that creates it runs
\* it, and the tasks it creates, to the end before it goes on.  The new task
\* is always the one with the greatest range.
UndeferredNext ==
    \/ Populate
    \/ StartProjections
    \/ \E s \in DOMAIN tasks : (\A u \in DOMAIN tasks : u <= s) /\ TaskStep(s)
    \/ Return

UndeferredSpec == Init /\ [][UndeferredNext]_vars /\ WF_vars(UndeferredNext)

\* Some thread of the team runs as long as a task is left: OpenMP schedules
\* every task before the barrier of the parallel region is passed.
FairSpec == Spec /\ WF_vars(Next)

-----------------------------------------------------------------------------
(* Properties                                                              *)

Partitioning(s) == tasks[s].pc \in {"partition", "split"}

\* The slots of the shared vector that belong to a task.
Region(t) == t.seq.base..(t.seq.base + t.seq.num_ops - 1)

\* Operations of a scratch space besides the Null at its end.
Moved(stack) == Len(stack) - 1

Pending(t) ==
    SumFunction([p \in 0..(t.split.i - 1) |-> Moved(t.split.state.scratch[p])])

PostfixIn(t) == {k \in Region(t) : operations[k].type = "Postfix"}

\* What the variables hold: the vector never changes its length once built,
\* and every task is filed under the first request of its range.
TypeOK ==
    /\ phase \in {"called", "sorted", "built", "projecting", "returned"}
    /\ \A k \in DOMAIN operations :
          /\ operations[k].type \in {"Prefix", "Postfix", "Null"}
          /\ operations[k].target \in 0..Len(trace)
          /\ operations[k].full \in Int
          /\ operations[k].type = "Null" <=> operations[k].target = 0
    /\ \A d \in DOMAIN hits_vector : hits_vector[d] \in 0..Len(trace)
    /\ \A s \in DOMAIN tasks :
          /\ tasks[s].pc \in {"do_projections", "partition", "split", "base_case"}
          /\ tasks[s].seq.start = s
          /\ s <= tasks[s].seq.end /\ tasks[s].seq.end <= Len(trace)
          /\ Region(tasks[s]) \subseteq DOMAIN operations

\* The assertions of partition() and do_base_case() that speak of one moment:
\* non-empty sides, Null first operations, no Prefix on the right that ends
\* left of the boundary, targets that exist, and in the base case accesses
\* that stay inside the arrays of distances and hits.
AssertionsHold ==
    \A s \in DOMAIN tasks :
        LET t == tasks[s]
            st == t.split.state
            op == CurOp(t)
        IN  /\ IsNull(operations[t.seq.base])
            /\ Partitioning(s) =>
                  /\ t.seq.start <= LeftEnd(t) /\ LeftEnd(t) < t.seq.end
                  /\ \A p \in 0..(t.split.i - 1) : IsNull(Last(st.scratch[p]))
            /\ Iterating(s) =>
                  /\ op.type = "Prefix" => op.target >= LeftEnd(t)
                  /\ IsBoundaryOp(op, LeftEnd(t)) => st.cur_idx > 0
                  /\ MoveToScratch(op, LeftEnd(t) + 1) =>
                        PartitionTarget(t, op.target) \in 0..(t.split.i - 1)
            /\ t.pc = "split" => IsNull(operations[RightSide(t).base])
            /\ t.pc = "base_case" =>
                  \A k \in Region(t) :
                      /\ operations[k].target <= t.seq.end
                      /\ operations[k].type = "Postfix" =>
                            /\ operations[k].target >= t.seq.start
                            /\ FrozenDistance(operations, t.seq.base, k)
                                  \in DOMAIN hits_vector \ {0}

\* partition() always meets its boundary operation before it runs out of
\* operations (assert cur_idx >= 0), as op.h promises for every vector of at
\* most 2^mask_bits requests.
BoundaryIsFound ==
    Len(trace) <= 2^MaskBits =>
        \A s \in DOMAIN tasks : Partitioning(s) => tasks[s].split.state.cur_idx >= 0

\* The slots that the partition loop has freed are as many as the operations
\* that wait in scratch spaces, at every iteration and not only at the end of
\* partition(), where the code asserts it: unstacking never overwrites an
\* operation that is still to be read, and never leaves a hole.
ScratchFitsFreedSlots ==
    \A s \in DOMAIN tasks : Partitioning(s) =>
        LET st == tasks[s].split.state
        IN  /\ st.merge_into_idx < tasks[s].seq.num_ops
            /\ st.merge_into_idx - st.cur_idx
                  = Pending(tasks[s]) + (IF tasks[s].pc = "split" THEN 1 ELSE 0)

\* Unfinished tasks own disjoint slots of the shared vector and disjoint
\* ranges of requests.
RegionsDisjoint ==
    \A s, u \in DOMAIN tasks : s < u =>
        /\ tasks[s].seq.end < u
        /\ Region(tasks[s]) \cap Region(tasks[u]) = {}

\* No step of one task changes an operation that another unfinished task owns
\* before and after it: no data race on the vector although it has no lock.
TasksDoNotInterfere ==
    [][\A u \in DOMAIN tasks \cap DOMAIN tasks' :
          tasks'[u] = tasks[u] =>
              \A k \in Region(tasks[u]) : operations'[k] = operations[k]]_vars

\* Projection preserves meaning: whenever a task starts, applying just its
\* operations to just its requests freezes every request of its range that is
\* accessed again, once, and at the true stack distance of that next access.
ProjectionsPreserveDistances ==
    \A s \in DOMAIN tasks : tasks[s].pc = "do_projections" =>
        LET t == tasks[s]
            NextAccess(p) == {i \in Repeats(trace) : PreviousAccess(trace, i) = p}
        IN  /\ \A p \in t.seq.start..t.seq.end :
                  Cardinality({k \in PostfixIn(t) : operations[k].target = p})
                     = Cardinality(NextAccess(p))
            /\ \A k \in PostfixIn(t) : \A i \in NextAccess(operations[k].target) :
                  FrozenDistance(operations, t.seq.base, k) = Distance(trace, i)

\* A projected sequence is linear in its number of requests, whatever the
\* length of the whole vector: the reason why the recursion takes n log n.
ProjectionsAreSmall ==
    \A s \in DOMAIN tasks : tasks[s].pc = "do_projections" =>
        tasks[s].seq.num_ops <= 2 * Size(tasks[s].seq)

\* No repeated access is lost or counted twice while Postfix operations wander
\* between slots, scratch spaces and tasks: each is in the hits vector or in
\* exactly one place still to be applied.
EveryRepeatIsSomewhere ==
    LET Unapplied(t) ==
            CASE t.pc = "base_case" ->
                   Cardinality({k \in PostfixIn(t) : k >= Slot(t, t.local.idx)})
              [] t.pc \in {"partition", "split"} -> Cardinality(PostfixIn(t)) + Pending(t)
              [] OTHER -> Cardinality(PostfixIn(t))
    IN  phase \in {"projecting", "returned"} =>
          Cardinality(Repeats(trace)) =
            SumFunction(hits_vector)
              + SumFunction([s \in DOMAIN tasks |-> Unapplied(tasks[s])])

\* The histogram never exceeds the true histogram of stack distances, and is
\* equal to it when update_hits_vector returns, however the tasks interleave.
HitsAreStackDistances ==
    \A d \in DOMAIN hits_vector :
        /\ hits_vector[d] <= AtDistance(trace, d)
        /\ phase = "returned" => hits_vector[d] = AtDistance(trace, d)

\* update_hits_vector returns.
Termination == <>(phase = "returned")

=============================================================================
