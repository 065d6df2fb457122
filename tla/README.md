# Increment-and-Freeze in TLA+

TLA+ models of the cache simulators of this repository, checked with TLC, and
theorems about them proved with TLAPS. All paths are relative to `src/`.

Every simulator answers the same question: for a trace of accesses, how many
would have been hits in an LRU cache of x pages, for every x at once (the
*success function*). The naive answer keeps a queue; Increment-and-Freeze
computes stack distances by a parallel divide and conquer over an array of
operations. The abstract specification `LRUCaches` says what all of them
promise; most of the work below is to show that they keep it.

```
LRUCaches  <-  IncrementAndFreeze  <-  ThreadedIAF     (proved)
LRUCaches  <-  BoundedIAF                              (proved)
LRUCaches  <-  LRUQueue  <-  OSTCacheSim, ContainerCacheSim   (proved)
one call of UpdatedHits  <-  Projections               (proved)
```

## Inventory

| Part | State | Operations | Talks to |
|---|---|---|---|
| `Op` (`op.h`) | a word with type and target, full amount | make null, add full, the three tests of `partition` | - |
| `populate_operations` (`increment_and_freeze.cc`) | sorts `reqs`, fills `operations`, collects `living_req`; per thread: survivors, a count of addresses | one call with a team of threads | `Op` |
| `do_projections`, `partition`, `do_base_case` (`increment_and_freeze.cc`, `projection.cc`, `partition.h`) | per task: range, region of `operations`, `PartitionState`; shared: `operations`, `hits_vector` | a recursion of OpenMP tasks | `Op`, shared vectors |
| `IncrementAndFreeze` | log of requests, the vectors that all calls share | `memory_access`, `get_success_function`, `process_chunk` | the two above |
| `BoundedIAF` (`bounded_iaf.*`) | chunk, living requests, histogram, `cur_u` | `memory_access`, `process_requests`, `update_u`, `get_success_function` | `IncrementAndFreeze::process_chunk` |
| `OSTree`, `OSTreeHead` (`ostree.*`) | tree that is rebuilt when an insertion meets imbalance | insert, remove by rank, find, get_last | - |
| `OSTCacheSim` | page table, tree, hits per rank | `memory_access`, `get_success_function` | `OSTreeHead` |
| `ContainerCacheSim` | page table, `OrderStatisticSet`, hits per rank | the same | `container/` |
| `OrderStatisticSet` (`container/`) | weight-balanced tree; iterators of index and node | insert, erase, extract, find, bounds, rank, select, advance | - |
| `OrderStatisticMap` (`container/`) | the same with mapped values | `insert`, `insert_or_assign` | the set's tree |
| `CacheSim` (`cache_sim.h`) | access number | the interface; the misses behind a printed success function | - |
| `sim_factory.h`, `simulation.cc` | - | choice of a simulator, traces, `SimResult::operator==` | all simulators |
| programs, tests, scripts | - | arguments, files, timing | all |

What is hard here: threads and tasks that share a vector without a lock, at places
that are computed from the data; a parent that still rewrites the vector while its
children work in it; amounts that are spread over three places between two calls
of `partition`; a trace that is thrown away chunk by chunk; members that keep what
the call before left in them; a word that packs type and target up to its last bit; a
tree that is rebalanced only sometimes; indexes that are computed by inverting a
rounded division; iterators that keep an index and a node that have to agree.
`PROJECT.json` lists these hazards at their lines with the properties that cover
them, and says of the others why no property does.

## Modules

`Op` — the operations of `op.h`, what each does to a distance (`Effect`), and the
array `populate_operations` builds, as a function of its requests. An operation is a
record, and a Null is exactly an operation with target 0, as in the code. `std::sort`
becomes the permutation in which every request has as many predecessors as there
are smaller requests. `OpWord` — the same operation as the code stores it, a word of
`MaskBits` bits and a type bit, with the constructors and the getter that decodes it.

`Populate` — `populate_operations` step by step. The iterations of its loop are shared
out among `Threads` in any way (`todo`); an iteration writes the slots of its own
access number; a thread that has done its share goes on (`nowait`) to the critical
section, where it reads the end of `living_req` and then appends its survivors, as two
steps; the barrier adds up the copies of `unique_ids`; the compaction copies one
operation at a time within the vector. The vector is a member and keeps its content
from one call to the next.

`StackDistance` — reference definitions of distance and of hits with a cache of a
size, on a trace, with no algorithm in them.

`Projections` — one call of `update_hits_vector`. A record in `tasks` is one
activation of `do_projections`; its `pc` says whether it is at the first line, in
the loop of `partition`, behind it, or in the base case. One step is one
iteration of a loop: `MergeBoundary`, `MovePostfixToScratch` and `KeepOnRight` are
the three branches of the loop of `partition`, `SplitOff` is everything from the
end of that loop to the next call of it (the sides, unstacking the scratch space,
the new OpenMP task), `ApplyOperation` is an iteration of the base case with its
atomic increment. `Spec` lets any task move at any time. `UndeferredSpec` moves
only the task with the greatest range: that is how tasks run below the cutoff
`final(dist <= 8192)`, where the thread that creates a task runs it at once.
Finer interleavings than an iteration would show nothing else: by
`TasksDoNotInterfere` no iteration touches another task's slots, and the
increment of `hits_vector` is atomic.

`HitsVector` — a whole call of `update_hits_vector` as one operator
(`UpdatedHits`), and the prefix sums. That the parallel call of `Projections`
leaves the same is `TasksComputeUpdatedHits` of `ProjectionsProofs`: both are the
histogram of stack distances.

`IncrementAndFreeze`, `BoundedIAF`, `OSTCacheSim`, `ContainerCacheSim` — the simulators,
one action per member function; `CacheSim` — what they have in common. The first two
end with an instance of `LRUCaches` under a refinement mapping, the other two with an
instance of `LRUQueue`.

`LRUQueue` — what the two tree simulators promise of their trees, without a tree: pages
are in one queue by last use, and an access to the page at a rank is a hit of every
cache larger than this rank. It ends with the mapping to `LRUCaches`: a cache of x pages
holds the first x pages of the queue. `PageQueue` — queues of pages as sequences and as
tables of last uses, which the abstract modules share.

`ThreadedIAF` — composes `IncrementAndFreeze` and `Populate`: the calls of a program, or
of `BoundedIAF`, with the threads' steps in between. It implements
`IncrementAndFreeze`, where a call is one step, under a mapping that shows the log
as it was until the call returns (`log` is an auxiliary variable for that).

`TreeSimulators` — composes `OSTCacheSim` and `ContainerCacheSim` on one trace, as the
tests and `simulation.cc` compare simulators. `MCTreeSimulators` adds the symmetry of
addresses, which both only compare for equality.

`SizedTree` — what the two order statistic trees have in common: nodes with a value, the
size of their subtree and two subtrees; what is smaller in a given order is on the left. A
member function that recurses is a recursive function on the trees below its argument
(`Below`), rather than a recursive operator, so that it can be proved about. `OSTree` — the
tree of `ostree.cc` as operators on such trees, later timestamps first: insertion, which
rebuilds an unbalanced subtree on its way down, removal by rank, and the queries;
`OSTreeHead` — any sequence of calls of its interface; `MCOSTreeHead` bounds the values that TLC
stores. `PageHits` — the histogram by rank and its sums, the same code in `OSTCacheSim` and
`ContainerCacheSim`.

`RawOrderStatisticSet` — the tree of `container/`, as operators over the comparison
functor: insertion, deletion by moving up the predecessor, single and double rotations,
and the queries. A `Node*` is modelled as the key it leads to,
since a node keeps its element for life. `OrderStatisticSet` — any sequence of
calls of the set or the map; `it` is the iterator the last call returned, and it is
dropped when a call changes the tree without returning one, because the iterators
are then invalid. `elements` is what the tree stands for. An element is a key with a
mapped value; keys in `AssignedKeys` come with two values, so that
`insert_or_assign` differs from `insert`.

`Workload` — the addresses that `working_set_simulator` of `simulation.cc` draws.

`LRUCaches` — for every size 1..MaxSize its own cache, most recent page first, its
own hits, and the last success function reported.

`HitsVectorProofs`, `ThreadedIAFProofs`, `ProjectionsProofs`, `BoundedIAFProofs`,
`TreeSimulatorsProofs`, `RawOrderStatisticSetProofs`, `OrderStatisticSetProofs`, `OSTreeHeadProofs` —
lemmas and theorems.

A definition whose comment begins with "Faulty" is not part of a model: it is the
definition below it with a plausible mistake. Replacing one by the other makes
the property named in `PROJECT.json` fail, which shows that the property can.

## Runs

| Run | Question | Bounds |
|---|---|---|
| `projections` | Do concurrent tasks stay out of each other's slots, lose no Postfix, produce the true histogram, and end? | every trace of up to 5 requests over 3 addresses (up to renaming), Branching 4, BaseCase 1; all interleavings |
| `projections_undeferred` | Do the assertions of the code hold, does each projection keep meaning and size? | every trace of up to 8 requests over 3 addresses, Branching 3: two and three levels of nested projections |
| `projections_int` | Is the limit that `op.h` states reached? No: finding 1 | int of 4 bits, mask_bits 6 |
| `threaded_iaf` | Do the threads build the right operations and survivors, in slots of their own, does every call return, and is it one step to its caller? | 2 threads, addresses 0, 1, 2, 4 accesses, which is the limit for 2 mask bits |
| `iaf_log` | Is the log copied? No: finding 2 | 3 addresses, 5 accesses |
| `bounded_iaf` | Are chunks invisible? | 3 addresses with 0, limit 2, chunks from 3 requests, 8 accesses: several chunks, eviction and growth of `cur_u` all occur |
| `ostree` | Contents, ranks and balance comments under any calls | trees of up to 8 entries: large enough for rebalancing at inner nodes and for all four cases of remove; two values, the second in one entry at a time |
| `tree_simulators` | Do tree and page table agree in both tree simulators, do both implement the queue, is the queue LRU, and do they agree with each other? | 5 symmetric addresses, 8 accesses: both trees are rebalanced |
| `ost_faults` | Does the success function count faults? No: finding 3 | 3 addresses, 5 accesses |
| `ost_set` | Contents, balance, queries and iterators of set and map under any calls | 7 keys, one of them reassigned: all four rotations occur, at the root and below, also on deletion (a rotation needs 4 elements) |
| `ost_set_rank` | Does `insert` report the rank of a key that was present? No: finding 4 | 4 keys |
| `workload` | Are most accesses to the working set? No: finding 5 | draws of 4 bits divided by the greatest number of 2, locality 95 %, working set 2 of 5 |

Bounds are constants of the modules: `MaxRequests`, `MaxAccesses`, `MaxSize`, `MaskBits`,
`IntBits`, `Threads`, `Timestamps`, `KeyType` and `AssignedKeys`, `RandBits` and `DivisorBits`.
Two threads are enough for every pair of steps that may be done in either order: the
threads do not know how many they are, and every shared place is one vector.
The algorithm treats addresses only as equal or different (and sorts them), so
`Projections` enumerates traces with addresses in the order of first use.
`kIafBaseCase` is 256 in the code; with 1 the recursion goes as deep as it can on
small inputs. `kIafBranching` is 16; 4 has the same increment tree with two levels,
and 3 the other shape that the tree of depth floor(log2) supports (a branching of
2^k or 2^k+1, stated as `BranchingAssumption`; other values would index past its
leaves). The double arithmetic of `do_projections` is modelled as exact: with 16
partitions the split amount is a multiple of 1/16, which a double holds exactly,
and a quotient that is an integer is computed exactly, below 2^49 requests.

The deadlock check is on where the system never stops: `threaded_iaf` (a program that has
made all its accesses can still report, and a call always goes on), `ostree`, `ost_set`
and `ost_set_rank`. It is off where it stops: `Projections` ends when the call returns,
`workload` when every value was drawn, and the other simulators are cut off by
`MaxAccesses` with reports that change nothing.

Fairness. `Termination` of `Projections` assumes weak fairness of the next-state relation
as a whole, that is, that some thread of the team goes on as long as one task is left.
`EveryCallReturns` of `ThreadedIAF` assumes weak fairness of the steps of a call that
has begun (`Step \/ EndCall`), and none of its callers: nothing obliges a program to
access or to report. OpenMP guarantees both: a parallel region ends with an
implicit barrier that is passed only when all threads and tasks are done. No fairness
between threads or between tasks is needed.

### Properties worth a comment

- `ScratchFitsFreedSlots` is the invariant that makes the in-place partition safe:
  at every iteration the freed slots are exactly as many as the waiting Postfixes.
  The code asserts it only at the end of a partition.
- `ProjectionsPreserveDistances`: a task's operations alone freeze each of its
  requests at the true distance. It relates the operations of a task to the
  trace of the whole call.
- `ProjectionsAreSmall`: at most two operations per request in every projection.
- `SlotsWrittenOnce`: the loop of `populate_operations` has no lock; the slots differ
  because access numbers are positions (`NumbersArePositions`), although every
  report sorts the log that later accesses are appended to.
- `OperationsBuilt`: after the threads and the compaction in place, on a vector that
  still holds the operations of the last call, the words read back as the
  operations of `Op`, up to the limit of 2^mask_bits requests that `op.h` states.
- `SurvivorsComplete`: no thread's survivors overwrite another's.
- `ImplementsAtomicCalls`: the refinement that lets every other module take a call
  for one step.
- `ChunkBeginsWithLiving`, `ImplementsLRU` of `BoundedIAF`: the living requests are
  enough to forget the trace.
- `SimulatorsAgree`: two trees that share no code and are ordered in opposite
  directions give the same success function, compared the way `simulation.cc` does.
  Their vectors have one element per page and one more, always equally many; what is said of
  sizes past the end of a vector, which that comparison also rests on, is `ImplementsLRU`.
- `MissesAreForced`: the last line that `dump_success_function` prints is, for the two tree
  simulators, the number of pages, which holds only if the success function is long
  enough. For `IncrementAndFreeze`, `ImplementsLRU` would find a vector that is too short.
- `AlwaysBalanced`: the comment above `Check()` (`raw_order_statistic_set.h:792`) says
  that the tree is not always kept in balance, while `Check()` itself insists on it.
  The rotations do keep it, in every tree (`AlwaysBalancedAlways`).
- `IteratorsHaveRanks`, `EraseReturnsSuccessor`: iterators carry an index and a node,
  computed separately; the first leaves out the iterator of finding 4.
- `RemoveNeverDeepens`, `InsertOffByOneElement`: the two comments of `ostree.cc` that
  justify when the tree is rebalanced.

### Findings

1. `op.h:47` allows 2^mask_bits requests; `partition.h:57-61` narrows the number of
   operations to `int`, which overflows near 2^30 requests (run `projections_int`,
   widths scaled down).
2. `increment_and_freeze.h:71` says requests are copied and not modified;
   `populate_operations` sorts them in place (run `iaf_log`).
3. `ost_cache_sim.h:34` and `:65` promise page faults; the function counts hits, as
   the README says (run `ost_faults`).
4. `container/raw_order_statistic_set.h:588` says that `Insert` reports the rank of the
   key; for a key already present it leaves out the smaller keys in the left subtree
   of its node (line 627), so the iterator that `insert` returns has a wrong rank and
   advances from the wrong place (run `ost_set_rank`). `ContainerCacheSim` never
   inserts a key that is present, and is not affected.
5. `simulation.cc:62-64` says that a majority of accesses are made to the working set;
   line 75 divides a 64-bit draw by the greatest 32-bit number, so that nearly
   none are (run `workload`, widths scaled down). `main` does not offer this workload now.

## Proofs

TLAPS checks eight modules, for every value of the constants under the assumptions
named in the modules: addresses are naturals, sizes and bounds are naturals, the
team of threads is finite and not empty. Two assumptions (`TypeUnitAssumption`,
`PowersAssumption`) only say that a power of two is a natural number, which
the provers do not know.

**`HitsVectorProofs`, the operators** — `SortedRequests` returns a strictly increasing permutation. Counting
predecessors is an injection of n elements into 0..n-1 and so onto (`RanksAreOnto`). The
same count gives the elements of `Ascending` (`Rank`), and with them what the compaction
keeps. A *log* is a vector of requests numbered 1..n, each once; it stays one when it is
sorted or appended to. Sums over sets (`SumProperties`, `SumOfUnion`, `SumOfSums` and the
lemmas after them) and the few inductions below are set inductions: the set of the
naturals, or of the subsets of a finite set, for which the claim holds is closed under
adding one (`SetOfNaturals`, `SetOfSubsets`).

**`HitsVectorProofs`, the histogram** — the argument of the paper, for logs of any length. A Postfix and
the Prefix that belongs to the same access cancel, except for the requests between; so
the operations freeze each repeated access at its stack distance
(`OperationsFreezeDistances`). The histogram counts them, its prefix sums are the
hits of LRU caches, and the stack of last uses, cut at x, is what an LRU cache of x pages
holds (`AccessIsTouch`, by induction over the trace). Together: `UpdatedHits` and the
prefix sums report what `LRUCaches` would have counted (`SuccessOfLog`). That
`IncrementAndFreeze` implements `LRUCaches` follows in **`ThreadedIAFProofs`**.

**`ThreadedIAFProofs`** — `NumbersArePositions`, `OperationsBuilt`, `SlotsWrittenOnce`,
`UniqueIdsAddUp`, `SurvivorsComplete` and both refinements, for any number of threads, accesses
and mask bits at their limit. The requests are always a log, so that the slots 2a-1 and
2a of different requests differ. While the loop runs, the iterations still to be done
are disjoint sets of the threads, the slots of iterations still to be done hold the
default, the others hold the word of their request (`LoopInv`). The copies of
`unique_ids` count the first requests of addresses among the iterations done (`CountInv`); the
survivors that a thread holds or has appended are those of its own iterations
(`WaitingInv`, `MeetInv`), and a thread that has read the end of `living_req` finds it
unchanged when it writes, because it is alone in the critical section (`CriticalInv`). A
word decodes to its operation because targets stay below `TypeUnit`. After the barrier
the invariant says that the first `place_idx` slots are the kept ones of the first
`cur_idx`, by rank, and that those from `cur_idx` on are as the loop left them. For
`ImplementsAtomicCalls`, `LogInv` relates `log`, the log its caller sees, to the vector
that is being sorted: the same requests in another order.

**`ProjectionsProofs`, the ranges** — `RegionsDisjoint` and `TasksDoNotInterfere`, for every number of
requests, branching, base case and index width: there is no data race on the vector
that the tasks share. Neither property is inductive. A task hands over what lies from
`merge_into_idx` on and goes on with what is below; that these are two non-empty parts
of its own slots takes:

1. The first slot of a task holds a Null, always. So the boundary operation, a Prefix
   whose target is at least the task's first request, is not found there
   (`MergeBoundaryKeepsInv`), and its left neighbour belongs to the task.
2. In the loop of `partition`, the slots behind `cur_idx` up to `merge_into_idx` hold
   Nulls, and they are at least as many as the operations that wait in the scratch
   spaces (`LoopInv`). So unstacking one of them at the end stays above `cur_idx`, and
   below `merge_into_idx`, where the right side begins with a Null (`SplitOffKeepsInv`).
3. The ends of the partitions, quotients by the number of partitions, increase
   strictly because there are no more partitions than requests (`EndsIncrease`).
4. An index that is narrowed to `int` never becomes greater, so that the overflow of
   finding 1 stops the loop but does not make tasks meet (`AsIntBound`).

Then a step writes only slots of its own task (`WritesOnlyIn`), and the invariant of a
task depends on no others (`TaskInvFrame`, `OthersKeepInv`).

**`ProjectionsProofs`, the histogram** — the other invariants of `Projections`, for every trace,
branching, base case and interleaving: `TypeOK`, `BoundaryIsFound`, `ScratchFitsFreedSlots`,
`AssertionsHold`, `ProjectionsAreSmall`, `ProjectionsPreserveDistances`,
`EveryRepeatIsSomewhere` and `HitsAreStackDistances`; and that a call leaves
what `UpdatedHits` computes in one step (`TasksComputeUpdatedHits`). All have one
hypothesis, `IndexesFit`: an int holds 2 `MaxRequests`. It cannot be left out, since
finding 1 is a violation of `BoundaryIsFound` without it. What holds of `Spec` holds
of `UndeferredSpec` (`UndeferredIsASchedule`).

All of them follow from one invariant, `IInv /\ HInv`, where `IInv` is the
one about the ranges. None is inductive, because none says what the amounts mean that are
scattered, in the middle of a partition, over slots, `incr_array`, `all_full_incr` and
the Nulls at the ends of the scratch spaces. `HInv` fixes a *due* for every request
that is accessed again, the stack distance of its next access (`Due`), and says:

1. Operations are `Coherent`: what the operations before a Postfix add to the
   distance of its target, and 1, is its due; no request has two Postfixes. What stands
   before a Prefix has smaller targets and adds nothing to the requests
   from the target of that Prefix on. That is why the right side of a partition may
   start from 0 and forget everything before it: what a Postfix adds to the requests
   behind it, the -1 of the Prefix of the same access has taken back.
2. A task that begins has a Prefix to every request of its range but the last and a
   Postfix to every one that is due (`Projected`). The first operation is Null and no other, so
   there are at most two per request, and the Prefix to the left end of the last
   partition, the boundary, exists.
3. In the loop of `partition`, a Postfix that waits in scratch space p still gets its
   due (`StackInv`): what the operations pushed after it add, what p has not yet seen (`Unseen`:
   the increments in the tree on the way to leaf p and `all_full_incr`, minus the
   amount at the end of the space), and what the operations up to `cur_idx` will
   add. So a space can be put back, behind a Null with the unseen amount, at any time its
   partition is reached.
4. The slots freed so far are exactly as many as the operations that wait, plus the
   slot for the Null, and hold `NoImpact` (`SlotsInv`).
5. A base case has, in `distances` and `full_amnt`, what the operations before `idx` add
   (`LocalInv`).
6. The histogram counts the requests that are due and that no task has still to freeze
   (`Counts`, `Live`). The tasks' ranges are disjoint (`RegionsDisjoint`), so a step of one
   task leaves what the others have to freeze.

`incr_array` is a binary tree of depth floor(log2) whose sum along a path is what was
counted to the right of a leaf; the lemmas about it are where
`BranchingAssumption` is needed. The first `Projected` is that of the operations
`populate_operations` builds (`StartProjected`), by the lemmas of `HitsVectorProofs` that
`OperationsFreezeDistances` rests on. So are the lemmas about coherent sequences of operations
and what merging, moving and unstacking make of them: they are about sequences, not tasks.
TLC finds no state that violates `HInv` either, with the constants of the two passing
runs and up to 4 and 7 requests (no run of its own: the properties it is for are in
the runs already).

**`BoundedIAFProofs`** — `TypeOK`, `ChunkHasRoom`, `ChunkIsBounded`, `ChunkBeginsWithLiving`
invariant, `ChunkNeverShrinks`, and `ImplementsLRU`. The conjunction of the first four,
`IInv`, is inductive; no part of it is by itself. In a sorted vector an address is
contiguous, so exactly its last request is followed by another address: one survivor
for every address (`SurvivorsProperties`). The living requests at the beginning of a chunk
have different addresses, so there are at least as many survivors, and `Len(living)`
never decreases (`ProcessRequestsProperties`, an injection). With that, `update_u` keeps
`3 * living < cur_u`, never decreases `cur_u`, and keeps it within four times the living
requests once it has left the initial size. For the refinement, `HitsInv` says that the
living requests and the chunk list the queue of last uses of the whole trace as far as
the limit, and that the histogram plus that of the chunk has the hits of every cache
within the limit. A chunk that begins with the living requests sees the same stack
distances as the whole trace; the eviction cuts what no cache within the limit holds;
the histogram is never longer than the living requests, so that resizing it for a report loses
nothing.

**`RawOrderStatisticSetProofs`** — the tree of `container/`, for every type of values and
every strict total order of keys (`Ordering`). A recursive function is a CHOOSE, so the module first
proves that recursion over trees has a result (`TreeRecursion`, level by level of
height) and that each function satisfies its definition (the lemmas that end in `Def`). The
induction is `TreeInduction`: a set that has the empty tree, and every node whose subtrees it
has, has all trees. With it: what `Insert`, `Erase`, `UnlinkRightMost`, `Find`, the bounds and
`Select` return for a tree in order (`InsertResults`, `EraseResults`, `FindIsFirst`,
`SelectsByRank` and others), ranks being the number of lesser values. The
balance is arithmetic: a node whose subtrees are balanced, and that was in balance before one
element came or went, is in balance after `MaybeRebalance` and so are the nodes that
it made (`RebalanceRestores`); the case of the double rotation needs that
3/4 and 2/3 are chosen as they are, and that weights are sizes plus one.

**`OrderStatisticSetProofs`** — `TreeHoldsElements`, `QueriesAgree`, `AlwaysBalanced`,
`IteratorsHaveRanks` and `EraseReturnsSuccessor`, for every set of integer keys and every sequence
of calls. The invariant, `IInv`, is that the tree is in order and balanced and holds
`elements`, and that the node of the iterator is an element, also after a refused insertion:
without it `erase(iterator)` could be given anything. The proofs about trees are an instance, whose
definitions are copies of those of the model; the lemmas that begin with `Same` prove each
copy equal.

**`OSTreeHeadProofs`** — `TreeHoldsEntries`, `RemoveNeverDeepens` and
`InsertOffByOneElement`, for every set of timestamps and of values and any sequence of insertions and
removals by rank. The trees are those of `SizedTree`, so that recursion over trees and
`TreeInduction` are taken from `RawOrderStatisticSetProofs`; here the recursion of `Insert`
leaves the tree it is given, since it goes down into a subtree that has been rebuilt, and
that of `FromArray` is over ranges, so that both are inductions over a rank, the
size of a tree or the length of a range. `FromArrayResult` says that a sorted array
becomes a tree in order with the same elements, whose sides differ by at most one at every node;
`ToArrayResult` that the array of a tree in order is sorted and has its elements. So an
insertion adds its entry wherever it rebuilds (`InsertResult`), and goes on below a node
whose sides are within a factor of two, for one more element to be added on either
side. What `Remove` takes out at a rank is the entry with so many later ones
(`RemoveResult`), and what it leaves is no deeper, since the node that moves up
comes from a tree that got no deeper either. The invariant, `HeadInv`, is that the tree is in order
and holds `entries`: the balance of a tree at rest is not invariant (removals may
unbalance it), and no property needs it.

**`TreeSimulatorsProofs`** — all properties of `TreeSimulators`, for every set of addresses, every
trace and every largest size: `TreeMatchesPageTable`, `SetMatchesPageTable`,
`SimulatorsAgree`, the refinements `TreeImplementsQueue`, `SetImplementsQueue` and `ImplementsLRU`,
and `MissesAreForced`. The argument has three parts.

1. The queue (`QueueInv`): timestamps in the page table are different and past, `page_hits` has a place
   for each rank, and hits and pages add up to the accesses. An access leaves that so
   (`AccessResult`). One queue is then every LRU cache at once (`QueueIsLRUOfAllSizes`): the pages
   of rank below x are the cache of size x, which is why the simulators need only ranks.
2. The trees (`TreeHolds`, `SetHolds`): each is in order and holds what its page table
   holds, the set in balance as well. The rank that is found in such a tree is the
   number of pages used since (`PageInTree`, `NumberInSet`), and an access takes
   out one entry and adds one that is later than all (`TreeAfterHit`,
   `SetAfterHit` and their like for new pages). The trees themselves are the subject of
   `OSTreeHeadProofs` and `RawOrderStatisticSetProofs`, instances here of which only lemmas
   about operators are used; the lemmas that begin with `TreeHas` and `SetHas` prove
   that the simulators' copies of a definition are equal to theirs.
3. Both together (`SimInv`): what the simulators keep beside their trees is always equal, and a report
   is a function from 0 on. No part is inductive by itself: that the histogram has a place
   for the rank hit needs the tree, that the tree has the entry needs the page
   table, and that the new timestamp is the last needs the access number.

The last part is about the abstract caches: of two sizes the larger cache holds what the
smaller one holds, in the same order and first (`Inclusion`), so that hits never decrease with the
size (`LargerCachesHitMore`). It is why one histogram can answer for all sizes. The
invariant adds that no cache holds an address twice and that none is larger than its size.

Only model-checked: liveness (`Termination` of `Projections` and `EveryCallReturns` of
`ThreadedIAF`), because fairness and ENABLED are beyond the provers. The five runs that expect a
violation show their findings and need no proof. That the double arithmetic of
`do_projections` is exact is an argument in words, above, and neither checked nor proved.

## Not modelled

- Timing macros, memory accounting, the tables that success functions are printed as,
  command line programs, scripts and tests: no control of their own, or output only.
- The uniform and the Zipf trace of `simulation.cc`: independent draws.
- With `ADDR_BIT32`, the histogram can overflow 32 bits over many chunks: traces of that
  length are out of reach. Targets at the limit of their word are modelled (`OpWord`).
- Of `container/`: `swap` of two sets, reverse iterators, and extracted nodes, which are
  modelled by the value they hand out.
- An empty log in `IncrementAndFreeze::get_success_function`, whose arithmetic is
  undefined: the models ask for a report only after an access.
- Word-level effects of unsynchronised access to `hits_vector`, which the code
  increments with `omp atomic`.

## Plan

Done: `Op`, `OpWord`, `StackDistance`, `Projections`; `LRUCaches`, `HitsVector`, `IncrementAndFreeze`,
`BoundedIAF`; `Populate` and `ThreadedIAF`; `SizedTree`, `OSTree`, `OSTreeHead`, `RawOrderStatisticSet`,
`OrderStatisticSet` with the map; `OSTCacheSim`, `ContainerCacheSim` and both in `TreeSimulators`;
`Workload`; `LRUQueue` under the tree simulators; the eight modules of proofs,
with the histogram of `Projections` as a theorem.

Left:

1. `BoundedIAF` and `IncrementAndFreeze` on one trace, with `ThreadedIAF`'s chunks in
   `BoundedIAF` instead of chunks of any content.
