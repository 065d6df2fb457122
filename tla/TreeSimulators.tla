---------------------------- MODULE TreeSimulators ----------------------------
(***************************************************************************)
(* The two simulators that keep an LRU queue in an order statistic tree,   *)
(* OS_TREE and OS_SET of sim_factory.h, on the same trace, the way the     *)
(* tests and simulation.cc compare simulators.  Their trees have nothing   *)
(* in common but their purpose: one is rebuilt now and then and ordered by *)
(* age, the other rotates at every step and has the latest page first.     *)
(***************************************************************************)
EXTENDS CacheSim

VARIABLES
    tree_number, tree_queue, tree_pages, tree_hits, tree_success,  \* OSTCacheSim
    set_number, set_queue, set_pages, set_hits, set_success  \* ContainerCacheSim

tree_vars == <<tree_number, tree_queue, tree_pages, tree_hits, tree_success>>
set_vars == <<set_number, set_queue, set_pages, set_hits, set_success>>
vars == <<tree_vars, set_vars>>

OS_TREE == INSTANCE OSTCacheSim WITH
    access_number <- tree_number, LRU_queue <- tree_queue,
    page_table <- tree_pages, page_hits <- tree_hits, success <- tree_success

OS_SET == INSTANCE ContainerCacheSim WITH
    access_number <- set_number, LRU_queue <- set_queue,
    page_table <- set_pages, page_hits <- set_hits, success <- set_success

Init == OS_TREE!Init /\ OS_SET!Init

MemoryAccess(addr) == OS_TREE!MemoryAccess(addr) /\ OS_SET!MemoryAccess(addr)

GetSuccessFunction == OS_TREE!GetSuccessFunction /\ OS_SET!GetSuccessFunction

Next == (\E addr \in Addr : MemoryAccess(addr)) \/ GetSuccessFunction

Spec == Init /\ [][Next]_vars

\* SimResult::operator==: success functions, indexed from 0, are equal as far as
\* both go, and a longer one goes on with the last value compared.
SameSuccess(one, other) ==
    LET sizes == {Cardinality(DOMAIN one), Cardinality(DOMAIN other)}
        common == CHOOSE n \in sizes : \A m \in sizes : n <= m
    IN /\ common > 0
       /\ \A x \in 0..(common - 1) : one[x] = other[x]
       /\ \A x \in DOMAIN one : x >= common => one[x] = one[common - 1]
       /\ \A x \in DOMAIN other : x >= common => other[x] = other[common - 1]

-----------------------------------------------------------------------------
(* Properties of the simulators, which their modules explain               *)

\* OSTCacheSim: tree and page table tell the same story.
TreeMatchesPageTable == OS_TREE!QueueMatchesPageTable

\* OSTCacheSim is the queue of pages by time of last access.
TreeImplementsQueue == OS_TREE!ImplementsQueue

\* ContainerCacheSim: set and page table tell the same story, in balance.
SetMatchesPageTable == OS_SET!QueueMatchesPageTable

\* ContainerCacheSim is the queue of pages by time of last access.
SetImplementsQueue == OS_SET!ImplementsQueue

\* The queue, and so each of the simulators, is the LRU caches of all sizes.
ImplementsLRU == OS_TREE!Queue!ImplementsLRU

-----------------------------------------------------------------------------
(* Properties of the two together                                          *)

\* Whenever they are asked, the simulators give the same answer, as ranks from
\* the one end of a tree and from the other.
SimulatorsAgree == tree_success # <<>> => SameSuccess(tree_success, set_success)

\* "Finally dump the number of forced misses": the misses that are printed after
\* a report are the first accesses of the pages, whatever the order of accesses.
MissesAreForced == OS_TREE!Queue!MissesAreForced /\ OS_SET!Queue!MissesAreForced

=============================================================================
