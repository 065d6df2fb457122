--------------------------- MODULE ContainerCacheSim ---------------------------
(***************************************************************************)
(* The simulator ContainerCacheSim (container_cache_sim.h/.cc): the LRU    *)
(* queue is an OrderStatisticSet of the times of last access, greatest     *)
(* first.  Which page a timestamp belongs to is known to the page table    *)
(* only.                                                                   *)
(***************************************************************************)
EXTENDS CacheSim, PageHits, Sequences

Greater(a, b) == a > b

\* Of a set the element is the key.
Timestamp(value) == value

INSTANCE RawOrderStatisticSet WITH
    KeyType <- Nat, Value <- Nat, LessThan <- Greater, KeyOf <- Timestamp

VARIABLES
    access_number,  \* the timestamp of the next access
    LRU_queue,      \* the root of the set of timestamps
    page_table,     \* address -> timestamp of its last access
    page_hits,      \* hits per rank of the page hit, indexed from 0
    success         \* the last success function returned, indexed from 0

vars == <<access_number, LRU_queue, page_table, page_hits, success>>

Init ==
    /\ access_number = 1
    /\ LRU_queue = Nil
    /\ page_table = <<>>
    /\ page_hits = <<>>
    /\ success = <<>>

\* Faulty: inserts the new timestamp before it looks for the old one.
MoveFrontInsertingFirst(old_ts, new_ts) ==
    LET queue == Insert(LRU_queue, new_ts, 0, FALSE).root
    IN [rank |-> Find(queue, old_ts).idx, queue |-> Erase(queue, old_ts, 0, Nil).root]

\* Faulty: leaves the old timestamp in the queue.
MoveFrontKeepingOld(old_ts, new_ts) ==
    [rank |-> Find(LRU_queue, old_ts).idx, queue |-> Insert(LRU_queue, new_ts, 0, FALSE).root]

\* move_front_queue: the rank of the old timestamp, which is then erased by its
\* iterator, and the queue with the new one.
MoveFront(old_ts, new_ts) ==
    LET it == Find(LRU_queue, old_ts)
    IN [rank |-> it.idx,
        queue |-> Insert(Erase(LRU_queue, it.node[1], 0, Nil).root, new_ts, 0, FALSE).root]

\* A page seen before: count a hit at its rank and move it to the front.
Hit(addr) ==
    /\ access_number <= MaxAccesses
    /\ addr \in DOMAIN page_table
    /\ LET moved == MoveFront(page_table[addr], access_number)
       IN /\ page_hits' = [page_hits EXCEPT ![moved.rank] = @ + 1]
          /\ LRU_queue' = moved.queue
    /\ page_table' = [page_table EXCEPT ![addr] = access_number]
    /\ access_number' = access_number + 1
    /\ UNCHANGED success

\* A new page: room for one more rank and a new entry of the page table.
NewPage(addr) ==
    /\ access_number <= MaxAccesses
    /\ addr \notin DOMAIN page_table
    /\ page_hits' = RoomForRank(page_hits)
    /\ page_table' = [a \in DOMAIN page_table \cup {addr} |->
                        IF a = addr THEN access_number ELSE page_table[a]]
    /\ LRU_queue' = Insert(LRU_queue, access_number, 0, FALSE).root
    /\ access_number' = access_number + 1
    /\ UNCHANGED success

MemoryAccess(addr) == Hit(addr) \/ NewPage(addr)

GetSuccessFunction ==
    /\ success' = SuccessFunction(page_hits)
    /\ UNCHANGED <<access_number, LRU_queue, page_table, page_hits>>

Next == (\E addr \in Addr : MemoryAccess(addr)) \/ GetSuccessFunction

Spec == Init /\ [][Next]_vars

-----------------------------------------------------------------------------
(* Properties                                                              *)

\* The set holds exactly the timestamps of the page table, stays in order and
\* balance under its one-sided use (old timestamps leave anywhere, new ones
\* come at the front), and each rank that a hit can have is an index of
\* page_hits.
QueueMatchesPageTable ==
    /\ IsSearchTree(LRU_queue)
    /\ \A n \in Nodes(LRU_queue) : IsInBalance(n)
    /\ Keys(LRU_queue) = Range(page_table)
    /\ Size(LRU_queue) = Cardinality(DOMAIN page_table)
    /\ \A a \in DOMAIN page_table :
          /\ page_table[a] < access_number
          /\ Find(LRU_queue, page_table[a]).idx \in DOMAIN page_hits

Queue == INSTANCE LRUQueue

\* The set is the queue of pages by time of last access: the rank of an
\* iterator, erase and insert do what an access does to it.
ImplementsQueue == Queue!Spec

=============================================================================
