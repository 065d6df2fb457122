------------------------------ MODULE OSTCacheSim ------------------------------
(***************************************************************************)
(* The simulator OSTCacheSim (ost_cache_sim.h/.cc): the LRU queue is an    *)
(* order statistic tree by time of last access, so that the rank of a page *)
(* in it is the number of pages used more recently.                        *)
(***************************************************************************)
EXTENDS CacheSim, PageHits, Sequences

INSTANCE OSTree WITH Stored <- Addr

VARIABLES
    access_number,  \* the timestamp of the next access
    LRU_queue,      \* the tree: timestamp of the last access -> address
    page_table,     \* address -> timestamp of its last access
    page_hits,      \* hits per rank of the page hit, indexed from 0
    success         \* the last success function returned, indexed from 0

vars == <<access_number, LRU_queue, page_table, page_hits, success>>

Init ==
    /\ access_number = 1
    /\ LRU_queue = Nil
    /\ page_table = <<>>
    /\ page_hits = <<>>
    /\ success = <<>>

\* Faulty: inserts the page anew and leaves its old entry.
MoveFrontKeepingOld(old_ts, new_ts) ==
    Insert(LRU_queue, new_ts, Find(LRU_queue, old_ts).value)

\* move_front_queue: the entry is removed by the rank at which it was found
\* and inserted with the value that the tree, not the caller, has for it.
MoveFront(old_ts, new_ts) ==
    LET found == Find(LRU_queue, old_ts)
    IN Insert(Remove(LRU_queue, found.rank).tree, new_ts, found.value)

\* A page seen before: count a hit at its rank and move it to the front.
Hit(addr) ==
    /\ access_number <= MaxAccesses
    /\ addr \in DOMAIN page_table
    /\ page_hits' = [page_hits EXCEPT ![Find(LRU_queue, page_table[addr]).rank] = @ + 1]
    /\ LRU_queue' = MoveFront(page_table[addr], access_number)
    /\ page_table' = [page_table EXCEPT ![addr] = access_number]
    /\ access_number' = access_number + 1
    /\ UNCHANGED success

\* A new page: room for one more rank and a new entry of the page table.
NewPage(addr) ==
    /\ access_number <= MaxAccesses
    /\ addr \notin DOMAIN page_table
    /\ page_hits' = RoomForRank(page_hits)
    /\ page_table' = [a \in DOMAIN page_table \cup {addr} |->
                        IF a = addr THEN access_number ELSE page_table[a]]
    /\ LRU_queue' = Insert(LRU_queue, access_number, addr)
    /\ access_number' = access_number + 1
    /\ UNCHANGED success

MemoryAccess(addr) == Hit(addr) \/ NewPage(addr)

GetSuccessFunction ==
    /\ success' = SuccessFunction(page_hits)
    /\ UNCHANGED <<access_number, LRU_queue, page_table, page_hits>>

Next == (\E addr \in Addr : MemoryAccess(addr)) \/ GetSuccessFunction

Spec == Init /\ [][Next]_vars

-----------------------------------------------------------------------------
(* Properties                                                              *)

\* The queue and the page table tell the same story, each rank that a hit can
\* have is an index of page_hits, and the tree is well formed.
QueueMatchesPageTable ==
    /\ IsSearchTree(LRU_queue)
    /\ Values(LRU_queue) =
         {[ts |-> page_table[a], value |-> a] : a \in DOMAIN page_table}
    /\ \A a \in DOMAIN page_table :
         /\ page_table[a] < access_number
         /\ Find(LRU_queue, page_table[a]).rank \in DOMAIN page_hits

\* The comments of ost_cache_sim.h: "Returns a success function which gives the
\* number of page faults for every memory size."
SuccessCountsFaults ==
    [][success' # success =>
          \A x \in DOMAIN success' \ {0} :
              success'[x] = access_number - 1 - SumFunctionOnSet(page_hits, 0..(x - 1))]_vars

Queue == INSTANCE LRUQueue

\* The tree is the queue of pages by time of last access: find, remove and
\* insert by rank do what an access does to it.
ImplementsQueue == Queue!Spec

=============================================================================
