------------------------------- MODULE LRUQueue -------------------------------
(***************************************************************************)
(* What OSTCacheSim and ContainerCacheSim promise of their trees: the      *)
(* pages are in one queue from the latest used to the oldest, and an       *)
(* access to a page at some rank is a hit of every cache that is larger    *)
(* than this rank.  Here is no tree: ranks are counted in the page table.  *)
(* Both simulators are shown to implement this module, and this module to  *)
(* implement LRUCaches.                                                    *)
(***************************************************************************)
EXTENDS CacheSim, PageHits, PageQueue

VARIABLES
    access_number,  \* the timestamp of the next access
    page_table,     \* address -> timestamp of its last access
    page_hits,      \* hits per rank of the page hit, indexed from 0
    success         \* the last success function returned, indexed from 0

vars == <<access_number, page_table, page_hits, success>>

Init ==
    /\ access_number = 1
    /\ page_table = <<>>
    /\ page_hits = <<>>
    /\ success = <<>>

Hit(addr) ==
    /\ access_number <= MaxAccesses
    /\ addr \in DOMAIN page_table
    /\ page_hits' = [page_hits EXCEPT ![UsedSince(page_table, addr)] = @ + 1]
    /\ page_table' = [page_table EXCEPT ![addr] = access_number]
    /\ access_number' = access_number + 1
    /\ UNCHANGED success

NewPage(addr) ==
    /\ access_number <= MaxAccesses
    /\ addr \notin DOMAIN page_table
    /\ page_hits' = RoomForRank(page_hits)
    /\ page_table' = [a \in DOMAIN page_table \cup {addr} |->
                        IF a = addr THEN access_number ELSE page_table[a]]
    /\ access_number' = access_number + 1
    /\ UNCHANGED success

MemoryAccess(addr) == Hit(addr) \/ NewPage(addr)

GetSuccessFunction ==
    /\ success' = SuccessFunction(page_hits)
    /\ UNCHANGED <<access_number, page_table, page_hits>>

Next == (\E addr \in Addr : MemoryAccess(addr)) \/ GetSuccessFunction

Spec == Init /\ [][Next]_vars

-----------------------------------------------------------------------------
(* Properties                                                              *)

\* Every access is a hit at one rank or the first of its page.
AccessesAreAccountedFor ==
    access_number - 1 = SumFunction(page_hits) + Cardinality(DOMAIN page_table)

\* "Finally dump the number of forced misses": the misses that are printed after
\* a report are the first accesses of the pages, whatever the order of accesses.
MissesAreForced ==
    [][GetSuccessFunction =>
          Misses(access_number, success') = Cardinality(DOMAIN page_table)]_vars

\* A cache of x pages holds the first x pages of the queue.
LRU == INSTANCE LRUCaches WITH
    cache   <- [x \in 1..MaxSize |-> FrontPages(page_table, x)],
    hits    <- [x \in 1..MaxSize |-> HitsBelow(page_hits, x)],
    success <- [x \in 1..MaxSize |-> SuccessAt(success, x)]

\* The queue is the LRU caches of all sizes at once, and the success functions
\* reported are the hits of these caches.
ImplementsLRU == LRU!Spec

=============================================================================
