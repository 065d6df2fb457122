------------------------------ MODULE LRUCaches ------------------------------
(***************************************************************************)
(* What every simulator of the repository promises: the number of hits     *)
(* that LRU caches of every size would have had on the accesses made so    *)
(* far.  Here the caches of size 1..MaxSize are really kept, each on its   *)
(* own, most recently used address first, and "success" is the success     *)
(* function of the last report.                                            *)
(***************************************************************************)
EXTENDS PageQueue

CONSTANTS
    Addr,     \* addresses
    MaxSize   \* the largest cache simulated

VARIABLES
    cache,    \* the addresses held by the cache of each size, most recent first
    hits,     \* the hits of the cache of each size
    success   \* the hits of each size in the last success function reported

lruVars == <<cache, hits, success>>

Sizes == 1..MaxSize

Init ==
    /\ cache = [x \in Sizes |-> <<>>]
    /\ hits = [x \in Sizes |-> 0]
    /\ success = [x \in Sizes |-> 0]

Access(addr) ==
    /\ cache' = [x \in Sizes |-> Touch(cache[x], addr, x)]
    /\ hits' = [x \in Sizes |-> hits[x] + (IF Holds(cache[x], addr) THEN 1 ELSE 0)]
    /\ UNCHANGED success

Report ==
    /\ success' = hits
    /\ UNCHANGED <<cache, hits>>

Next == (\E addr \in Addr : Access(addr)) \/ Report

Spec == Init /\ [][Next]_lruVars

-----------------------------------------------------------------------------
\* LRU is a stack algorithm: a larger cache holds all that a smaller one
\* holds, in the same order.  It is why one histogram of stack distances can
\* answer for all sizes at once.
Inclusion ==
    \A x, y \in Sizes : x <= y =>
        /\ Len(cache[x]) <= Len(cache[y])
        /\ \A i \in 1..Len(cache[x]) : cache[x][i] = cache[y][i]
        /\ Len(cache[x]) < x => Len(cache[y]) = Len(cache[x])

\* A larger cache never has fewer hits: a success function never decreases.
LargerCachesHitMore ==
    \A x, y \in Sizes : x <= y => hits[x] <= hits[y] /\ success[x] <= success[y]

=============================================================================
