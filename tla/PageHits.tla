------------------------------- MODULE PageHits -------------------------------
(***************************************************************************)
(* The hits per rank in the LRU queue, indexed from 0, and their sums: the *)
(* same code in OSTCacheSim and ContainerCacheSim.                         *)
(***************************************************************************)
EXTENDS Integers, FiniteSetsExt, Functions

\* One more rank, without hits.
RoomForRank(hits) ==
    [rank \in 0..Cardinality(DOMAIN hits) |->
        IF rank \in DOMAIN hits THEN hits[rank] ELSE 0]

\* Faulty: starts at the second rank.
SuccessFunctionFromOne(hits) ==
    [x \in 0..Cardinality(DOMAIN hits) |-> SumFunctionOnSet(hits, 1..(x - 1))]

\* success[page+1] is the sum of the hits at ranks 0..page.
SuccessFunction(hits) ==
    [x \in 0..Cardinality(DOMAIN hits) |-> SumFunctionOnSet(hits, 0..(x - 1))]

-----------------------------------------------------------------------------
(* What is said of hits                                                    *)

\* The hits in a cache of size x.
HitsBelow(hits, x) == SumFunctionOnSet(hits, (0..(x - 1)) \cap DOMAIN hits)

\* A success function read at size x: its last value if it ends before.
SuccessAt(success, x) ==
    IF DOMAIN success = {} THEN 0
    ELSE success[Min({x, Cardinality(DOMAIN success) - 1})]

=============================================================================
