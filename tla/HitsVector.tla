------------------------------ MODULE HitsVector ------------------------------
(***************************************************************************)
(* The histogram of stack distances that update_hits_vector leaves in      *)
(* hits_vector and its prefix sums, the success function, for the          *)
(* simulators that call it; and how their state is read as the state of    *)
(* the LRU caches they stand for.                                          *)
(***************************************************************************)
EXTENDS Op, StackDistance

\* The number of elements of a vector indexed from 0, and a vector resized:
\* elements past the new size are lost, new ones are 0.
VectorSize(v) == Cardinality(DOMAIN v)

Resize(v, n) == [d \in 0..(n - 1) |-> IF d \in DOMAIN v THEN v[d] ELSE 0]

\* update_hits_vector, after populate_operations: room for every distance of
\* the chunk, then one more hit at the distance that each Postfix freezes.
HitsOfOperations(hits, ops, unique_ids) ==
    LET sized == IF VectorSize(hits) < unique_ids + 1
                 THEN Resize(hits, unique_ids + 1) ELSE hits
        postfixes == {k \in 1..Len(ops) : ops[k].type = "Postfix"}
        frozen == [k \in postfixes |-> FrozenDistance(ops, 1, k)]
    IN [d \in DOMAIN sized |->
           sized[d] + Cardinality({k \in postfixes : frozen[k] = d})]

\* update_hits_vector
UpdatedHits(hits, sorted) ==
    HitsOfOperations(hits, PopulateOperations(sorted), UniqueIds(sorted))

\* Faulty: leaves the hits at the size itself out.
PrefixSumsExclusive(hits) ==
    [d \in DOMAIN hits |-> SumFunctionOnSet(hits, 1..(d - 1))]

\* The loop of get_success_function.
PrefixSums(hits) ==
    [d \in DOMAIN hits |-> SumFunctionOnSet(hits, 1..d)]

-----------------------------------------------------------------------------
(* Reading requests and success functions, for the refinements             *)

\* The vector of requests by access number, whatever the order it is in.
RequestNumbered(reqs, n) ==
    reqs[CHOOSE i \in 1..Len(reqs) : reqs[i].access_number = n]

TraceOf(reqs) == [n \in 1..Len(reqs) |-> RequestNumbered(reqs, n).addr]

\* The content of an LRU cache of x pages after the accesses of reqs, most
\* recent first: the addresses of the x latest last uses.
TopOfStack(reqs, x) ==
    LET trace == TraceOf(reqs)
        n == Len(trace)
        lastUses == {i \in 1..n : \A j \in (i + 1)..n : trace[j] # trace[i]}
        nth(k) == CHOOSE i \in lastUses : Cardinality({j \in lastUses : j >= i}) = k
    IN [k \in 1..Min({x, Cardinality(lastUses)}) |-> trace[nth(k)]]

\* A success function at size x, which for the sizes past its end is its last
\* value and before the first access 0.
HitsOfSize(v, x) ==
    IF DOMAIN v = {} THEN 0 ELSE v[Min({x, VectorSize(v) - 1})]

=============================================================================
