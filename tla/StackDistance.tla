---------------------------- MODULE StackDistance ----------------------------
(***************************************************************************)
(* What the simulators compute, stated without any of their algorithms.    *)
(* The stack distance of an access that repeats an address is the number   *)
(* of distinct addresses accessed since its previous access, itself        *)
(* included.  An LRU cache of x pages hits exactly the repeated accesses   *)
(* with a distance of at most x.                                           *)
(***************************************************************************)
EXTENDS Integers, Sequences, FiniteSets

Earlier(trace, i) == {j \in 1..(i - 1) : trace[j] = trace[i]}

IsRepeat(trace, i) == Earlier(trace, i) # {}

PreviousAccess(trace, i) ==
    CHOOSE j \in Earlier(trace, i) : \A k \in Earlier(trace, i) : k <= j

Distance(trace, i) ==
    Cardinality({trace[j] : j \in PreviousAccess(trace, i)..(i - 1)})

Repeats(trace) == {i \in 1..Len(trace) : IsRepeat(trace, i)}

\* The accesses of trace at distance d, and those that a cache of x pages hits.
AtDistance(trace, d) ==
    Cardinality({i \in Repeats(trace) : Distance(trace, i) = d})

HitsWithSize(trace, x) ==
    Cardinality({i \in Repeats(trace) : Distance(trace, i) <= x})

Distinct(trace) == Cardinality({trace[i] : i \in 1..Len(trace)})

\* Addresses matter only up to renaming: name them in the order of first use.
FirstUseOrdered(trace) ==
    \A i \in 1..Len(trace) :
        trace[i] <= 1 + Distinct(SubSeq(trace, 1, i - 1))

=============================================================================
