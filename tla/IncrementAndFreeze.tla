-------------------------- MODULE IncrementAndFreeze --------------------------
(***************************************************************************)
(* The simulator IncrementAndFreeze (increment_and_freeze.h/.cc) as its    *)
(* caller sees it: accesses are logged, and every call of                  *)
(* get_success_function recomputes the whole answer from the log, which it *)
(* sorts in place.  Accesses may go on afterwards.  The recursion inside a *)
(* call is module Projections; here it is its result, UpdatedHits.         *)
(***************************************************************************)
EXTENDS CacheSim, HitsVector, SequencesExt

\* Addresses are unsigned numbers, 0 among them: the request in front of the
\* first one has address 0 too, but access number 0.
ASSUME AddrAssumption == Addr \subseteq Nat

VARIABLES
    access_number,  \* one more than the number of accesses made
    requests,       \* the log, in access order or sorted
    success         \* the last success function returned, indexed from 0

vars == <<access_number, requests, success>>

Init ==
    /\ access_number = 1
    /\ requests = <<>>
    /\ success = <<>>

\* Faulty: numbers accesses from 0.
MemoryAccessFromZero(addr) ==
    /\ access_number <= MaxAccesses
    /\ access_number' = access_number + 1
    /\ requests' = Append(requests,
                      [addr |-> addr, access_number |-> Len(requests)])
    /\ UNCHANGED success

MemoryAccess(addr) ==
    /\ access_number <= MaxAccesses
    /\ access_number' = access_number + 1
    /\ requests' = Append(requests,
                      [addr |-> addr, access_number |-> Len(requests) + 1])
    /\ UNCHANGED success

\* On an empty log the code computes the size of the range 1..0 in unsigned
\* arithmetic and divides by zero partitions: it requires an access.
GetSuccessFunction ==
    /\ requests # <<>>
    /\ requests' = SortedRequests(requests)
    /\ success' = PrefixSums(UpdatedHits(<<>>, SortedRequests(requests)))
    /\ UNCHANGED access_number

Next == (\E addr \in Addr : MemoryAccess(addr)) \/ GetSuccessFunction

Spec == Init /\ [][Next]_vars

-----------------------------------------------------------------------------
(* Properties                                                              *)

\* The access numbers stay those of 1..n, each once, although the log is
\* sorted by address between two accesses: they place the operations.
NumbersArePositions ==
    /\ Len(requests) = access_number - 1
    /\ {requests[i].access_number : i \in 1..Len(requests)} = 1..Len(requests)

\* The comment of populate_operations: "Requests is copied, not modified."
RequestsNotModified == [][IsPrefix(requests, requests')]_vars

LRU == INSTANCE LRUCaches WITH
    cache   <- [x \in 1..MaxSize |-> TopOfStack(requests, x)],
    hits    <- [x \in 1..MaxSize |-> HitsWithSize(TraceOf(requests), x)],
    success <- [x \in 1..MaxSize |-> HitsOfSize(success, x)]

\* Every success function reported, in the middle of a trace or again for the
\* same one, is that of LRU caches on all accesses so far.
ImplementsLRU == LRU!Spec

=============================================================================
