------------------------------ MODULE BoundedIAF ------------------------------
(***************************************************************************)
(* BoundedIAF (bounded_iaf.h, bounded_iaf.cc): the simulator that runs     *)
(* Increment-and-Freeze on chunks of the trace.  A chunk begins with the   *)
(* "living" requests, the last access of every address seen so far (the    *)
(* max_living_req most recent ones), renumbered from 1, followed by the    *)
(* fresh requests.  A chunk is processed when it reaches cur_u requests or *)
(* when the success function is asked for.                                 *)
(*                                                                         *)
(* process_chunk is operator UpdatedHits of module HitsVector: what the    *)
(* base case computes from the operations of the chunk, and, as module     *)
(* Projections checks, what the parallel recursion computes from them.     *)
(***************************************************************************)
EXTENDS HitsVector

CONSTANTS
    Addr,          \* addresses, positive integers
    MinChunkSize,  \* min_chunk_size of the constructor
    MaxLivingReq,  \* max_cache_size of the constructor
    MaxSize,       \* the cache sizes 1..MaxSize of the abstract specification
    MaxAccesses    \* bound on the accesses of a behaviour

ASSUME AddrAssumption == Addr \subseteq Nat
ASSUME MinChunkSizeAssumption == MinChunkSize \in Nat \ {0}
ASSUME MaxLivingReqAssumption == MaxLivingReq \in Nat
ASSUME MaxSizeAssumption == MaxSize \in Nat /\ MaxSize <= MaxLivingReq
ASSUME MaxAccessesAssumption == MaxAccesses \in Nat

MaxUMult == 4
MinUMult == 3

VARIABLES
    access_number,  \* one more than the number of accesses made
    requests,       \* chunk_input.requests
    living,         \* chunk_input.output.living_requests
    hits_vector,    \* chunk_input.output.hits_vector, indexed from 0
    cur_u,          \* the chunk is processed when it has this many requests
    success         \* the last success function returned, indexed from 0

vars == <<access_number, requests, living, hits_vector, cur_u, success>>

-----------------------------------------------------------------------------
\* A request with the number its place in the vector gives it.
Request(addr, access_number_) == [addr |-> addr, access_number |-> access_number_]

\* std::min(living_requests.size(), max_living_req)
CappedLiving(n) == IF n <= MaxLivingReq THEN n ELSE MaxLivingReq

\* Faulty: keeps all living requests; keeps the oldest.
EvictNone(v) == v

EvictNewest(v) == SubSeq(v, 1, CappedLiving(Len(v)))

\* The erase() of the oldest living requests above the limit.
EvictOldest(v) == SubSeq(v, Len(v) - CappedLiving(Len(v)) + 1, Len(v))

\* Faulty: counts from 0.
RenumberFromZero(v) == [i \in 1..Len(v) |-> Request(v[i].addr, i - 1)]

\* Living requests count up from 1 again.
Renumber(v) == [i \in 1..Len(v) |-> Request(v[i].addr, i)]

\* Faulty: keeps a chunk of just three times the living requests; grows the
\* chunk by its own size.
UpdatedUKeepsMore(u, num_living) ==
    IF num_living * MinUMult <= u THEN u ELSE MaxUMult * num_living

UpdatedUFromItself(u, num_living) ==
    IF num_living * MinUMult < u THEN u ELSE MaxUMult * u

\* update_u
UpdatedU(u, num_living) ==
    IF num_living * MinUMult < u THEN u ELSE MaxUMult * num_living

\* process_requests on a chunk: the survivors become the living requests and
\* the beginning of the next chunk.
ProcessRequests(chunk) ==
    LET sorted == SortedRequests(chunk)
    IN \E survivors \in ByAccessNumber(Survivors(sorted)) :
         LET kept == Renumber(EvictOldest(survivors))
         IN  /\ hits_vector' = Resize(UpdatedHits(hits_vector, sorted),
                                      1 + CappedLiving(Len(survivors)))
             /\ living' = kept
             /\ cur_u' = UpdatedU(cur_u, Len(kept))
             /\ requests' = kept

-----------------------------------------------------------------------------
Init ==
    /\ access_number = 1
    /\ requests = <<>>
    /\ living = <<>>
    /\ hits_vector = <<>>
    /\ cur_u = MinChunkSize
    /\ success = <<>>

MemoryAccess(addr) ==
    LET chunk == Append(requests, Request(addr, Len(requests) + 1))
    IN  /\ access_number <= MaxAccesses
        /\ access_number' = access_number + 1
        /\ \/ /\ Len(chunk) >= cur_u
              /\ ProcessRequests(chunk)
           \/ /\ Len(chunk) < cur_u
              /\ requests' = chunk
              /\ UNCHANGED <<living, hits_vector, cur_u>>
        /\ UNCHANGED success

GetSuccessFunction ==
    /\ \/ /\ Len(requests) - Len(living) > 0
          /\ ProcessRequests(requests)
       \/ /\ Len(requests) - Len(living) = 0
          /\ UNCHANGED <<requests, living, hits_vector, cur_u>>
    /\ success' = PrefixSums(hits_vector')
    /\ UNCHANGED access_number

Next == (\E addr \in Addr : MemoryAccess(addr)) \/ GetSuccessFunction

Spec == Init /\ [][Next]_vars

-----------------------------------------------------------------------------
(* Properties                                                              *)

TypeOK ==
    /\ access_number \in Nat \ {0}
    /\ requests \in Seq([addr : Addr, access_number : Nat \ {0}])
    /\ living \in Seq([addr : Addr, access_number : Nat \ {0}])
    /\ cur_u \in Nat
    /\ DOMAIN hits_vector \subseteq Nat
    /\ \A d \in DOMAIN hits_vector : hits_vector[d] \in Nat

\* The chunk bound of bounded_iaf.h: a chunk that is being filled has room,
\* and it is more than min_u_mult times the living requests, so that at least
\* two thirds of every full chunk are fresh requests.
ChunkHasRoom ==
    /\ Len(requests) < cur_u
    /\ MinUMult * Len(living) < cur_u

\* Memory stays proportional to the living requests once these outgrow the
\* initial chunk size.
ChunkIsBounded ==
    cur_u <= MinChunkSize \/ cur_u <= MaxUMult * Len(living)

\* A chunk begins with the living requests, all numbers are positions (the
\* operations of request a go to slots 2a-2 and 2a-1), and a living address
\* appears once and within the limit.
ChunkBeginsWithLiving ==
    /\ Len(living) <= Len(requests)
    /\ Len(living) <= MaxLivingReq
    /\ \A i \in 1..Len(living) : requests[i] = living[i]
    /\ \A i \in 1..Len(requests) : requests[i].access_number = i
    /\ \A i, j \in 1..Len(living) : living[i].addr = living[j].addr => i = j

\* Chunks only ever grow, and the living requests with them.
ChunkNeverShrinks ==
    [][cur_u' >= cur_u /\ Len(living') >= Len(living)]_vars

\* The hits that a cache of x pages has had: those in the histogram and those
\* of the chunk still to be processed.
HitsSoFar(x) ==
      SumFunctionOnSet(hits_vector, (1..x) \cap DOMAIN hits_vector)
    + HitsWithSize(TraceOf(requests), x)

\* The caches that the chunk stands for.  Processing a chunk, where the code
\* throws the trace away, must change none of them.
LRU == INSTANCE LRUCaches WITH
    cache   <- [x \in 1..MaxSize |-> TopOfStack(requests, x)],
    hits    <- [x \in 1..MaxSize |-> HitsSoFar(x)],
    success <- [x \in 1..MaxSize |-> HitsOfSize(success, x)]

\* BoundedIAF reports, at every call and for every size up to the limit, the
\* hits of an LRU cache on the whole trace, although it keeps one chunk of it.
ImplementsLRU == LRU!Spec

=============================================================================
