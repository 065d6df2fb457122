------------------------------- MODULE Populate -------------------------------
(***************************************************************************)
(* populate_operations (increment_and_freeze.cc), step by step: the        *)
(* iterations of its parallel loop, shared out among the threads of a      *)
(* team, the critical section in which each thread hands over the          *)
(* survivors it has met, the barrier, and the compaction in place.         *)
(*                                                                         *)
(* The vectors are indexed from 1 here, place_idx and cur_idx from 0 as in *)
(* the code.                                                               *)
(***************************************************************************)
EXTENDS OpWord

CONSTANT Threads   \* the team of threads

ASSUME ThreadsAssumption == IsFiniteSet(Threads) /\ Threads # {}

VARIABLES
    phase,            \* "idle", "loop", "compact" or "return"
    reqs,             \* the vector of requests, sorted
    wants_living,     \* whether living_req is not null
    operations,       \* the operations, kept from one call to the next
    living_req,       \* the survivors handed over so far
    todo,             \* for each thread: the iterations it has still to do,
    unique_ids_priv,  \* its copy of the reduction variable,
    living_req_priv,  \* the survivors it has met,
    stage,            \* "loop", "critical" or "end", and
    inserts_at,       \* the size of living_req it has read when it inserts
    unique_ids,       \* the sum of the copies, after the barrier
    place_idx,        \* of the compaction
    cur_idx

loopVars == <<todo, unique_ids_priv, living_req_priv, stage, inserts_at>>
compactVars == <<unique_ids, place_idx, cur_idx>>
populateVars ==
    <<phase, reqs, wants_living, operations, living_req, loopVars, compactVars>>

NoThreads ==
    /\ todo' = [t \in Threads |-> {}]
    /\ unique_ids_priv' = [t \in Threads |-> 0]
    /\ living_req_priv' = [t \in Threads |-> <<>>]
    /\ stage' = [t \in Threads |-> "loop"]
    /\ inserts_at' = [t \in Threads |-> 0]

PopulateInit ==
    /\ phase = "idle"
    /\ reqs = <<>>
    /\ wants_living = FALSE
    /\ operations = <<>>
    /\ living_req = <<>>
    /\ todo = [t \in Threads |-> {}]
    /\ unique_ids_priv = [t \in Threads |-> 0]
    /\ living_req_priv = [t \in Threads |-> <<>>]
    /\ stage = [t \in Threads |-> "loop"]
    /\ inserts_at = [t \in Threads |-> 0]
    /\ unique_ids = 0
    /\ place_idx = 1
    /\ cur_idx = 1

-----------------------------------------------------------------------------
\* std::vector::resize: what is there stays, new elements are Op().
ResizedOps(ops, n) == [k \in 1..n |-> IF k <= Len(ops) THEN ops[k] ELSE DefaultOp]

\* Faulty: resizes without clearing.
StaleOperations(ops, n) == ResizedOps(ops, 2 * n)

\* clear and resize: nothing is left of the previous call.
FreshOperations(ops, n) == ResizedOps(<<>>, 2 * n)

\* A call up to the parallel region: sort, make room, and share out the loop.
Call(requests_, wants) ==
    LET n == Len(requests_)
    IN  /\ phase = "idle"
        /\ n > 0
        /\ phase' = "loop"
        /\ reqs' = SortedRequests(requests_)
        /\ wants_living' = wants
        /\ operations' = FreshOperations(operations, n)
        /\ living_req' = <<>>
        /\ \E share \in [1..n -> Threads] :
              todo' = [t \in Threads |-> {i \in 1..n : share[i] = t}]
        /\ UNCHANGED <<unique_ids_priv, living_req_priv, stage, inserts_at>>
        /\ UNCHANGED compactVars

\* The request before the i-th, or request(0, 0).
LastRequest(i) == IF i = 1 THEN [addr |-> 0, access_number |-> 0] ELSE reqs[i - 1]

\* Faulty: trusts the address of the request in front of the first one.
RepeatsLastUnguarded(i) == reqs[i].addr = LastRequest(i).addr

RepeatsLast(i) == LastRequest(i).access_number > 0 /\ reqs[i].addr = LastRequest(i).addr

PrefixSlot(access_num) == 2 * access_num - 1

\* Faulty: the slot of the Prefix of the access before.
PostfixSlotBefore(access_num) == PrefixSlot(access_num) - 2

PostfixSlot(access_num) == 2 * access_num

\* One iteration of the loop: the two slots of an access, and, at the first
\* access of an address, the survivor that lies before it in the sorted vector.
Iterate(t) ==
    /\ phase = "loop"
    /\ todo[t] # {}
    /\ LET i == Min(todo[t])
           access_num == reqs[i].access_number
       IN /\ todo' = [todo EXCEPT ![t] = @ \ {i}]
          /\ \/ /\ RepeatsLast(i)
                /\ operations' = [operations EXCEPT
                       ![PrefixSlot(access_num)] = PrefixWord(access_num - 1, -1),
                       ![PostfixSlot(access_num)] = PostfixWord(LastRequest(i).access_number)]
                /\ UNCHANGED <<unique_ids_priv, living_req_priv>>
             \/ /\ ~RepeatsLast(i)
                /\ operations' = [operations EXCEPT
                       ![PrefixSlot(access_num)] = PrefixWord(access_num - 1, 0)]
                /\ unique_ids_priv' = [unique_ids_priv EXCEPT ![t] = @ + 1]
                /\ living_req_priv' =
                       IF wants_living /\ i > 1
                       THEN [living_req_priv EXCEPT ![t] = Append(@, reqs[i - 1])]
                       ELSE living_req_priv
    /\ UNCHANGED <<phase, reqs, wants_living, living_req, stage, inserts_at, compactVars>>

\* Faulty: the insertion without the critical section.
EnterCriticalAnyway(t) ==
    /\ phase = "loop"
    /\ wants_living
    /\ stage[t] = "loop" /\ todo[t] = {}
    /\ stage' = [stage EXCEPT ![t] = "critical"]
    /\ inserts_at' = [inserts_at EXCEPT ![t] = Len(living_req)]
    /\ UNCHANGED <<phase, reqs, wants_living, operations, living_req, compactVars>>
    /\ UNCHANGED <<todo, unique_ids_priv, living_req_priv>>

\* A thread that is through with its iterations goes on at once ("nowait"), if
\* no other is in the critical section, and reads where living_req ends.
EnterCritical(t) ==
    /\ phase = "loop"
    /\ wants_living
    /\ stage[t] = "loop" /\ todo[t] = {}
    /\ \A u \in Threads : stage[u] # "critical"
    /\ stage' = [stage EXCEPT ![t] = "critical"]
    /\ inserts_at' = [inserts_at EXCEPT ![t] = Len(living_req)]
    /\ UNCHANGED <<phase, reqs, wants_living, operations, living_req, compactVars>>
    /\ UNCHANGED <<todo, unique_ids_priv, living_req_priv>>

\* It moves its survivors there and leaves the critical section.
LeaveCritical(t) ==
    /\ phase = "loop"
    /\ stage[t] = "critical"
    /\ living_req' = SubSeq(living_req, 1, inserts_at[t]) \o living_req_priv[t]
    /\ living_req_priv' = [living_req_priv EXCEPT ![t] = <<>>]
    /\ inserts_at' = [inserts_at EXCEPT ![t] = 0]
    /\ stage' = [stage EXCEPT ![t] = "end"]
    /\ UNCHANGED <<phase, reqs, wants_living, operations, todo, unique_ids_priv>>
    /\ UNCHANGED compactVars

AtBarrier(t) == todo[t] = {} /\ (wants_living => stage[t] = "end")

\* The end of the parallel region: the reduction, and on to the compaction.
Join ==
    /\ phase = "loop"
    /\ \A t \in Threads : AtBarrier(t)
    /\ phase' = "compact"
    /\ unique_ids' = SumFunction(unique_ids_priv)
    /\ place_idx' = 1
    /\ cur_idx' = 1
    /\ NoThreads
    /\ UNCHANGED <<reqs, wants_living, operations, living_req>>

\* Faulty: passes over a Null only when it copies.
CompactStepStuck ==
    /\ phase = "compact"
    /\ cur_idx < Len(operations)
    /\ IF IsNullWord(operations[cur_idx + 1])
       THEN UNCHANGED <<operations, place_idx, cur_idx>>
       ELSE /\ operations' = [operations EXCEPT ![place_idx + 1] = operations[cur_idx + 1]]
            /\ place_idx' = place_idx + 1
            /\ cur_idx' = cur_idx + 1
    /\ UNCHANGED <<phase, reqs, wants_living, living_req, loopVars, unique_ids>>

\* One iteration of the loop that squeezes out Nulls.
CompactStep ==
    /\ phase = "compact"
    /\ cur_idx < Len(operations)
    /\ cur_idx' = cur_idx + 1
    /\ IF IsNullWord(operations[cur_idx + 1])
       THEN UNCHANGED <<operations, place_idx>>
       ELSE /\ operations' = [operations EXCEPT ![place_idx + 1] = operations[cur_idx + 1]]
            /\ place_idx' = place_idx + 1
    /\ UNCHANGED <<phase, reqs, wants_living, living_req, loopVars, unique_ids>>

\* The rest: cut off the end, add the last survivor and sort by access number.
Finish ==
    /\ phase = "compact"
    /\ cur_idx = Len(operations)
    /\ phase' = "return"
    /\ operations' = ResizedOps(operations, place_idx)
    /\ living_req' =
           IF wants_living
           THEN SortedBy(Append(living_req, reqs[Len(reqs)]),
                         LAMBDA left, right : left.access_number < right.access_number)
           ELSE living_req
    /\ UNCHANGED <<reqs, wants_living, loopVars, compactVars>>

\* What the threads and the code after the barrier do of their own accord.
PopulateStep ==
    \/ \E t \in Threads : Iterate(t) \/ EnterCritical(t) \/ LeaveCritical(t)
    \/ Join
    \/ CompactStep
    \/ Finish

\* The caller takes the results and forgets them: all but the operations.
Return ==
    /\ phase = "return"
    /\ phase' = "idle"
    /\ reqs' = <<>>
    /\ wants_living' = FALSE
    /\ living_req' = <<>>
    /\ unique_ids' = 0
    /\ place_idx' = 1
    /\ cur_idx' = 1
    /\ UNCHANGED <<operations, loopVars>>

Decoded(ops) == [k \in 1..Len(ops) |-> DecodedOp(ops[k])]

-----------------------------------------------------------------------------
(* Properties                                                              *)

\* Whatever the threads did in whatever order, and whatever the call before had
\* left in the vector, the words are the operations that module Op derives from
\* the requests.
OperationsBuilt == phase = "return" => Decoded(operations) = PopulateOperations(reqs)

\* The copies of unique_ids that the threads have counted in add up to the number
\* of addresses, for which update_hits_vector makes room.
UniqueIdsAddUp == phase = "return" => unique_ids = UniqueIds(reqs)

\* No iteration writes to a slot that another one has written: the loop needs no
\* lock for the operations.
SlotsWrittenOnce ==
    [][phase = "loop" =>
          \A k \in 1..Len(operations) :
              operations[k] # DefaultOp => operations'[k] = operations[k]]_populateVars

\* No survivor is lost between the threads, and the order in which they came
\* is gone: the last request of every address, by access number.
SurvivorsComplete ==
    phase = "return" /\ wants_living => living_req \in ByAccessNumber(Survivors(reqs))

=============================================================================
