------------------------------ MODULE ThreadedIAF ------------------------------
(***************************************************************************)
(* IncrementAndFreeze with the steps and the threads of populate_operations*)
(* in its calls, for both of its callers: a program that logs accesses and *)
(* asks for success functions, and BoundedIAF, which hands over one chunk  *)
(* after the other and wants the survivors back.  One vector of operations *)
(* serves all the calls.                                                   *)
(***************************************************************************)
EXTENDS IncrementAndFreeze, Populate

ASSUME MaskAssumption == MaxAccesses <= 2 ^ MaskBits

VARIABLES
    caller,  \* "program" or "BoundedIAF"
    log      \* auxiliary: the log as it was before the call in progress

threadedVars == <<vars, populateVars, caller, log>>

ThreadedInit ==
    /\ Init
    /\ PopulateInit
    /\ caller \in {"program", "BoundedIAF"}
    /\ log = <<>>

Access(addr) ==
    /\ caller = "program"
    /\ phase = "idle"
    /\ MemoryAccess(addr)
    /\ UNCHANGED <<populateVars, caller, log>>

\* get_success_function, up to the threads.  The log is sorted where it is.
CallGetSuccessFunction ==
    /\ caller = "program"
    /\ Call(requests, FALSE)
    /\ requests' = reqs'
    /\ log' = requests
    /\ UNCHANGED <<access_number, success, caller>>

\* process_chunk, up to the threads: the requests of a chunk are numbered by
\* their places.
CallProcessChunk(addrs) ==
    /\ caller = "BoundedIAF"
    /\ Call([i \in 1..Len(addrs) |-> [addr |-> addrs[i], access_number |-> i]], TRUE)
    /\ UNCHANGED <<vars, caller, log>>

Step == PopulateStep /\ UNCHANGED <<vars, caller, log>>

\* The rest of the call: the projections, here in one step (see HitsVector), and
\* for a program the prefix sums.
EndCall ==
    /\ Return
    /\ success' = IF caller = "program"
                  THEN PrefixSums(HitsOfOperations(<<>>, Decoded(operations), unique_ids))
                  ELSE success
    /\ log' = <<>>
    /\ UNCHANGED <<access_number, requests, caller>>

ThreadedNext ==
    \/ \E addr \in Addr : Access(addr)
    \/ CallGetSuccessFunction
    \/ \E n \in 1..MaxAccesses : \E addrs \in [1..n -> Addr] : CallProcessChunk(addrs)
    \/ Step
    \/ EndCall

ThreadedSpec == ThreadedInit /\ [][ThreadedNext]_threadedVars

\* A call that has begun goes on: the threads of a team run until they are all
\* at the barrier.  Nothing obliges the callers to call.
FairThreadedSpec == ThreadedSpec /\ WF_threadedVars(Step \/ EndCall)

-----------------------------------------------------------------------------
(* Properties                                                              *)

\* Every call returns: no thread waits for another for ever, and the compaction
\* comes to the end of the vector.
EveryCallReturns == phase # "idle" ~> phase = "idle"

Atomic == INSTANCE IncrementAndFreeze WITH
    requests <- IF phase = "idle" THEN requests ELSE log

\* To its callers a call is one step, that of IncrementAndFreeze, although the
\* log is sorted long before the result is there.
ImplementsAtomicCalls == Atomic!Spec

=============================================================================
