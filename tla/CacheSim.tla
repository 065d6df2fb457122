------------------------------- MODULE CacheSim -------------------------------
(***************************************************************************)
(* The base class of the simulators (cache_sim.h): they are driven by      *)
(* memory_access, number the accesses from 1, and return a success         *)
(* function on request, which dump_success_function prints with one more   *)
(* line for the misses of the largest cache.                               *)
(***************************************************************************)
EXTENDS Integers, FiniteSets

CONSTANTS
    Addr,        \* addresses
    MaxSize,     \* the cache sizes 1..MaxSize of the abstract specification
    MaxAccesses  \* bound on the accesses of a behaviour

ASSUME MaxSizeAssumption == MaxSize \in Nat
ASSUME MaxAccessesAssumption == MaxAccesses \in Nat

\* Faulty: takes the number of the next access for the number of accesses.
MissesOfNext(access_number, success) ==
    access_number -
        (IF DOMAIN success = {} THEN 0 ELSE success[Cardinality(DOMAIN success) - 1])

\* The last line of dump_success_function: the accesses that the last element
\* of the success function, indexed from 0, leaves over.
Misses(access_number, success) ==
    access_number - 1 -
        (IF DOMAIN success = {} THEN 0 ELSE success[Cardinality(DOMAIN success) - 1])

=============================================================================
