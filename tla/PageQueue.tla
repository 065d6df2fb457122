------------------------------- MODULE PageQueue -------------------------------
(***************************************************************************)
(* Queues of pages by last use, latest first: the content of one LRU cache *)
(* and the queue that a table of last uses stands for.                     *)
(***************************************************************************)
EXTENDS Integers, Sequences, FiniteSets

Holds(c, addr) == \E i \in 1..Len(c) : c[i] = addr

\* The cache after an access: the address comes first, and what it displaces
\* is its own old place or, if it had none in a full cache, the last place.
Touch(c, addr, size) ==
    LET displaced == IF Holds(c, addr)
                     THEN CHOOSE i \in 1..Len(c) : c[i] = addr
                     ELSE IF Len(c) = size THEN size ELSE Len(c) + 1
    IN [i \in 1..(IF displaced > Len(c) THEN displaced ELSE Len(c)) |->
           IF i = 1 THEN addr
           ELSE IF i <= displaced THEN c[i - 1]
           ELSE c[i]]

-----------------------------------------------------------------------------
(* The queue of a table: address -> time of its last use                   *)

\* The number of pages used since a page was used.
UsedSince(table, addr) ==
    Cardinality({b \in DOMAIN table : table[b] > table[addr]})

\* The queue from front to back, as far as a cache of x pages holds it.
PageAt(table, rank) ==
    CHOOSE a \in DOMAIN table : UsedSince(table, a) = rank

FrontPages(table, x) ==
    LET n == Cardinality(DOMAIN table)
    IN [i \in 1..(IF x < n THEN x ELSE n) |-> PageAt(table, i - 1)]

=============================================================================
