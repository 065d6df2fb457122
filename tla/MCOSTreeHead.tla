----------------------------- MODULE MCOSTreeHead -----------------------------
(***************************************************************************)
(* OSTreeHead for model checking.  Two values and one entry at a time that *)
(* has the second are enough to see an entry take the value of another     *)
(* when nodes are moved, removed or rebuilt, and keep the states few.      *)
(***************************************************************************)
EXTENDS OSTreeHead

CONSTANT Marked  \* the value of which there is one at a time

OneMarked == Cardinality({e \in entries : e.value = Marked}) <= 1

=============================================================================
