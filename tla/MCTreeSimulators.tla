--------------------------- MODULE MCTreeSimulators ---------------------------
(***************************************************************************)
(* TreeSimulators for model checking: addresses are model values, which no *)
(* definition tells apart, so that permuting them gives the same           *)
(* behaviours.  None of the properties is a liveness property.             *)
(***************************************************************************)
EXTENDS TreeSimulators, TLC

Symmetry == Permutations(Addr)

=============================================================================
