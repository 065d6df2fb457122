------------------------------- MODULE Workload -------------------------------
(***************************************************************************)
(* working_set_simulator (simulation.cc), the workload in which most of    *)
(* the accesses are to a working set: the addresses it draws for           *)
(* memory_access.  The program makes 64-bit draws and takes a 32-bit       *)
(* number for their greatest value; the widths are constants here.         *)
(***************************************************************************)
EXTENDS Integers, FiniteSets

CONSTANTS
    RandBits,        \* width of a draw of std::mt19937_64, 64
    DivisorBits,     \* width of 0xFFFFFFFF, 32
    LocalityPercent, \* kLocality in percent, 95
    WorkingSet,      \* kWorkingSet
    IdUniverseSize   \* kIdUniverseSize

VARIABLES
    undrawn,  \* the values that have not yet decided the kind of an access
    common,   \* the accesses made to the working set
    rare      \* the other accesses

vars == <<undrawn, common, rare>>

\* The generator: each of its values comes up equally often, here once.
Rand == 0..(2 ^ RandBits - 1)

Init ==
    /\ undrawn = Rand
    /\ common = 0
    /\ rare = 0

\* working_chance <= kLocality
IsLocal(draw) == draw * 100 <= LocalityPercent * (2 ^ DivisorBits - 1)

Address(draw, addr) ==
    IF IsLocal(draw) THEN addr % WorkingSet
    ELSE (addr % (IdUniverseSize - WorkingSet)) + WorkingSet

\* One iteration of the loop.
MakeAccess(draw, addr) ==
    /\ undrawn' = undrawn \ {draw}
    /\ IF Address(draw, addr) < WorkingSet
       THEN common' = common + 1 /\ UNCHANGED rare
       ELSE rare' = rare + 1 /\ UNCHANGED common

Next == \E draw \in undrawn : \E addr \in Rand : MakeAccess(draw, addr)

Spec == Init /\ [][Next]_vars

-----------------------------------------------------------------------------
\* The comment of working_set_simulator: "A majority of accesses are made to a
\* somewhat small working set", once every value of the generator came up.
MajorityIsCommon == undrawn = {} => common > rare

=============================================================================
