-------------------------------- MODULE OpWord --------------------------------
(***************************************************************************)
(* An operation as op.h stores it: one unsigned word whose top bit is the  *)
(* type and whose other MaskBits bits are the target, beside the full      *)
(* amount.  DecodedOp reads it as an operation of module Op.               *)
(***************************************************************************)
EXTENDS Op

CONSTANT MaskBits   \* mask_bits, 63, or 31 with ADDR_BIT32

ASSUME MaskBitsAssumption == MaskBits \in Nat

\* Faulty: a mask with a bit too few.
TypeUnitHalf == 2 ^ (MaskBits - 1)

\* The value of the type bit, and one more than the greatest target.
TypeUnit == 2 ^ MaskBits

\* True of every power of 2; stated because the provers know nothing of powers.
ASSUME TypeUnitAssumption == TypeUnit \in Nat \ {0}

TypeBit(word) == word \div TypeUnit

\* set_type: the other bits stay.
SetType(word, bit) == bit * TypeUnit + (word % TypeUnit)

\* set_target: the type bit stays, but for a target too large, which the code
\* asserts away, it is or-ed with the highest bit of the target.
SetTarget(word, target) ==
    (IF 1 \in {TypeBit(word), TypeBit(target)} THEN TypeUnit ELSE 0) + (target % TypeUnit)

\* The constructors Op(), Op(target, full_amnt) and Op(target).
DefaultOp == [word |-> 0, full_amnt |-> 0]

PrefixWord(target, full) ==
    [word |-> SetTarget(SetType(0, 0), target), full_amnt |-> full]

PostfixWord(target) ==
    [word |-> SetTarget(SetType(0, 1), target), full_amnt |-> 0]

IsNullWord(op) == op.word = 0

\* get_type, get_target and get_full_amnt
DecodedOp(op) ==
    [type |-> IF IsNullWord(op) THEN "Null"
              ELSE IF TypeBit(op.word) = 0 THEN "Prefix" ELSE "Postfix",
     target |-> op.word % TypeUnit,
     full |-> op.full_amnt]

=============================================================================
