-------------------------------- MODULE Widths --------------------------------
(***************************************************************************)
(* The integers of statApp/src, scaled down, and what is left of a number  *)
(* that is stored in one too narrow for it.                                *)
(***************************************************************************)
EXTENDS Integers

CONSTANTS
    Word,       \* 2^32
    DWord,      \* 2^64
    LongMax     \* 2^63 - 1, beyond which std::stol throws

ASSUME WidthAssumption ==
    Word \in Nat \ {0} /\ DWord \in Nat \ {0} /\ LongMax \in Nat

\* A w bit integer kept as a signed one, W being 2^w.
Signed(v, W) == ((v + W \div 2) % W) - (W \div 2)
===============================================================================
