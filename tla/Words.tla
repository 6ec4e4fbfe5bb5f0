-------------------------------- MODULE Words --------------------------------
(***************************************************************************)
(* The width of what a register holds: the numbers the optimizer folds and *)
(* the interpreter computes with.                                          *)
(*                                                                         *)
(* A register holds 8 bytes and a word 4, as in the code; the bits of a    *)
(* byte and of an immediate are parameters.  Values are signed numbers.    *)
(***************************************************************************)
EXTENDS Integers

CONSTANTS
    ByteBits,   \* the bits of a byte (8)
    ImmBits     \* the bits of an I-type immediate (12)

WordBits == 4 * ByteBits
RegBits  == 8 * ByteBits

ASSUME WidthAssumption ==
    /\ ByteBits \in Nat \ {0}
    /\ ImmBits \in 2..(WordBits - 1)
    /\ \E k \in 0..RegBits : RegBits = 2^k     \* shift counts are masked

\* The low bits of x, sign-extended and zero-extended.
Signed(x, bits)   == ((x + 2^(bits - 1)) % 2^bits) - 2^(bits - 1)
Unsigned(x, bits) == x % 2^bits
Fits(x, bits)     == Signed(x, bits) = x

Truth(b) == IF b THEN 1 ELSE 0

\* The comparisons of the IR, each an operation of its own.
CmpOp == {"eq", "ne", "lt", "gt", "le", "ge", "ult", "ugt", "ule", "uge"}
=============================================================================
