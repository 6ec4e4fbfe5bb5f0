----------------------------- MODULE MCEmitter -----------------------------
(* Lists of machine instructions: the constants around every power of two,  *)
(* jumps over every distance at which a field of an offset begins, ends or  *)
(* carries, and every instruction on operands of every kind.                *)
EXTENDS Emitter

NonNegative ==
    0..300 \cup { c \in { 2^k + d : k \in 8..(RegBits - 1), d \in -9..8 } : c < 2^(RegBits - 1) }

If(b) == Branch("bne", "a0", "zero", b)

\* A constant decides a branch over a second one and its complement follows; an
\* even one is also an address.
Branching(c) ==
    <<Li64("a0", c), If(1), Li64("a0", 7), Label(1), Li64("t0", -c - 1)>>
    \o (IF c % 2 = 0 THEN <<Call(c)>> ELSE <<>>) \o <<Ret>>

\* Forward and backward over n instructions, taken and not taken.
BranchOver(n, c) ==
    <<Jal(2), Label(1), Ret, Label(2), Li64("a0", c), If(3), Plain(n),
      Label(3), If(4), Ret, Label(4), Jal(1)>>

BranchBack(n, c) ==
    <<Jal(2), Label(1), Plain(n), Ret, Label(2), Li64("a0", c), If(1), Ret>>

JumpOver(n) == <<Jal(2), Label(1), Ret, Label(2), Jal(3), Plain(n), Label(3), Jal(1)>>
JumpBack(n) == <<Jal(2), Label(1), Plain(n), Ret, Label(2), Jal(1)>>

\* Around the borders of the fields; Jumps adds the last distances that 13 and
\* 21 bits reach, either way.
Near == {1, 2, 6, 7, 8, 14, 15, 16, 254, 255, 256, 509, 510, 511, 512, 513, 1000, 1018}
Wide == Near \cup {1022, 1023, 1024, 1025, 2046, 2047, 2048, 100000, 131071, 131072, 262139}

Distances ==
    {BranchOver(n, c) : n \in Near, c \in {0, 1, 100}}
    \cup {BranchBack(n, c) : n \in Near, c \in {0, 1, 100}}
    \cup {BranchOver(1022, 1), BranchBack(1022, 1), JumpOver(262142), JumpBack(262141)}
    \cup {JumpOver(n) : n \in Wide} \cup {JumpBack(n) : n \in Wide}

\* A label is missing: for the first or the last instruction, in dead code,
\* with another label there, and next to a constant near the limit.
Unlinked ==
    {<<Li64("a0", c)>> \o rest :
        c \in {0, 2^(RegBits - 1) - 1, 2^(RegBits - 1) - 2^(ImmBits - 1) - 1},
        rest \in {<<Jal(2), Label(1), Ret>>, <<If(2), Label(1), Ret>>, <<Ret, Jal(1)>>,
                  <<Jal(1), Label(1), Ret, If(2)>>}}

\* The smallest value, a small negative one, 0, a small one and one wider than a word.
Value == {-(2^(RegBits - 1)), -1, 0, 3, 300}

Imm == (-(2^(ImmBits - 1)))..(2^(ImmBits - 1) - 1)

OnTwo(op, c, d)   == <<Li64("t0", c), Li64("t1", d), Alu(op, "t2", "t0", "t1"), Ret>>
OnImm(op, c, imm) == <<Li64("t0", c), AluImm(op, "t1", "t0", imm), Ret>>

Shifts(op) == 0..((IF OnWord(op) THEN WordBits ELSE RegBits) - 1)

\* What one width writes, another reads, there and one byte further.
Access(store, load, imm, near) ==
    <<Li64("t0", -75), Li64("t1", 16), Store(store, "t1", "t0", imm),
      Load(load, "a0", "t1", IF near \in Imm THEN near ELSE imm), Ret>>

Deciding(op, c, d) ==
    <<Li64("t0", c), Li64("t1", d), Branch(op, "t0", "t1", 1), Li64("a0", 1), Label(1), Ret>>

Operations ==
    {OnTwo(op, c, d) : op \in RegOp \cup WordOp, c \in Value, d \in Value}
    \cup {OnImm(op, c, imm) : op \in ImmOp \ ShiftOp, c \in Value, imm \in Imm}
    \cup UNION {{OnImm(op, c, n) : c \in Value, n \in Shifts(op)} : op \in ShiftOp}
    \cup UNION {{Access(store, load, imm, imm), Access(store, load, imm, imm + 1)} :
                    store \in StoreOp, load \in LoadOp, imm \in Imm}
    \cup {Deciding(op, c, d) : op \in BranchOp, c \in Value, d \in Value}

Lists == {Branching(c) : c \in NonNegative} \cup Distances \cup Unlinked \cup Operations
=============================================================================
