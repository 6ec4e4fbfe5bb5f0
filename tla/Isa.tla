-------------------------------- MODULE Isa --------------------------------
(***************************************************************************)
(* What the instructions compute: the arithmetic and the memory of the     *)
(* interpreter, backend/src/vm.rs.                                         *)
(***************************************************************************)
EXTENDS MachineCode, Words, SequencesExt, Bitwise

Magnitude(x) == IF x < 0 THEN -x ELSE x

\* Division that rounds towards zero.
Quotient(a, b) ==
    LET q == Magnitude(a) \div Magnitude(b)
    IN  IF (a < 0) = (b < 0) THEN q ELSE -q

\* The register operations, on operands of so many bits.
Arith(op, a, b, bits) ==
    LET ua == Unsigned(a, bits)
        ub == Unsigned(b, bits)
        sh == b % bits
    IN  Signed(CASE op = "add"  -> a + b
                 [] op = "sub"  -> a - b
                 [] op = "mul"  -> a * b
                 [] op = "div"  -> IF b = 0 THEN -1 ELSE Quotient(a, b)
                 [] op = "divu" -> IF b = 0 THEN -1 ELSE ua \div ub
                 [] op = "rem"  -> IF b = 0 THEN a ELSE a - b * Quotient(a, b)
                 [] op = "remu" -> IF b = 0 THEN a ELSE ua % ub
                 [] op = "sll"  -> a * 2^sh
                 [] op = "srl"  -> ua \div 2^sh
                 [] op = "sra"  -> a \div 2^sh
                 [] op = "slt"  -> Truth(a < b)
                 [] op = "sltu" -> Truth(ua < ub)
                 [] op = "xor"  -> ua ^^ ub
                 [] op = "or"   -> ua | ub
                 [] op = "and"  -> ua & ub,
               bits)

OnRegisters(op, a, b) == Arith(op, a, b, RegBits)
OnWords(op, a, b)     == Arith(op, Signed(a, WordBits), Signed(b, WordBits), WordBits)

\* The operation of a word or immediate instruction.
Base == [addw |-> "add", subw |-> "sub", mulw |-> "mul", divw |-> "div", divuw |-> "divu",
         remw |-> "rem", remuw |-> "remu", sllw |-> "sll", srlw |-> "srl", sraw |-> "sra",
         addi |-> "add", xori |-> "xor", ori |-> "or", andi |-> "and", slti |-> "slt",
         sltiu |-> "sltu", slli |-> "sll", srli |-> "srl", srai |-> "sra",
         addiw |-> "add", slliw |-> "sll", srliw |-> "srl", sraiw |-> "sra"]

Computes(op, a, b) ==
    IF op \in RegOp THEN OnRegisters(op, a, b)
    ELSE IF op \in WordOp \cup {"addiw", "slliw", "srliw", "sraiw"} THEN OnWords(Base[op], a, b)
    ELSE OnRegisters(Base[op], a, b)

Holds(op, a, b) ==
    LET ua == Unsigned(a, RegBits)
        ub == Unsigned(b, RegBits)
    IN  CASE op = "beq"  -> a = b
          [] op = "bne"  -> a # b
          [] op = "blt"  -> a < b
          [] op = "bge"  -> a >= b
          [] op = "bltu" -> ua < ub
          [] op = "bgeu" -> ua >= ub

\* Memory is little-endian and 0 where nothing was written.
Size(op) ==
    CASE op \in {"lb", "lbu", "sb"} -> 1
      [] op \in {"lh", "lhu", "sh"} -> 2
      [] op \in {"lw", "lwu", "sw"} -> 4
      [] op \in {"ld", "sd"}        -> 8

Byte(mem, addr) == IF addr \in DOMAIN mem THEN mem[addr] ELSE 0

Bytes(mem, addr, size) ==
    FoldLeft(LAMBDA x, k : x + Byte(mem, addr + k - 1) * 2^(ByteBits * (k - 1)),
             0, [k \in 1..size |-> k])

Loaded(op, mem, addr) ==
    LET raw == Bytes(mem, addr, Size(op))
    IN  IF op \in {"lbu", "lhu", "lwu"} THEN raw ELSE Signed(raw, ByteBits * Size(op))

Stored(op, mem, addr, val) ==
    [a \in addr..(addr + Size(op) - 1) |-> (val \div 2^(ByteBits * (a - addr))) % 2^ByteBits] @@ mem

Written(s, rd, val) == IF rd = "zero" THEN s ELSE [s EXCEPT !.regs[rd] = val]

Computing == RegOp \cup WordOp \cup ImmOp \cup LoadOp \cup StoreOp \cup {"li64", "lui"}

\* Registers and memory after an instruction that only computes.
After(m, s) ==
    LET a == s.regs[m.rs1]
        addr == OnRegisters("add", a, m.imm)
    IN  CASE m.op \in RegOp \cup WordOp -> Written(s, m.rd, Computes(m.op, a, s.regs[m.rs2]))
          [] m.op \in ImmOp   -> Written(s, m.rd, Computes(m.op, a, m.imm))
          [] m.op = "li64"    -> Written(s, m.rd, m.imm)
          [] m.op = "lui"     -> Written(s, m.rd, Signed(m.imm * 2^ImmBits, WordBits))
          [] m.op \in LoadOp  -> Written(s, m.rd, Loaded(m.op, s.mem, addr))
          [] m.op \in StoreOp -> [s EXCEPT !.mem = Stored(m.op, @, addr, s.regs[m.rs2])]
=============================================================================
