------------------------------ MODULE Emitter ------------------------------
(***************************************************************************)
(* emit_machine_code of backend/src/riscv/emit.rs, and the interpreter of  *)
(* backend/src/vm.rs running what it emits.                                *)
(*                                                                         *)
(* Emission expands Li64, Call and Ret, gives every label a byte offset,   *)
(* and encodes each instruction in fields.  The machine decodes the fields *)
(* and looks the operation up in its own tables.  A word is the record of  *)
(* its fields.  Branches and jumps have the 13 and 21 bits of the code,    *)
(* other immediates as many as the constants say.  Code and data do not    *)
(* overlap.                                                                *)
(*                                                                         *)
(* Return addresses travel through the frame (see Codegen): here a call    *)
(* comes back to the instruction after it, and Ret leaves.                 *)
(***************************************************************************)
EXTENDS Isa

CONSTANT Program   \* the lists of MInst, no label twice in one

VARIABLES
    program,   \* the list to emit
    checked,   \* a debug build: arithmetic overflow panics
    status,    \* "emit", "run", "returned" or "panicked"
    code,      \* the words, and how many each stands for, of which MInst, and where
    pc, regs, mem, \* of the interpreter
    called,    \* the addresses jumped to through a register
    before     \* history: regs when the current MInst began

vars == <<program, checked, status, code, pc, regs, mem, called, before>>

-----------------------------------------------------------------------------
(* Pass 0: pseudo instructions                                              *)

\* Mutant: the low part is taken for a positive number.
Lo_Unsigned(imm) == imm % 2^ImmBits

\* ((imm & 0xFFF) ^ 0x800) - 0x800: the low part as addi will extend it.
Lo(imm) == Signed(imm, ImmBits)

\* Mutant: the distance to the limit is measured in words, not in registers.
Overflows_Word(imm) == ~Fits(imm, ImmBits) /\ ~Fits(imm - Lo(imm), WordBits)

\* imm - lo leaves i64.
Overflows(imm) == ~Fits(imm, WordBits) /\ ~Fits(imm - Lo(imm), RegBits)

AddLow(op, rd, imm) == IF Lo(imm) = 0 THEN <<>> ELSE <<AluImm(op, rd, rd, Lo(imm))>>

ExpandLi64[rd \in RegName, imm \in Int] ==
    LET rest == Signed(imm - Lo(imm), RegBits) \div 2^ImmBits
    IN  IF Fits(imm, ImmBits) THEN <<AluImm("addi", rd, "zero", imm)>>
        ELSE IF Fits(imm, WordBits) THEN <<Lui(rd, rest)>> \o AddLow("addiw", rd, imm)
        ELSE ExpandLi64[rd, rest] \o <<AluImm("slli", rd, rd, ImmBits)>> \o AddLow("addi", rd, imm)

Expansion(m) ==
    CASE m.op = "li64"  -> ExpandLi64[m.rd, m.imm]
      [] m.op = "call"  -> Append(ExpandLi64["t0", m.imm], Jalr("ra", "t0"))
      [] m.op = "ret"   -> <<Jalr("zero", "ra")>>
      [] m.op = "label" -> <<>>
      [] OTHER          -> <<m>>

\* The instructions for program[i], a plain one standing for imm of them.
Part(i) ==
    LET m == program[i]
    IN  [k \in DOMAIN Expansion(m) |->
            [inst |-> Expansion(m)[k], src |-> i, size |-> IF m.op = "plain" THEN m.imm ELSE 1]]

Expanded == FlattenSeq([i \in DOMAIN program |-> Part(i)])

-----------------------------------------------------------------------------
(* Pass 1: a label is where the next word goes.                             *)

\* The byte offset of every word and of the end.
Offsets(words) ==
    [k \in 1..(Len(words) + 1) |->
        4 * FoldLeft(LAMBDA n, w : n + w.size, 0, SubSeq(words, 1, k - 1))]

\* 0 when no label has the number; the last one when several have.
LabelAt(b) == SelectLastInSeq(program, LAMBDA m : m.op = "label" /\ m.to = b)

\* Mutant: a label takes room like an instruction.
LabelOffset_CountsLabels(words, b) ==
    Offsets(words)[Cardinality({k \in DOMAIN words : words[k].src < LabelAt(b)}) + 1]
        + 4 * Cardinality({i \in 1..LabelAt(b) : program[i].op = "label"})

LabelOffset(words, b) ==
    Offsets(words)[Cardinality({k \in DOMAIN words : words[k].src < LabelAt(b)}) + 1]

-----------------------------------------------------------------------------
(* Pass 2: encoding.  Bits(x, lo, n) is (x >> lo) & (2^n - 1).              *)

Bits(x, lo, n) == (x \div 2^lo) % 2^n

\* Mutant: the sign bit of a branch is lost.
EncodeB_NoSign(x) == [imm12 |-> 0, imm11 |-> Bits(x, 11, 1),
                      imm10_5 |-> Bits(x, 5, 6), imm4_1 |-> Bits(x, 1, 4)]

EncodeB(x) == [imm12 |-> Bits(x, 12, 1), imm11 |-> Bits(x, 11, 1),
               imm10_5 |-> Bits(x, 5, 6), imm4_1 |-> Bits(x, 1, 4)]

EncodeJ(x) == [imm20 |-> Bits(x, 20, 1), imm19_12 |-> Bits(x, 12, 8),
               imm11 |-> Bits(x, 11, 1), imm10_1 |-> Bits(x, 1, 10)]

Word(opcode, f3, m) ==
    [opcode |-> opcode, f3 |-> f3, f7 |-> 0, rd |-> m.rd, rs1 |-> m.rs1, rs2 |-> m.rs2, imm |-> 0]

\* funct3 and funct7 of the register instructions.
Functs33 ==
    [add |-> <<0, 0>>, sub |-> <<0, 32>>, mul |-> <<0, 1>>, div |-> <<4, 1>>, divu |-> <<5, 1>>,
     rem |-> <<6, 1>>, remu |-> <<7, 1>>, sll |-> <<1, 0>>, srl |-> <<5, 0>>, sra |-> <<5, 32>>,
     slt |-> <<2, 0>>, sltu |-> <<3, 0>>, xor |-> <<4, 0>>, or |-> <<6, 0>>, and |-> <<7, 0>>]

Functs3b ==
    [addw |-> <<0, 0>>, subw |-> <<0, 32>>, mulw |-> <<0, 1>>, divw |-> <<4, 1>>, divuw |-> <<5, 1>>,
     remw |-> <<6, 1>>, remuw |-> <<7, 1>>, sllw |-> <<1, 0>>, srlw |-> <<5, 0>>, sraw |-> <<5, 32>>]

Funct3 ==
    [addi |-> 0, xori |-> 4, ori |-> 6, andi |-> 7, slti |-> 2, sltiu |-> 3, slli |-> 1, srli |-> 5,
     srai |-> 5, addiw |-> 0, slliw |-> 1, srliw |-> 5, sraiw |-> 5,
     lb |-> 0, lh |-> 1, lw |-> 2, ld |-> 3, lbu |-> 4, lhu |-> 5, lwu |-> 6,
     sb |-> 0, sh |-> 1, sw |-> 2, sd |-> 3,
     beq |-> 0, bne |-> 1, blt |-> 4, bge |-> 5, bltu |-> 6, bgeu |-> 7]

OnWord(op) == op \in {"addiw", "slliw", "srliw", "sraiw"}

EncodeR(opcode, functs, m) == [Word(opcode, functs[m.op][1], m) EXCEPT !.f7 = functs[m.op][2]]

EncodeI(opcode, m) == [Word(opcode, Funct3[m.op], m) EXCEPT !.imm = m.imm % 2^ImmBits]

\* 0x400 of the immediate is the bit of funct7 that makes a shift arithmetic.
EncodeShift(opcode, m) ==
    [Word(opcode, Funct3[m.op], m) EXCEPT
        !.imm = m.imm % (IF OnWord(m.op) THEN WordBits ELSE RegBits),
        !.f7 = IF m.op \in {"srai", "sraiw"} THEN 32 ELSE 0]

\* A store's immediate is cut in two: 5 of 12 bits and the rest.
LowField == (5 * ImmBits) \div 12

EncodeS(m) ==
    [Word(35, Funct3[m.op], m) EXCEPT
        !.imm = [low |-> Bits(m.imm, 0, LowField), high |-> Bits(m.imm, LowField, ImmBits - LowField)]]

Encode(m, offset) ==
    CASE m.op \in RegOp     -> EncodeR(51, Functs33, m)
      [] m.op \in WordOp    -> EncodeR(59, Functs3b, m)
      [] m.op \in ShiftOp   -> EncodeShift(IF OnWord(m.op) THEN 27 ELSE 19, m)
      [] m.op \in ImmOp \ ShiftOp -> EncodeI(IF OnWord(m.op) THEN 27 ELSE 19, m)
      [] m.op = "lui"       -> [Word(55, 0, m) EXCEPT !.imm = m.imm % 2^(WordBits - ImmBits)]
      [] m.op \in LoadOp    -> EncodeI(3, m)
      [] m.op \in StoreOp   -> EncodeS(m)
      [] m.op \in BranchOp  -> [Word(99, Funct3[m.op], m) EXCEPT !.imm = EncodeB(offset)]
      [] m.op = "jal"       -> [Word(111, 0, m) EXCEPT !.imm = EncodeJ(offset)]
      [] m.op = "jalr"      -> Word(103, 0, m)
      [] m.op = "plain"     -> Word(0, 0, m)

OffsetTo(words, b, here) == IF b = 0 THEN 0 ELSE LabelOffset(words, b) - here

EncodedAt(words, w, here) ==
    [fields |-> Encode(w.inst, OffsetTo(words, w.inst.to, here)),
     size |-> w.size, src |-> w.src, at |-> here]

Encoded(words) == [k \in DOMAIN words |-> EncodedAt(words, words[k], Offsets(words)[k])]

\* A debug build cannot expand a constant of the list.
Overflowing == checked /\ \E m \in ToSet(program) : m.op \in {"li64", "call"} /\ Overflows(m.imm)

\* Mutant: a label that is missing is taken for the start of the code.
Unlabelled_AtStart(words) == FALSE

\* label_offset is asked for a label that pass 1 did not meet.
Unlabelled(words) == \E w \in ToSet(words) : w.inst.to # 0 /\ LabelAt(w.inst.to) = 0

EmitCode ==
    /\ status = "emit"
    /\ IF Overflowing \/ Unlabelled(Expanded)
       THEN status' = "panicked" /\ UNCHANGED code
       ELSE status' = "run" /\ code' = Encoded(Expanded)
    /\ UNCHANGED <<program, checked, pc, regs, mem, called, before>>

-----------------------------------------------------------------------------
(* The interpreter                                                          *)

DecodeB(f) == Signed(f.imm12 * 2^12 + f.imm11 * 2^11 + f.imm10_5 * 2^5 + f.imm4_1 * 2, 13)
DecodeJ(f) == Signed(f.imm20 * 2^20 + f.imm19_12 * 2^12 + f.imm11 * 2^11 + f.imm10_1 * 2, 21)

\* The word at pc; 0 when no instruction starts there.
Fetched == SelectInSeq(code, LAMBDA w : w.at = pc)

LastOfInst(k) == k = Len(code) \/ code[k + 1].src # code[k].src

(* exec_op_33 and exec_op_3b: the operation for funct3 and funct7.          *)
Exec33(f3, f7) ==
    CASE f7 = 0  -> <<"add", "sll", "slt", "sltu", "xor", "srl", "or", "and">>[f3 + 1]
      [] f7 = 1  -> (0 :> "mul" @@ 4 :> "div" @@ 5 :> "divu" @@ 6 :> "rem" @@ 7 :> "remu")[f3]
      [] f7 = 32 -> (0 :> "sub" @@ 5 :> "sra")[f3]

Exec3b(f3, f7) ==
    CASE f7 = 0  -> (0 :> "addw" @@ 1 :> "sllw" @@ 5 :> "srlw")[f3]
      [] f7 = 1  -> (0 :> "mulw" @@ 4 :> "divw" @@ 5 :> "divuw" @@ 6 :> "remw" @@ 7 :> "remuw")[f3]
      [] f7 = 32 -> (0 :> "subw" @@ 5 :> "sraw")[f3]

\* (word >> 26) & 0x3F is 0x10, bit 30 of the word is 1.
Exec13(f3, f7) ==
    IF f3 = 5 THEN (IF f7 \div 2 = 16 THEN "srai" ELSE "srli")
    ELSE <<"addi", "slli", "slti", "sltiu", "xori", "none", "ori", "andi">>[f3 + 1]

Exec1b(f3, f7) ==
    IF f3 = 5 THEN (IF (f7 \div 32) % 2 = 1 THEN "sraiw" ELSE "srliw")
    ELSE <<"addiw", "slliw">>[f3 + 1]

Exec03(f3) == <<"lb", "lh", "lw", "ld", "lbu", "lhu", "lwu">>[f3 + 1]
Exec23(f3) == <<"sb", "sh", "sw", "sd">>[f3 + 1]
Exec63(f3) == <<"beq", "bne", "none", "none", "blt", "bge", "bltu", "bgeu">>[f3 + 1]

DecodeI(op, f) == IF op \in ShiftOp THEN f.imm ELSE Signed(f.imm, ImmBits)
DecodeS(f)     == Signed(f.imm.high * 2^LowField + f.imm.low, ImmBits)

WithImm(op, f) == AluImm(op, f.rd, f.rs1, DecodeI(op, f))

\* What the fields of a word that only computes ask for.
Decoded(f) ==
    CASE f.opcode = 51 -> Alu(Exec33(f.f3, f.f7), f.rd, f.rs1, f.rs2)
      [] f.opcode = 59 -> Alu(Exec3b(f.f3, f.f7), f.rd, f.rs1, f.rs2)
      [] f.opcode = 19 -> WithImm(Exec13(f.f3, f.f7), f)
      [] f.opcode = 27 -> WithImm(Exec1b(f.f3, f.f7), f)
      [] f.opcode = 55 -> Lui(f.rd, f.imm)
      [] f.opcode = 3  -> WithImm(Exec03(f.f3), f)
      [] f.opcode = 35 -> Store(Exec23(f.f3), f.rs1, f.rs2, DecodeS(f))

Compute(f) ==
    /\ f.opcode \in {51, 59, 19, 27, 55, 3, 35}
    /\ \E s \in {After(Decoded(f), [regs |-> regs, mem |-> mem])} : regs' = s.regs /\ mem' = s.mem
    /\ pc' = pc + 4
    /\ UNCHANGED <<called, status>>

Taken(f) == f.opcode = 99 /\ Holds(Exec63(f.f3), regs[f.rs1], regs[f.rs2])

Straight(f, size) ==
    /\ f.opcode = 0 \/ (f.opcode = 99 /\ ~Taken(f))
    /\ pc' = pc + 4 * size
    /\ UNCHANGED <<regs, mem, called, status>>

Jump(f) ==
    /\ f.opcode = 111 \/ Taken(f)
    /\ pc' = pc + (IF f.opcode = 111 THEN DecodeJ(f.imm) ELSE DecodeB(f.imm))
    /\ UNCHANGED <<regs, mem, called, status>>

CallThrough(f) ==
    /\ f.opcode = 103 /\ f.rs1 # "ra"
    /\ called' = Append(called, 2 * (regs[f.rs1] \div 2))
    /\ pc' = pc + 4
    /\ UNCHANGED <<regs, mem, status>>

Return(f) ==
    /\ f.opcode = 103 /\ f.rs1 = "ra"
    /\ status' = "returned"
    /\ UNCHANGED <<regs, mem, called, pc>>

Run ==
    /\ status = "run" /\ Fetched # 0
    /\ LET w == code[Fetched]
       IN  \/ Compute(w.fields) \/ Straight(w.fields, w.size) \/ Jump(w.fields)
           \/ CallThrough(w.fields) \/ Return(w.fields)
    /\ before' = IF LastOfInst(Fetched) THEN regs' ELSE before
    /\ UNCHANGED <<program, checked, code>>

NoRegs == [r \in RegName |-> 0]

Init ==
    /\ program \in Program
    /\ checked \in BOOLEAN
    /\ status = "emit"
    /\ code = <<>>
    /\ pc = 0 /\ regs = NoRegs /\ mem = <<>> /\ called = <<>>
    /\ before = NoRegs

Next == EmitCode \/ Run

Spec == Init /\ [][Next]_vars

\* compile calls emit, and the interpreter loops until the exit address.  This
\* is WF_vars(Next): a step is possible exactly when CanStep.
CanStep  == status = "emit" \/ (status = "run" /\ Fetched # 0)
FairSpec == Spec /\ ([]<>~CanStep \/ []<><<Next>>_vars)

-----------------------------------------------------------------------------

\* Registers keep their width and control is at the start of a word.
TypeOK ==
    /\ \A r \in DOMAIN regs : Fits(regs[r], RegBits)
    /\ status = "run" => Fetched # 0

FirstInst == SelectInSeq(program, LAMBDA m : m.op # "label")

Asm == INSTANCE Assembly WITH
         at <- CASE status \in {"emit", "panicked"}   -> FirstInst
                 [] status = "run" /\ Fetched # 0 -> code[Fetched].src
                 [] OTHER                         -> 0,
         regs <- before

(***************************************************************************)
(* The words do what the list of instructions says: constants arrive       *)
(* exactly, with every carry from a negative low part; jumps in both       *)
(* directions land on the first instruction after the label, whatever the  *)
(* constants between them expand to, as far as the 13 and 21 bits of their *)
(* offsets reach; calls go to the address of their callee, which is even;  *)
(* and the fields of every other instruction make the machine do that      *)
(* instruction (emit.rs:7-225; vm.rs:39-119, 180-357).                     *)
(***************************************************************************)
ImplementsAssembly == Asm!Spec

(***************************************************************************)
(* Emission panics on exactly two kinds of lists: in a debug build on one  *)
(* with one of the 2^(ImmBits - 1) largest constants of 64 bits, where the *)
(* rounding of expand_li64 overflows, and in any build on one with a       *)
(* branch or jump, reached or not, to a label that is nowhere in it.       *)
(* Every other list is encoded (emit.rs:120-124, 152-175).                 *)
(***************************************************************************)
PanicsExactly ==
    LET nearLimit == \E m \in ToSet(program) :
            m.op \in {"li64", "call"} /\ m.imm >= 2^(RegBits - 1) - 2^(ImmBits - 1)
        lost == \E m \in ToSet(program) :
            m.op \in BranchOp \cup {"jal"} /\ Label(m.to) \notin ToSet(program)
    IN  /\ status = "panicked" => (checked /\ nearLimit) \/ lost
        /\ status \in {"run", "returned"} => ~(checked /\ nearLimit) /\ ~lost

(***************************************************************************)
(* Emission and the run of a list without loops, its jumps in reach of     *)
(* their labels, come to an end: the pc never leaves the code              *)
(* (emit.rs:12-110; vm.rs:39-119).                                         *)
(***************************************************************************)
Ends == <>(status \in {"returned", "panicked"})
=============================================================================
