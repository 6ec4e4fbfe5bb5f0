---------------------------- MODULE MachineCode ----------------------------
(***************************************************************************)
(* The machine instructions of backend/src/riscv/inst.rs.  Auipc, which    *)
(* nothing builds, is left out.  Plain(n) is n instructions that matter    *)
(* only for the room they take.                                            *)
(***************************************************************************)
EXTENDS Integers

MInst(op) == [op |-> op, rd |-> "zero", rs1 |-> "zero", rs2 |-> "zero", imm |-> 0, to |-> 0]

Label(b)                 == [MInst("label") EXCEPT !.to = b]
Li64(rd, imm)            == [MInst("li64") EXCEPT !.rd = rd, !.imm = imm]
Alu(op, rd, rs1, rs2)    == [MInst(op) EXCEPT !.rd = rd, !.rs1 = rs1, !.rs2 = rs2]
AluImm(op, rd, rs1, imm) == [MInst(op) EXCEPT !.rd = rd, !.rs1 = rs1, !.imm = imm]
Lui(rd, imm)             == [MInst("lui") EXCEPT !.rd = rd, !.imm = imm]
Load(op, rd, rs1, imm)   == AluImm(op, rd, rs1, imm)
Store(op, rs1, rs2, imm) == [MInst(op) EXCEPT !.rs1 = rs1, !.rs2 = rs2, !.imm = imm]
Branch(op, rs1, rs2, b)  == [MInst(op) EXCEPT !.rs1 = rs1, !.rs2 = rs2, !.to = b]
Jal(b)                   == [MInst("jal") EXCEPT !.to = b]
Jalr(rd, rs1)            == [MInst("jalr") EXCEPT !.rd = rd, !.rs1 = rs1]
Call(address)            == [MInst("call") EXCEPT !.imm = address]
Ret                      == MInst("ret")
Plain(n)                 == [MInst("plain") EXCEPT !.imm = n]

RegName == {"zero", "t0", "t1", "t2", "a0"}

RegOp    == {"add", "sub", "mul", "div", "divu", "rem", "remu", "sll", "srl", "sra",
             "slt", "sltu", "xor", "or", "and"}
WordOp   == {"addw", "subw", "mulw", "divw", "divuw", "remw", "remuw", "sllw", "srlw", "sraw"}
ShiftOp  == {"slli", "srli", "srai", "slliw", "srliw", "sraiw"}
ImmOp    == {"addi", "addiw", "xori", "ori", "andi", "slti", "sltiu"} \cup ShiftOp
LoadOp   == {"lb", "lh", "lw", "ld", "lbu", "lhu", "lwu"}
StoreOp  == {"sb", "sh", "sw", "sd"}
BranchOp == {"beq", "bne", "blt", "bge", "bltu", "bgeu"}
=============================================================================
