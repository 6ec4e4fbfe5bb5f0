------------------------------ MODULE Assembly ------------------------------
(***************************************************************************)
(* What a list of machine instructions (MInst, backend/src/riscv/inst.rs)  *)
(* means before it is encoded: Li64 and Call are one instruction each, and *)
(* a jump goes to a label.  Emitter shows that the encoded words do this.  *)
(***************************************************************************)
EXTENDS Isa

CONSTANT Program   \* the lists of instructions

VARIABLES
    program,   \* the list
    at,        \* the index of the instruction to execute, 0 after Ret
    regs,      \* the registers
    mem,       \* the memory written so far
    called     \* the addresses called so far

vars == <<program, at, regs, mem, called>>

\* The first instruction from i on that is not a label.
Past(i) == Min({j \in i..Len(program) : program[j].op # "label"})

LabelAt(b) == SelectInSeq(program, LAMBDA m : m.op = "label" /\ m.to = b)

Init ==
    /\ program \in Program
    /\ at = Past(1)
    /\ regs = [r \in RegName |-> 0]
    /\ mem = <<>>
    /\ called = <<>>

Jumps(m) == m.op = "jal" \/ (m.op \in BranchOp /\ Holds(m.op, regs[m.rs1], regs[m.rs2]))

Execute(m) ==
    \/ /\ m.op \in Computing
       /\ \E s \in {After(m, [regs |-> regs, mem |-> mem])} : regs' = s.regs /\ mem' = s.mem
       /\ at' = Past(at + 1)
       /\ UNCHANGED called
    \/ /\ m.op = "plain" \/ (m.op \in BranchOp /\ ~Jumps(m))
       /\ at' = Past(at + 1)
       /\ UNCHANGED <<regs, mem, called>>
    \/ /\ Jumps(m)
       /\ at' = Past(LabelAt(m.to))
       /\ UNCHANGED <<regs, mem, called>>
    \/ /\ m.op = "call"
       /\ called' = Append(called, m.imm)
       /\ regs' = [regs EXCEPT !["t0"] = m.imm]
       /\ at' = Past(at + 1)
       /\ UNCHANGED mem
    \/ /\ m.op = "ret"
       /\ at' = 0
       /\ UNCHANGED <<regs, mem, called>>

Next == at # 0 /\ Execute(program[at]) /\ UNCHANGED program

Spec == Init /\ [][Next]_vars
=============================================================================
