------------------------------ MODULE Optimizer ------------------------------
(***************************************************************************)
(* The function-local optimizer of ir/src/opt.rs: constant folding, common *)
(* subexpression elimination and dead code elimination, each a pass over   *)
(* the whole function, repeated until a round of the three changes nothing.*)
(*                                                                         *)
(* A function keeps its instructions in an arena and its blocks list the   *)
(* ones that run.  The result of instruction i is the value i; 0 is the    *)
(* parameter.  ty gives every value its type, "void" to an instruction     *)
(* without a result.  The passes never remove anything from the arena.     *)
(* Float immediates, which Add, Sub and Mul fold as floats, are left out.  *)
(***************************************************************************)
EXTENDS Words, Loops, SequencesExt

CONSTANT Program   \* functions [insts, blocks, ty]

\* The parameter and the results: what instructions of f may read.
ValuesOf(f) == {0} \cup {i \in DOMAIN f.insts : f.ty[i] # "void"}

Instruction(V) ==
    [op : STRING, args : Seq(V), n : Int, of : STRING, to : Seq(Nat), from : Seq(Nat)]

\* No instruction is listed twice, and listed ones read nothing unlisted.
ASSUME ProgramAssumption ==
    \A f \in Program :
        /\ f.insts \in Seq(Instruction(ValuesOf(f)))
        /\ f.blocks \in Seq(Seq(DOMAIN f.insts))
        /\ \A b \in DOMAIN f.blocks : IsInjective(f.blocks[b])
        /\ \A b, c \in DOMAIN f.blocks : b # c => ToSet(f.blocks[b]) \cap ToSet(f.blocks[c]) = {}
        /\ LET listed == UNION {ToSet(f.blocks[b]) : b \in DOMAIN f.blocks}
           IN  \A i \in listed : ToSet(f.insts[i].args) \subseteq listed \cup {0}

VARIABLES
    func,      \* the function as it came
    insts,     \* func.insts, the arena
    blocks,    \* for every block the instructions it lists
    pass,      \* the pass to run next, or "done"
    changed    \* whether this round has changed anything

vars == <<func, insts, blocks, pass, changed>>

\* n is the constant or the offset of an access, of the type loaded or allocated.
Inst(op, args) == [op |-> op, args |-> args, n |-> 0, of |-> "", to |-> <<>>, from |-> <<>>]
Const(n)       == [Inst("const", <<>>) EXCEPT !.n = n]
Alloca(ty)     == [Inst("alloca", <<>>) EXCEPT !.of = ty]
LoadInst(ty, ptr, n)   == [Inst("load", <<ptr>>) EXCEPT !.of = ty, !.n = n]
StoreInst(val, ptr, n) == [Inst("store", <<val, ptr>>) EXCEPT !.n = n]
Goto(op, args, to) == [Inst(op, args) EXCEPT !.to = to]
Phi(from, args)    == [Inst("phi", args) EXCEPT !.from = from]

HasSideEffects(inst) == inst.op \in {"store", "call", "jmp", "br", "ret"}

-----------------------------------------------------------------------------
(* The passes                                                               *)

IsConst(v) == v > 0 /\ insts[v].op = "const"

Folds(inst) ==
    inst.op \in {"add", "sub", "mul"} \cup CmpOp /\ \A i \in DOMAIN inst.args : IsConst(inst.args[i])

Compared(op, a, b) ==
    LET ua == Unsigned(a, RegBits)
        ub == Unsigned(b, RegBits)
    IN  CASE op = "eq"  -> a = b
          [] op = "ne"  -> a # b
          [] op = "lt"  -> a < b
          [] op = "gt"  -> a > b
          [] op = "le"  -> a <= b
          [] op = "ge"  -> a >= b
          [] op = "ult" -> ua < ub
          [] op = "ugt" -> ua > ub
          [] op = "ule" -> ua <= ub
          [] op = "uge" -> ua >= ub

\* The result type plays no part.
Immediate(op, a, b) ==
    CASE op = "add" -> Signed(a + b, RegBits)
      [] op = "sub" -> Signed(a - b, RegBits)
      [] op = "mul" -> Signed(a * b, RegBits)
      [] op \in CmpOp -> Truth(Compared(op, a, b))

Folded(inst) == Const(Immediate(inst.op, insts[inst.args[1]].n, insts[inst.args[2]].n))

\* Mutant: the pass does not say that it has folded something.
ConstantFold_Silent ==
    /\ pass = "fold"
    /\ insts' = [i \in DOMAIN insts |-> IF Folds(insts[i]) THEN Folded(insts[i]) ELSE insts[i]]
    /\ changed' = FALSE
    /\ pass' = "cse"
    /\ UNCHANGED <<func, blocks>>

ConstantFold ==
    /\ pass = "fold"
    /\ insts' = [i \in DOMAIN insts |-> IF Folds(insts[i]) THEN Folded(insts[i]) ELSE insts[i]]
    /\ changed' = \E i \in DOMAIN insts : Folds(insts[i])
    /\ pass' = "cse"
    /\ UNCHANGED <<func, blocks>>

\* Follow remap until it leads nowhere new; values that are not remapped are
\* their own image.
Resolve(remap, v) ==
    LET at[k \in 0..Len(insts)] == IF k = 0 THEN v ELSE remap[at[k - 1]]
    IN  at[Len(insts)]

\* Mutant: nothing is rewritten.
Rewrite_Nothing(inst, remap) == inst

Rewrite(inst, remap) == [inst EXCEPT !.args = [i \in DOMAIN @ |-> Resolve(remap, @[i])]]

Defines(i) == func.ty[i] # "void"

\* s is [insts, remap, seen]: the arena, the values merged so far, and the first
\* instruction of each kind in this block.  The type of the result plays no part.
Merge(s, i) ==
    LET inst == Rewrite(s.insts[i], s.remap)
        t == [s EXCEPT !.insts[i] = inst]
        same == {j \in s.seen : s.insts[j] = inst}
    IN  IF HasSideEffects(inst) \/ ~Defines(i) THEN t
        ELSE IF same = {} THEN [t EXCEPT !.seen = @ \cup {i}]
        ELSE [t EXCEPT !.remap[i] = CHOOSE j \in same : TRUE]

\* The state after the instructions of a block.
MergeList(s, block) ==
    LET after[k \in 0..Len(block)] == IF k = 0 THEN s ELSE Merge(after[k - 1], block[k])
    IN  after[Len(block)]

\* Mutant: seen_insts lives as long as the pass, not as the block.
MergeBlock_KeepsSeen(s, block) == MergeList(s, block)

MergeBlock(s, block) == MergeList([s EXCEPT !.seen = {}], block)

NoRemap == [v \in 0..Len(insts) |-> v]

\* The state after all blocks.
Merged ==
    LET after[b \in 0..Len(blocks)] ==
            IF b = 0 THEN [insts |-> insts, remap |-> NoRemap, seen |-> {}]
            ELSE MergeBlock(after[b - 1], blocks[b])
    IN  after[Len(blocks)]

Cse ==
    /\ pass = "cse"
    /\ LET s == Merged
       IN  /\ insts' = [i \in DOMAIN insts |-> Rewrite(s.insts[i], s.remap)]
           /\ changed' = (changed \/ s.remap # NoRemap)
    /\ pass' = "dce"
    /\ UNCHANGED <<func, blocks>>

\* Mutant: what a phi reads is not counted.
Used_NoPhis == UNION {ToSet(inst.args) : inst \in {x \in ToSet(insts) : x.op # "phi"}}

\* The values any instruction of the arena reads, whether a block lists it or not.
Used == UNION {ToSet(inst.args) : inst \in ToSet(insts)}

\* Without side effects an instruction stays for its result, if it has one.
Stays == {i \in DOMAIN insts : HasSideEffects(insts[i]) \/ (Defines(i) /\ i \in Used)}

Dce ==
    /\ pass = "dce"
    /\ blocks' = [b \in DOMAIN blocks |-> Keep(blocks[b], Stays)]
    /\ pass' = IF changed \/ blocks' # blocks THEN "fold" ELSE "done"
    /\ changed' = FALSE
    /\ UNCHANGED <<func, insts>>

Init ==
    /\ func \in Program
    /\ insts = func.insts
    /\ blocks = func.blocks
    /\ pass = "fold"
    /\ changed = FALSE

Next == ConstantFold \/ Cse \/ Dce

Spec == Init /\ [][Next]_vars

\* The loop of optimize_function runs on until it ends.  This is WF_vars(Next):
\* a pass is possible exactly when pass # "done".
FairSpec == Spec /\ ([]<>(pass = "done") \/ []<><<Next>>_vars)

Listed == UNION {ToSet(blocks[b]) : b \in DOMAIN blocks}

-----------------------------------------------------------------------------

(***************************************************************************)
(* What a listed instruction reads is a parameter or the result of a       *)
(* listed instruction: merging and removal never strand a reader, not even *)
(* one in another block (opt.rs:241-246, 256-292).                         *)
(***************************************************************************)
NothingDangles ==
    \A i \in Listed : ToSet(insts[i].args) \subseteq Listed \cup {0}

(***************************************************************************)
(* When the loop stops nothing is left to fold, to merge within a block,   *)
(* or to remove, although each pass may make work for the other two        *)
(* (opt.rs:7-17).                                                          *)
(***************************************************************************)
Exhausted ==
    pass = "done" =>
        /\ \A i \in Listed : ~Folds(insts[i]) /\ (HasSideEffects(insts[i]) \/ i \in Used)
        /\ \A b \in DOMAIN blocks : \A i, j \in ToSet(blocks[b]) :
              i # j /\ insts[i] = insts[j] => HasSideEffects(insts[i])

(***************************************************************************)
(* The rounds end: no pass undoes another's work (opt.rs:9-15).            *)
(***************************************************************************)
Terminates == <>(pass = "done")
=============================================================================
