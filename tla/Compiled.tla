------------------------------- MODULE Compiled -------------------------------
(***************************************************************************)
(* What a function computes once it is lowered and run on the machine,     *)
(* before and after the optimizer's passes.                                *)
(***************************************************************************)
EXTENDS Optimizer, Lowering

CONSTANT Argument   \* the arguments a function is tried on

ASSUME ArgumentAssumption == \A p \in Argument : Fits(p, RegBits)

-----------------------------------------------------------------------------
(* A run is a record: where it is (block, k) and came from, the values and  *)
(* the memory, the calls made, and the result.  Alloca i is at address      *)
(* 8 * i; the answer to a call is how many calls came before it.            *)

Running == 2^RegBits   \* no value of a register

\* The machine instructions of an instruction, operands in t0 and t1.
Lowered(inst, ty) ==
    CASE inst.op \in BinaryOp -> Binary(inst.op, ty, "t0", "t0", "t1")
      [] inst.op \in CmpOp    -> Cmp(inst.op, "t0", "t0", "t1")
      [] inst.op = "neg"      -> Neg(ty, "t0", "t0")
      [] inst.op = "not"      -> Not1("t0", "t0")
      [] inst.op = "load"     -> LoadFrom(inst.of, "t0", "t0", inst.n)
      [] inst.op = "store"    -> StoreTo(ty, "t0", "t1", inst.n)

\* The type that decides: of the result, or of the value stored.
TypeFor(inst, i) == func.ty[IF inst.op = "store" THEN inst.args[1] ELSE i]

Operands(arg) ==
    [r \in RegName |-> CASE r = "t0" /\ Len(arg) > 0 -> arg[1]
                         [] r = "t1" /\ Len(arg) > 1 -> arg[2]
                         [] OTHER -> 0]

\* The run after instruction i, whose operands have the values arg.
Step(inst, i, arg, r) ==
    LET Go(b)  == [r EXCEPT !.from = r.block, !.block = b, !.k = 1]
        Def(x) == [r EXCEPT !.k = @ + 1, !.val[i] = x]
        Machine(s) == [Def(s.regs["t0"]) EXCEPT !.mem = s.mem]
    IN  CASE ~HasSideEffects(inst) /\ ~Defines(i) -> [r EXCEPT !.k = @ + 1]
          [] inst.op = "const"  -> Def(inst.n)
          [] inst.op = "phi"    -> Def(arg[SelectInSeq(inst.from, LAMBDA b : b = r.from)])
          [] inst.op = "alloca" -> Def(8 * i)
          [] inst.op = "call"   -> [Def(Len(r.calls)) EXCEPT !.calls = Append(@, arg)]
          [] inst.op = "jmp"    -> Go(inst.to[1])
          [] inst.op = "br"     -> Go(inst.to[IF arg[1] # 0 THEN 1 ELSE 2])
          [] inst.op = "ret"    -> [r EXCEPT !.result = arg[1]]
          [] OTHER -> Machine(AfterAll(Lowered(inst, TypeFor(inst, i)),
                                       [regs |-> Operands(arg), mem |-> r.mem]))

StepAt(ins, i, r) ==
    Step(ins[i], i, [j \in DOMAIN ins[i].args |-> r.val[ins[i].args[j]]], r)

\* Control flow has no cycles here: a run is as long as there are instructions.
Outcome(ins, body, p) ==
    LET r0 == [block |-> 1, k |-> 1, from |-> 0, calls |-> <<>>, result |-> Running,
               val |-> [v \in 0..Len(ins) |-> IF v = 0 THEN p ELSE Running],
               mem |-> <<>>]
        end == FoldLeft(LAMBDA r, i : IF r.result = Running THEN StepAt(ins, body[r.block][r.k], r) ELSE r,
                        r0, ins)
    IN  <<end.result, end.calls>>

(***************************************************************************)
(* After every pass the function, lowered and run on the machine, returns  *)
(* what it returned before and makes the same calls: what is folded at     *)
(* compile time is what the chosen instructions compute at run time        *)
(* (opt.rs:7-17, 104-295; select.rs:286-415; vm.rs:180-324).               *)
(***************************************************************************)
Preserves ==
    \A p \in Argument : Outcome(insts, blocks, p) = Outcome(func.insts, func.blocks, p)
=============================================================================
