------------------------------ MODULE Lowering ------------------------------
(***************************************************************************)
(* Which machine instructions lower_inst of backend/src/riscv/select.rs    *)
(* chooses for an operation and the type of its result, once its operands  *)
(* are in the registers r1 and r2 and its result goes to dest (Codegen     *)
(* models how they get there).  Floating point types are left out.         *)
(***************************************************************************)
EXTENDS Isa

BinaryOp == {"add", "sub", "mul", "div", "rem", "and", "or", "xor", "shl", "shr", "sar"}

\* Type::byte_size
ByteSize == [i1 |-> 1, i8 |-> 1, i16 |-> 2, i32 |-> 4, i64 |-> 8, ptr |-> 8]

\* op64 and op32 of lower_binary.
OpPair ==
    [add |-> <<"add", "addw">>, sub |-> <<"sub", "subw">>, mul |-> <<"mul", "mulw">>,
     div |-> <<"div", "divw">>, rem |-> <<"rem", "remw">>,
     and |-> <<"and", "and">>, or |-> <<"or", "or">>, xor |-> <<"xor", "xor">>,
     shl |-> <<"sll", "sllw">>, shr |-> <<"srl", "srlw">>, sar |-> <<"sra", "sraw">>]

IsWord(ty) == ByteSize[ty] = 4

Binary(op, ty, dest, r1, r2) ==
    <<Alu(OpPair[op][IF IsWord(ty) THEN 2 ELSE 1], dest, r1, r2)>>

Neg(ty, dest, r) == <<Alu(IF IsWord(ty) THEN "subw" ELSE "sub", dest, "zero", r)>>
Not1(dest, r)    == <<AluImm("xori", dest, r, -1)>>

Negated(dest) == AluImm("xori", dest, dest, 1)

Cmp(op, dest, r1, r2) ==
    CASE op = "eq"  -> <<Alu("xor", dest, r1, r2), AluImm("sltiu", dest, dest, 1)>>
      [] op = "ne"  -> <<Alu("xor", dest, r1, r2), Alu("sltu", dest, "zero", dest)>>
      [] op = "lt"  -> <<Alu("slt", dest, r1, r2)>>
      [] op = "gt"  -> <<Alu("slt", dest, r2, r1)>>
      [] op = "le"  -> <<Alu("slt", dest, r2, r1), Negated(dest)>>
      [] op = "ge"  -> <<Alu("slt", dest, r1, r2), Negated(dest)>>
      [] op = "ult" -> <<Alu("sltu", dest, r1, r2)>>
      [] op = "ugt" -> <<Alu("sltu", dest, r2, r1)>>
      [] op = "ule" -> <<Alu("sltu", dest, r2, r1), Negated(dest)>>
      [] op = "uge" -> <<Alu("sltu", dest, r1, r2), Negated(dest)>>

LoadOf(ty)  == [i1 |-> "lb", i8 |-> "lb", i16 |-> "lh", i32 |-> "lw", i64 |-> "ld", ptr |-> "ld"][ty]
StoreOf(ty) == [i1 |-> "sb", i8 |-> "sb", i16 |-> "sh", i32 |-> "sw", i64 |-> "sd", ptr |-> "sd"][ty]

\* The address of an access out of immediate reach is computed in t2.
Far(ptr, offset) == <<Li64("t2", offset), Alu("add", "t2", ptr, "t2")>>

LoadFrom(ty, dest, ptr, offset) ==
    IF Fits(offset, ImmBits) THEN <<Load(LoadOf(ty), dest, ptr, offset)>>
    ELSE Append(Far(ptr, offset), Load(LoadOf(ty), dest, "t2", 0))

StoreTo(ty, val, ptr, offset) ==
    IF Fits(offset, ImmBits) THEN <<Store(StoreOf(ty), ptr, val, offset)>>
    ELSE Append(Far(ptr, offset), Store(StoreOf(ty), "t2", val, 0))

\* Registers and memory after a list of instructions without jumps.
AfterAll(list, s) == FoldLeft(LAMBDA t, m : After(m, t), s, list)
=============================================================================
