----------------------------- MODULE MCOptimizer -----------------------------
(* Small functions for the optimizer to work on.                            *)
EXTENDS Compiled

\* Values a register, a word and a byte begin or end at, and small ones.
Arguments == {0, 1, 2, 3, 127, 128, -1, -128, -129, 2^15 - 1, -(2^15)}

\* All results, and the parameter, are of one type.
Fn(instructions, lists, ty) ==
    [insts |-> instructions, blocks |-> lists, ty |-> [v \in 0..Len(instructions) |-> ty]]

Foldable == {"add", "sub", "mul"} \cup CmpOp

\* One block: constants, foldable operations and calls in all combinations.
Straight ==
    {Fn(<<Const(1), second, third, fourth, Inst("ret", <<v>>)>>, <<<<1, 2, 3, 4, 5>>>>, "i32") :
        second \in {Const(1), Const(3), Inst("add", <<0, 1>>), Inst("call", <<1>>)},
        third  \in {Inst(op, a) : op \in {"add", "eq", "call"}, a \in {<<0, 1>>, <<1, 1>>, <<1, 2>>, <<2, 2>>}},
        fourth \in {Inst("sub", a) : a \in {0, 1, 2} \X {1, 3}} \cup {Inst("mul", <<2, 3>>)},
        v \in {3, 4}}

\* Each foldable operation on constants at the borders of its type, and what is
\* folded first an operand of the next.
FoldThen(op, a, b, next, ty) ==
    Fn(<<Const(a), Const(b), Inst(op, <<1, 2>>), Inst(next, <<3, 0>>), Inst("ret", <<4>>)>>,
       <<<<1, 2, 3, 4, 5>>>>, ty)

Border(bits) == {-(2^(bits - 1)), -1, 0, 5, 2^(bits - 1) - 1}

Folding ==
    {FoldThen(op, a, b, next, ty) :
        op \in Foldable, a \in Border(RegBits), b \in Border(RegBits),
        next \in {"add", "ult"}, ty \in {"i8", "i16", "i64"}}

\* The word instructions of i32: what is folded in 64 bits agrees as long as it
\* is a word.
WordFolding ==
    {FoldThen(t[1], t[2], t[3], next, "i32") :
        t \in {u \in Foldable \X Border(WordBits) \X Border(WordBits) :
                 Fits(Immediate(u[1], u[2], u[3]), WordBits)},
        next \in {"add", "ult"}}

\* A branch whose arms define what the block after it reads or merges.
Diamond ==
    {Fn(<<Inst("eq", <<0, 0>>), Const(1), Inst("ne", <<0, c>>), Goto("br", <<3>>, <<2, 3>>),
          Inst("add", <<0, 2>>), Inst("add", <<0, l>>), Goto("jmp", <<>>, <<4>>),
          Inst("add", <<0, 2>>), Inst(op, <<r, 2>>), Goto("jmp", <<>>, <<4>>),
          Phi(<<2, 3>>, <<x, 9>>), Phi(<<2, 3>>, <<6, 9>>), Inst("add", <<11, 12>>),
          Inst("ret", <<13>>)>>,
        <<<<1, 2, 3, 4>>, <<5, 6, 7>>, <<8, 9, 10>>, <<11, 12, 13, 14>>>>, ty) :
        c \in {1, 2}, l \in {2, 5}, r \in {0, 8}, op \in {"sar", "call"}, x \in {2, 5, 6},
        ty \in {"i32", "i64"}}

\* One buffer, never loaded from twice around a store: what a narrow load makes
\* of the value stored, in reach of the immediate and beyond.
Memory ==
    {[Fn(<<Alloca("i64"), Const(7), Inst(op, <<0, 2>>), StoreInst(s, 1, n),
           LoadInst(ty, 1, n), LoadInst(ty, 1, n), Inst("add", <<5, t>>), Inst("ret", <<7>>)>>,
         <<<<1, 2, 3, 4, 5, 6, 7, 8>>>>, ty) EXCEPT !.ty[1] = "ptr"] :
        op \in BinaryOp, s \in {0, 3}, t \in {0, 5, 6}, n \in {0, 4}, ty \in {"i8", "i32"}}

\* An instruction whose result nobody named.
Unnamed ==
    {[Fn(<<Inst(op, <<0>>), Inst("call", <<0>>), Inst(op, <<0>>), Inst("ret", <<3>>)>>,
         <<<<1, 2, 3, 4>>>>, "i64") EXCEPT !.ty[1] = "void", !.ty[2] = "void"] : op \in {"neg", "not"}}

Functions == Straight \cup Folding \cup WordFolding \cup Diamond \cup Memory \cup Unnamed

\* A load, a store and the same load again.
LoadsAroundStore ==
    {Fn(<<Alloca("i64"), StoreInst(0, 1, 0), LoadInst("i64", 1, 0),
          Inst("add", <<3, 3>>), StoreInst(4, 1, 0), LoadInst("i64", 1, 0), Inst("ret", <<6>>)>>,
        <<<<1, 2, 3, 4, 5, 6, 7>>>>, "i64")}
=============================================================================
