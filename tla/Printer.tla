------------------------------- MODULE Printer -------------------------------
(***************************************************************************)
(* The printer of ir/src/printer.rs: a module as a text.  Its input is what*)
(* Parser builds, where every value has a name.                            *)
(***************************************************************************)
EXTENDS Parser

\* The parts with sep between them.
Join(parts, sep) ==
    FlattenSeq([k \in DOMAIN parts |-> IF k = 1 THEN parts[k] ELSE sep \o parts[k]])

CommaSpace == <<",", " ">>
Indent     == <<" ", " ", " ", " ">>

FormatVal(fn, v) == <<"%">> \o fn.values[v].name

FormatNumber(n) ==
    LET digits(s) == IF s = <<>> THEN <<"0">> ELSE s
        infinite  == n.float /\ ToSet(n.whole) \cap Huge # {}
    IN  (IF n.neg THEN <<"-">> ELSE <<>>)
          \o (IF infinite THEN <<"inf">> ELSE digits(n.whole))
          \o (IF n.float THEN <<".">> \o (IF infinite THEN <<"0">> ELSE digits(n.part)) ELSE <<>>)

FormatOperand(fn, slot, arg) ==
    CASE slot = "value"            -> FormatVal(fn, arg)
      [] slot = "block"            -> fn.blocks[arg].name
      [] slot \in {"type", "cmpop"} -> arg
      [] slot \in {"int", "float"} -> FormatNumber(arg)

IsOperand(slot) == slot \notin Punct

\* The operands of an instruction of fixed shape, a comma where the shape has
\* one and a space before each but the first.
FormatShaped(fn, inst) ==
    LET shape == Shape(inst.op)
        arg(k) == inst.args[Cardinality({j \in 1..k : IsOperand(shape[j])})]
    IN  FlattenSeq([k \in DOMAIN shape |->
            IF IsOperand(shape[k]) THEN <<" ">> \o FormatOperand(fn, shape[k], arg(k))
            ELSE <<shape[k]>>])

FormatVals(fn, vs) == Join([k \in DOMAIN vs |-> FormatVal(fn, vs[k])], CommaSpace)

\* Mutant: value and block of an incoming edge change places.
FormatIncoming_Swapped(fn, v, b) ==
    <<"[", " ">> \o fn.blocks[b].name \o CommaSpace \o FormatVal(fn, v) \o <<" ", "]">>

FormatIncoming(fn, v, b) ==
    <<"[", " ">> \o FormatVal(fn, v) \o CommaSpace \o fn.blocks[b].name \o <<" ", "]">>

FormatInst(fn, inst) ==
    LET args == inst.args
    IN  CASE inst.op \in ShapedOp -> <<inst.op>> \o FormatShaped(fn, inst)
          [] inst.op = "ret" ->
                <<"ret">> \o (IF args = <<>> THEN <<>> ELSE <<" ">> \o FormatVal(fn, args[1]))
          [] inst.op = "call" ->
                <<"call", " ", "@">> \o args[1] \o <<"(">> \o FormatVals(fn, Tail(args)) \o <<")">>
          [] inst.op = "phi" ->
                <<"phi", " ">> \o Join([k \in 1..(Len(args) \div 2) |->
                                          FormatIncoming(fn, args[2 * k - 1], args[2 * k])], CommaSpace)

\* The value instruction i defines; 0 if none does.
ResultOf(fn, i) == SelectInSeq(fn.values, LAMBDA v : v.def = InstDef(i))

FormatStatement(fn, i) ==
    LET v == ResultOf(fn, i)
    IN  Indent
          \o (IF v = 0 THEN <<>>
              ELSE FormatVal(fn, v) \o <<":", " ">> \o fn.values[v].ty \o <<" ", "=", " ">>)
          \o FormatInst(fn, fn.insts[i]) \o <<Newline>>

FormatBlock(fn, block) ==
    block.name \o <<":", Newline>>
      \o FlattenSeq([k \in DOMAIN block.insts |-> FormatStatement(fn, block.insts[k])])

FormatFunction(fn) ==
    <<"func", " ", "@">> \o fn.name \o <<"(">>
      \o Join([k \in DOMAIN fn.params |->
                 FormatVal(fn, fn.params[k].val) \o <<":", " ">> \o fn.params[k].ty], CommaSpace)
      \o <<")", " ", "-", ">", " ">> \o fn.ret \o <<" ", "{", Newline>>
      \o Join([b \in DOMAIN fn.blocks |-> FormatBlock(fn, fn.blocks[b])], <<Newline>>)
      \o <<"}">>

FormatExtern(ext) ==
    <<"extern", " ", "func", " ", "@">> \o ext.name \o <<"(">> \o Join(ext.params, CommaSpace)
      \o <<")", " ", "-", ">", " ">> \o ext.ret

\* Extern declarations first, then the functions.
Format(mod) ==
    LET lines == Join([k \in DOMAIN mod.externs |-> FormatExtern(mod.externs[k])], <<Newline>>)
        fns == Join([k \in DOMAIN mod.functions |-> FormatFunction(mod.functions[k])],
                    <<Newline, Newline>>)
    IN  lines \o (IF lines # <<>> /\ fns # <<>> THEN <<Newline, Newline>> ELSE <<>>) \o fns
=============================================================================
