------------------------------- MODULE Parser -------------------------------
(***************************************************************************)
(* parse of ir/src/parser.rs: the text is tokenized, then the functions    *)
(* and extern declarations are read one after the other.  One action is    *)
(* one turn of the loops of parse_module and parse_func.                   *)
(*                                                                         *)
(* A function being read is a record                                       *)
(*   name, ret, params   params a sequence of [name, val, ty]              *)
(*   values              the arena func.values: [ty, def, name]            *)
(*   insts, blocks       the arenas; a block is [name, insts]              *)
(* An instruction is [op, args], args being what its operands parsed to,   *)
(* in the order of the text: values, blocks, types, names, literals.       *)
(***************************************************************************)
EXTENDS Lexer

CONSTANTS
    TypeName,  \* names of types
    CmpOp      \* names of comparison operators

VARIABLES
    text,
    tokens,
    phase,     \* "lex", "module", "body", "accepted" or "rejected"
    reason,    \* why it was rejected
    pos,       \* the next token
    module,    \* [externs, functions]
    func,      \* the function being read
    valMap,    \* names to values
    blockMap,  \* names to blocks
    current    \* the block instructions go to, 0 before the first label

vars == <<text, tokens, phase, reason, pos, module, func, valMap, blockMap, current>>

NoModule == [externs |-> <<>>, functions |-> <<>>]

\* Function::new
NewFunction == [name |-> <<>>, ret |-> <<>>, params |-> <<>>, values |-> <<>>,
                insts |-> <<>>, blocks |-> <<>>]

NoNames == [n \in {} |-> 0]

ParamDef(k)    == [by |-> "param", at |-> k]
InstDef(i)     == [by |-> "inst", at |-> i]
Placeholder    == ParamDef(-1)      \* ValueDef::Param(usize::MAX)

-----------------------------------------------------------------------------
(* Reading a piece of a statement.  p is where the parser is: the position, *)
(* what went wrong if anything did, the function, the names of its values,  *)
(* the opcode and the operands read.                                        *)

EndOfTokens == Tok("end", <<>>, 0, 0)
Peek(n)     == IF n <= Len(tokens) THEN tokens[n] ELSE EndOfTokens
Kind(n)     == Peek(n).kind

Start == [pos |-> pos, err |-> "", func |-> func, names |-> valMap,
          op |-> "", result |-> <<>>, args |-> <<>>]

Fail(p, why) == [p EXCEPT !.err = why]
Took(p)      == [p EXCEPT !.pos = @ + 1]
With(p, arg) == [Took(p) EXCEPT !.args = Append(@, arg)]

\* get_or_create_val
Reference(p, name) ==
    IF name \in DOMAIN p.names THEN With(p, p.names[name])
    ELSE LET v == Len(p.func.values) + 1
         IN  [With(p, v) EXCEPT
                !.func.values = Append(@, [ty |-> <<"void">>, def |-> Placeholder, name |-> name]),
                !.names = (name :> v) @@ @]

\* Leading zeros of whole, trailing zeros of part, and the sign of 0 say nothing.
Zeros(s)   == SelectInSeq(s, LAMBDA g : g # "0") - 1
Significand(s) == IF Zeros(s) = -1 THEN <<>> ELSE SubSeq(s, Zeros(s) + 1, Len(s))

Number(lit, asFloat) ==
    LET digits == IF lit[1] = "-" THEN Tail(lit) ELSE lit
        dot    == SelectInSeq(digits \o <<".">>, LAMBDA g : g = ".")
        whole  == Significand(SubSeq(digits, 1, dot - 1))
        part   == Reverse(Significand(Reverse(SubSeq(digits, dot + 1, Len(digits)))))
    IN  [float |-> asFloat, whole |-> whole, part |-> part,
         neg |-> lit[1] = "-" /\ ("." \in ToSet(lit) \/ whole # <<>>)]

\* Mutant: only the labels above are known.
KnownBlock_Above(name) == name \in DOMAIN blockMap /\ blockMap[name] <= current

KnownBlock(name) == name \in DOMAIN blockMap

\* Mutant: the block that is being filled.
BlockRef_Current(name) == current

BlockRef(name) == blockMap[name]

\* One token of a statement: a token to expect, or a kind of operand.
Slot(p, slot) ==
    LET t == Peek(p.pos)
    IN  CASE p.err # "" -> p
          [] slot = "value" /\ t.kind = "value" -> Reference(p, t.name)
          [] slot = "block" /\ t.kind # "end" ->
                IF t.kind = "ident" /\ KnownBlock(t.name)
                THEN With(p, BlockRef(t.name)) ELSE Fail(p, "unknown block")
          [] slot = "type" /\ t.kind = "ident" /\ t.name[1] \in TypeName /\ Len(t.name) = 1 -> With(p, t.name)
          [] slot = "cmpop" /\ t.kind = "ident" /\ t.name[1] \in CmpOp /\ Len(t.name) = 1 -> With(p, t.name)
          [] slot = "int" /\ t.kind = "int" -> With(p, Number(t.name, FALSE))
          [] slot = "float" /\ t.kind \in {"float", "int"} -> With(p, Number(t.name, TRUE))
          [] slot \in {"fname", "name"} /\ t.kind = (IF slot = "name" THEN "value" ELSE "fname") -> With(p, t.name)
          [] slot = t.kind /\ slot \notin {"value", "fname"} -> Took(p)
          [] OTHER -> Fail(p, "syntax")

Slots(p, slots) == FoldLeft(Slot, p, slots)

\* Items, with commas between them and possibly after the last, as long as a
\* token of a kind in more comes next.
RECURSIVE Items(_, _, _)
Items(p, item, more) ==
    IF p.err # "" \/ Kind(p.pos) \notin more THEN p
    ELSE LET q == Slots(p, item)
         IN  IF q.err = "" /\ Kind(q.pos) = "," THEN Items(Took(q), item, more) ELSE q

-----------------------------------------------------------------------------
(* Instructions                                                             *)

Binary == {"add", "sub", "mul", "div", "rem", "and", "or", "xor", "shl", "shr", "sar"}

\* The operands of the instructions that always have the same ones.
Shape(op) ==
    CASE op \in Binary         -> <<"value", ",", "value">>
      [] op \in {"neg", "not"} -> <<"value">>
      [] op = "const.int"      -> <<"int">>
      [] op = "const.float"    -> <<"float">>
      [] op = "cmp"            -> <<"cmpop", "value", ",", "value">>
      [] op = "alloca"         -> <<"type">>
      [] op = "load"           -> <<"type", ",", "value", ",", "int">>
      [] op = "store"          -> <<"value", ",", "value", ",", "int">>
      [] op = "jmp"            -> <<"block">>
      [] op = "br"             -> <<"value", ",", "block", ",", "block">>

ShapedOp == Binary \cup {"neg", "not", "const.int", "const.float", "cmp", "alloca",
                         "load", "store", "jmp", "br"}

Incoming == <<"[", "value", ",", "block", "]">>
AnyBut(kind) == {tokens[i].kind : i \in DOMAIN tokens} \ {kind}

\* The operands of p.op, the token before p.
Operands(p) ==
    CASE p.op \in ShapedOp -> Slots(p, Shape(p.op))
      [] p.op = "ret"  -> IF Kind(p.pos) = "value" THEN Slot(p, "value") ELSE p
      [] p.op = "call" -> Slot(Items(Slots(p, <<"fname", "(">>), <<"value">>, AnyBut(")")), ")")
      [] p.op = "phi"  -> Items(p, Incoming, {"["})
      [] OTHER         -> Fail(p, "syntax")

\* parse_instruction, after what precedes it.
Instruction(p) ==
    IF p.err # "" THEN p
    ELSE Operands([Took(p) EXCEPT !.op = Kind(p.pos), !.result = p.args, !.args = <<>>])

\* Mutant: a name that was read before its definition gets a second value.
Bind_Again(p, name, ty, i) ==
    [p EXCEPT !.func.values = Append(@, [ty |-> ty, def |-> InstDef(i), name |-> name]),
              !.names = (name :> Len(p.func.values) + 1) @@ @]

\* The result of instruction i: fills in the value that has the name already.
Bind(p, name, ty, i) ==
    IF name \in DOMAIN p.names
    THEN [p EXCEPT !.func.values[p.names[name]] = [@ EXCEPT !.ty = ty, !.def = InstDef(i)]]
    ELSE [p EXCEPT !.func.values = Append(@, [ty |-> ty, def |-> InstDef(i), name |-> name]),
                   !.names = (name :> Len(p.func.values) + 1) @@ @]

\* Puts the instruction at the end of the block, and names its result.
Enter(p, i) ==
    LET entered == [p EXCEPT !.func.insts = Append(@, [op |-> p.op, args |-> p.args]),
                             !.func.blocks[current].insts = Append(@, i)]
    IN  IF p.err # "" THEN p
        ELSE IF p.result = <<>> THEN entered ELSE Bind(entered, p.result[1], p.result[2], i)

\* [%x : ty =] op operands
Statement ==
    Enter(Instruction(IF Kind(pos) = "value" THEN Slots(Start, <<"name", ":", "type", "=">>) ELSE Start),
          Len(func.insts) + 1)

-----------------------------------------------------------------------------

Reject(why) ==
    /\ phase' = "rejected" /\ reason' = why
    /\ UNCHANGED <<text, tokens, pos, module, func, valMap, blockMap, current>>

Lex ==
    /\ phase = "lex"
    /\ tokens' = Tokenize(text)
    /\ LET failed == tokens' # <<>> /\ Last(tokens').kind = "error"
       IN  /\ phase' = IF failed THEN "rejected" ELSE "module"
           /\ reason' = IF failed THEN "lex" ELSE ""
    /\ pos' = 1
    /\ UNCHANGED <<text, module, func, valMap, blockMap, current>>

\* name ( items ) -> ty, and what else follows.
Signature(start, item, after) ==
    Slots(Items(Slots(Start, start \o <<"fname", "(">>), item, AnyBut(")")),
          <<")", "->", "type">> \o after)

AddExtern(p) ==
    IF p.err # "" THEN Reject(p.err)
    ELSE /\ module' = [module EXCEPT !.externs = Append(@,
              [name |-> Head(p.args), params |-> Tail(Front(p.args)), ret |-> Last(p.args)])]
         /\ pos' = p.pos
         /\ UNCHANGED <<text, tokens, phase, reason, func, valMap, blockMap, current>>

ParseExtern ==
    /\ phase = "module" /\ Kind(pos) = "extern"
    /\ AddExtern(Signature(<<"extern", "func">>, <<"type">>, <<>>))

\* Mutant: the names of the function before are still known.
OldNames_Kept == valMap

OldNames == NoNames

\* add_param for every parameter; a is names and types in turn.
Params(a) ==
    [k \in 1..(Len(a) \div 2) |-> [name |-> a[2 * k - 1], val |-> k, ty |-> a[2 * k]]]

ParamValues(params) ==
    [k \in DOMAIN params |-> [ty |-> params[k].ty, def |-> ParamDef(k), name |-> params[k].name]]

ParamNames(params) == FoldLeft(LAMBDA m, p : (p.name :> p.val) @@ m, OldNames, params)

IsLabel(n) == Kind(n) = "ident" /\ Kind(n + 1) = ":"

\* Where the brace opened before token n is closed, or the end of the tokens.
BodyEnd(n) ==
    LET Depth(m) == 1 + Cardinality({i \in n..m : Kind(i) = "{"})
                      - Cardinality({i \in n..m : Kind(i) = "}"})
        closed == {m \in n..Len(tokens) : Depth(m) = 0}
    IN  IF closed = {} THEN Len(tokens) ELSE Min(closed)

\* The names of the labels between the braces, in the order they first appear.
Labels(n) ==
    LET end == BodyEnd(n)
        new(s, i) == IsLabel(i) /\ tokens[i].name \notin ToSet(s)
    IN  FoldLeft(LAMBDA s, i : IF new(s, i) THEN Append(s, tokens[i].name) ELSE s,
                 <<>>, [k \in 1..(end - n + 1) |-> n + k - 1])

\* The header has been read up to p: the parameters, and the scan for labels.
OpenFunction(p, params, labels) ==
    IF p.err # "" THEN Reject(p.err)
    ELSE /\ func' = [name |-> Head(p.args), ret |-> Last(p.args), params |-> params,
                     values |-> ParamValues(params), insts |-> <<>>,
                     blocks |-> [b \in DOMAIN labels |-> [name |-> labels[b], insts |-> <<>>]]]
         /\ valMap' = ParamNames(params)
         /\ blockMap' = [n \in ToSet(labels) |-> SelectInSeq(labels, LAMBDA m : m = n)]
         /\ current' = 0
         /\ pos' = p.pos
         /\ phase' = "body"
         /\ UNCHANGED <<text, tokens, reason, module>>

ParseHeader ==
    /\ phase = "module" /\ Kind(pos) = "func"
    /\ \E p \in {Signature(<<"func">>, <<"name", ":", "type">>, <<"{">>)} :
          OpenFunction(p, Params(Tail(Front(p.args))), Labels(p.pos))

\* Mutant: the label is looked at, not taken.
AfterLabel_Peeked(n) == n

AfterLabel(n) == n + 2

ParseLabel ==
    /\ phase = "body" /\ IsLabel(pos)
    /\ current' = blockMap[tokens[pos].name]
    /\ pos' = AfterLabel(pos)
    /\ UNCHANGED <<text, tokens, phase, reason, module, func, valMap, blockMap>>

Resume(p) ==
    IF p.err # "" THEN Reject(p.err)
    ELSE /\ func' = p.func
         /\ valMap' = p.names
         /\ pos' = p.pos
         /\ UNCHANGED <<text, tokens, phase, reason, module, blockMap, current>>

ParseInstruction ==
    /\ phase = "body" /\ Kind(pos) \notin {"}", "end"} /\ ~IsLabel(pos)
    /\ Resume(IF current = 0 THEN Fail(Start, "outside block") ELSE Statement)

Unresolved(fn) == \E v \in DOMAIN fn.values : fn.values[v].def = Placeholder

\* The closing brace, which may be missing at the end of the text.
FinishFunction ==
    /\ phase = "body" /\ Kind(pos) \in {"}", "end"}
    /\ IF Unresolved(func) THEN Reject("undefined value")
       ELSE /\ module' = [module EXCEPT !.functions = Append(@, func)]
            /\ pos' = IF Kind(pos) = "}" THEN pos + 1 ELSE pos
            /\ phase' = "module"
            /\ UNCHANGED <<text, tokens, reason, func, valMap, blockMap, current>>

FinishModule ==
    /\ phase = "module" /\ Kind(pos) \notin {"extern", "func"}
    /\ IF Kind(pos) # "end" THEN Reject("syntax")
       ELSE /\ phase' = "accepted"
            /\ UNCHANGED <<text, tokens, reason, pos, module, func, valMap, blockMap, current>>

Fresh ==
    /\ tokens = <<>> /\ phase = "lex" /\ reason = "" /\ pos = 1
    /\ module = NoModule /\ func = NewFunction
    /\ valMap = NoNames /\ blockMap = NoNames /\ current = 0

Parse ==
    Lex \/ ParseExtern \/ ParseHeader \/ ParseLabel \/ ParseInstruction
        \/ FinishFunction \/ FinishModule
=============================================================================
