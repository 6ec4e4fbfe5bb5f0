------------------------------ MODULE FrontEnd ------------------------------
(***************************************************************************)
(* A text is parsed; what was accepted is printed and parsed again, as the *)
(* round-trip tests do (ir/tests/ir_tests.rs:3-20).  The properties say    *)
(* what lexer, parser and printer promise each other.                      *)
(***************************************************************************)
EXTENDS Printer

CONSTANT Source   \* the texts

VARIABLES
    stage,   \* 1 for the text as given, 2 for the printed one
    origin   \* what the text as given parsed to, and whether Canonical

allVars == <<text, tokens, phase, reason, pos, module, func, valMap, blockMap, current, stage, origin>>

\* Followed by a colon: declared, not referred to.
Declares(i) == Kind(i) \in {"ident", "value"} /\ Kind(i + 1) = ":"

SameFunction(i, j) == \A k \in i..j : Kind(k) # "func"

\* One declaration for each name of a function, and no literal beyond f64.
Canonical ==
    /\ \A i, j \in {k \in DOMAIN tokens : Declares(k)} :
         (i < j /\ SameFunction(i, j)) =>
            <<Kind(i), tokens[i].name>> # <<Kind(j), tokens[j].name>>
    /\ \A i \in DOMAIN tokens : Kind(i) = "float" => ToSet(tokens[i].name) \cap Huge = {}

Reprint ==
    /\ phase = "accepted" /\ stage = 1
    /\ stage' = 2
    /\ origin' = [module |-> module, canonical |-> Canonical]
    /\ text' = Format(module)
    /\ tokens' = <<>> /\ phase' = "lex" /\ pos' = 1 /\ module' = NoModule
    /\ func' = NewFunction /\ valMap' = NoNames /\ blockMap' = NoNames /\ current' = 0
    /\ UNCHANGED reason

Init ==
    /\ text \in Source
    /\ Fresh
    /\ stage = 1
    /\ origin = [module |-> NoModule, canonical |-> FALSE]

Next ==
    \/ Parse /\ UNCHANGED <<stage, origin>>
    \/ Reprint

Spec == Init /\ [][Next]_allVars

-----------------------------------------------------------------------------
(* The names of a text, read off its tokens                                 *)

Opcode == ShapedOp \cup {"ret", "call", "phi"}

\* The tokens of each function that the text defines, up to token n.
FunctionStarts(n) == {i \in 1..n : Kind(i) = "func" /\ (i = 1 \/ Kind(i - 1) # "extern")}

Extent(start, n) ==
    LET next == {i \in (start + 1)..n : Kind(i) \in {"func", "extern"}}
    IN  start .. (IF next = {} THEN n ELSE Min(next) - 1)

\* Positions in their order.
Sorted(S) == SelectSeq([i \in DOMAIN tokens |-> i], LAMBDA i : i \in S)

Declarations(range, kind) == {i \in range : Declares(i) /\ Kind(i) = kind}

\* Which parameter or instruction of the function token i declares.
DeclaredAs(range, i) ==
    LET params == {j \in Declarations(range, "value") : Kind(j + 3) # "="}
    IN  IF i \in params THEN ParamDef(Cardinality({j \in params : j <= i}))
        ELSE InstDef(Cardinality({j \in range : j <= i + 4 /\ Kind(j) \in Opcode}))

Declared(range, name) ==
    CHOOSE i \in Declarations(range, "value") : tokens[i].name = name

Uses(range) == {i \in range : Kind(i) = "value" /\ ~Declares(i)}

Undeclared(range) ==
    \E i \in Uses(range) : \A j \in Declarations(range, "value") : tokens[j].name # tokens[i].name

\* Where a statement names a block: after jmp, twice in br, once in each pair of
\* a phi.
BlockSlots(range) ==
    LET After(n, kinds) == {i \in range : i - n \in range /\ Kind(i - n) \in kinds}
    IN  After(1, {"jmp"}) \cup After(3, {"br", "["}) \cup After(5, {"br"})

NamesALabel(range, i) ==
    Kind(i) = "ident" /\ \E j \in Declarations(range, "ident") : tokens[j].name = tokens[i].name

\* The operands of a kind that an instruction has, in the order of its text.
OperandsOf(inst, kind) ==
    LET slots == CASE inst.op \in ShapedOp -> SelectSeq(Shape(inst.op), IsOperand)
                   [] inst.op = "ret"      -> [k \in DOMAIN inst.args |-> "value"]
                   [] inst.op = "call"     -> [k \in DOMAIN inst.args |-> IF k = 1 THEN "fname" ELSE "value"]
                   [] inst.op = "phi"      -> [k \in DOMAIN inst.args |-> IF k % 2 = 1 THEN "value" ELSE "block"]
        chosen == SelectSeq([k \in DOMAIN slots |-> k], LAMBDA k : slots[k] = kind)
    IN  [k \in DOMAIN chosen |-> inst.args[chosen[k]]]

AllOperands(fn, kind) == FlattenSeq([i \in DOMAIN fn.insts |-> OperandsOf(fn.insts[i], kind)])

\* The label token above opcode token j.
LabelAbove(range, j) == tokens[Max({i \in range : i < j /\ IsLabel(i)})].name

-----------------------------------------------------------------------------

(***************************************************************************)
(* The tokens are the lexemes of the text: they cover exactly what is      *)
(* neither blank nor comment, in order, each as long as it can be; and     *)
(* where the lexer gives up, no lexeme begins, or an integer too large for *)
(* its type (lexer.rs:168-421).                                            *)
(***************************************************************************)
TokensAreLexemes ==
    (phase # "lex" /\ pos = 1) =>
        LET failed == tokens # <<>> /\ Last(tokens).kind = "error"
            good   == IF failed THEN Front(tokens) ELSE tokens
            rest   == Significant(text) \ Covered(good)
        IN  /\ \A k \in DOMAIN good : Longest(text, good[k])
            /\ \A k \in 2..Len(good) : good[k - 1].to < good[k].from
            /\ Covered(good) \subseteq Significant(text)
            /\ failed = (rest # {})
            /\ failed => /\ Last(tokens).from = Min(rest)
                         /\ NoLexeme(text, Min(rest)) \/ TooLarge(text, Last(tokens))

(***************************************************************************)
(* Every operand of an accepted function is the value, or the block, that  *)
(* its text declares under that name, wherever in the function the         *)
(* declaration stands; no placeholder survives; and each instruction is in *)
(* the block of the label above it (parser.rs:212-252, 286-356).           *)
(***************************************************************************)
NamesResolve ==
    (phase = "accepted" /\ Canonical) =>
        LET starts == Sorted(FunctionStarts(Len(tokens)))
        IN  /\ Len(module.functions) = Len(starts)
            /\ \A n \in DOMAIN starts :
                 LET fn == module.functions[n]
                     range == Extent(starts[n], Len(tokens))
                     read == AllOperands(fn, "value")
                     uses == Sorted(Uses(range))
                     blocks == AllOperands(fn, "block")
                     slots == Sorted(BlockSlots(range))
                     ops == Sorted({j \in range : Kind(j) \in Opcode})
                 IN  /\ Len(read) = Len(uses)
                     /\ \A k \in DOMAIN read :
                          LET name == tokens[uses[k]].name
                          IN  /\ read[k] \in DOMAIN fn.values
                              /\ fn.values[read[k]].name = name
                              /\ fn.values[read[k]].def = DeclaredAs(range, Declared(range, name))
                     /\ Len(blocks) = Len(slots)
                     /\ \A k \in DOMAIN blocks :
                          /\ blocks[k] \in DOMAIN fn.blocks
                          /\ fn.blocks[blocks[k]].name = tokens[slots[k]].name
                     /\ \A b \in DOMAIN fn.blocks : \A i \in ToSet(fn.blocks[b].insts) :
                          fn.blocks[b].name = LabelAbove(range, ops[i])

(***************************************************************************)
(* A text is rejected for a name only when its function does not declare   *)
(* it, and with a name its function does not declare it is never accepted: *)
(* a use before the declaration is no error, of a value or of a label, and *)
(* a declaration in another function never helps.  For a block it is the   *)
(* statement the parser stands at that names it, in a place where a block  *)
(* is named (parser.rs:230-252, 286-306, 358-367).                         *)
(***************************************************************************)
OnlyUndeclaredNamesFail ==
    LET start == Max(FunctionStarts(pos) \cup {0})
        range == Extent(start, Len(tokens))
        opcode == IF Kind(pos) = "value" THEN pos + 4 ELSE pos
    IN  /\ reason = "undefined value" => Undeclared(range)
        /\ reason = "unknown block" =>
             \E i \in BlockSlots(range) :
                /\ i > opcode /\ \A j \in (opcode + 1)..(i - 1) : Kind(j) \notin Opcode
                /\ ~NamesALabel(range, i)
        /\ phase = "accepted" =>
             \A s \in FunctionStarts(Len(tokens)) :
                LET whole == Extent(s, Len(tokens))
                IN  ~Undeclared(whole) /\ \A i \in BlockSlots(whole) : NamesALabel(whole, i)

(***************************************************************************)
(* What the printer prints parses to the module it was printed from: the   *)
(* same values, instructions and blocks in the same places of the arenas   *)
(* (README "lossless canonical round-trip parser and printer";             *)
(* ir_tests.rs:13-19).  Canonical leaves out what it fails for.            *)
(***************************************************************************)
RoundTrip ==
    (stage = 2 /\ origin.canonical) =>
        /\ phase # "rejected"
        /\ phase = "accepted" => module = origin.module

(***************************************************************************)
(* No loop hangs: a turn of either loop takes a token or ends its loop,    *)
(* and only a token opens the inner one again.  As a text has finitely     *)
(* many tokens, every text is accepted or rejected (parser.rs:168-184,     *)
(* 309-356).                                                               *)
(***************************************************************************)
EveryTurnAdvances ==
    [][(phase \in {"module", "body"} /\ stage' = stage) =>
         \/ pos' > pos
         \/ phase = "body" /\ phase' # "body"
         \/ phase' \in {"accepted", "rejected"}]_allVars
=============================================================================
