----------------------------- MODULE MCFrontEnd -----------------------------
(* Every short text of single glyphs, and functions of every few lines.     *)
EXTENDS FrontEnd

Keywords == Opcode \cup {"func", "extern"}
Letters  == Keywords \cup {"a", "b", "f", "g", "x", "y", "z", "i32", "void", "eq"}
Digits   == {"0", "7", "9big"}

\* Every kind of glyph the lexer tells apart.
Glyph == {"a", "add", "7", "9big", ".", "-", ">", "%", " ", Newline, ";", "/", ":", "?"}

Short == UNION {[1..n -> Glyph] : n \in 0..3}

Val(n)   == <<"%", n>>
Line(s)  == s \o <<Newline>>
Result(n, s) == Line(Val(n) \o <<":", "i32", "=">> \o s)

Label(n) == Line(<<n, ":">>)
Lines ==
    { Label("a"), Label("b"),
      Result("y", <<"const.int", " ", "-", "7">>),
      Result("x", <<"add", " ">> \o Val("x") \o <<",">> \o Val("y")),
      Result("z", <<"phi", "[">> \o Val("y") \o <<",", "a", "]", ",", "[">> \o Val("z") \o <<",", "b", "]">>),
      Result("y", <<"call", "@", "f", "(">> \o Val("z") \o <<",">> \o Val("x") \o <<")">>),
      Line(<<"store", " ">> \o Val("z") \o <<",">> \o Val("x") \o <<",", "7">>),
      Line(<<"jmp", " ", "b">>),
      Line(<<"br", " ">> \o Val("y") \o <<",", "a", ",", "b">>),
      Line(<<"ret", " ">> \o Val("y")),
      Line(<<"ret">>) }

\* A parameter list is [empty, one, a repeated one, with a comma at its end].
Param(n) == <<"%", n, ":", "i32">>
ParamLists == {<<>>, Param("x"), Param("y") \o <<",">> \o Param("z"), Param("x") \o <<",">> \o Param("x") \o <<",">>}

Header(params) == <<"func", " ", "@", "f", "(">> \o params \o <<")", "-", ">", "i32", "{", Newline>>
Function(params, body) == Header(params) \o FlattenSeq(body) \o <<"}">>

Bodies == {<<l>> \o s : l \in {Label("a")}, s \in UNION {[1..n -> Lines] : n \in 0..3}}

Functions == {Function(params, body) : params \in ParamLists, body \in Bodies}

\* Two functions of one name, the second with and without what it reads.
Pairs ==
    {Function(Param("x"), <<Label("a"), l>>) \o <<Newline>> \o Function(params, <<Label("b"), m, n>>) :
        params \in ParamLists, l \in Lines, m \in Lines, n \in Lines}

\* Each instruction once, and numbers in all their forms.
Numbers == {<<"7">>, <<"-", "7">>, <<"0", "7">>, <<"-", "0">>, <<"7", ".">>, <<"7", ".", "0">>,
            <<"-", "0", ".", "7">>, <<"7", ".", "7", "0">>, <<"9big">>, <<"9big", ".">>,
            <<"-", "9big", ".", "7">>}

OneLine(s) == Function(Param("x") \o <<",">> \o Param("y"), <<Label("a"), Result("z", s)>>)

Instructions ==
    {OneLine(<<op, " ">> \o n) : op \in {"const.int", "const.float"}, n \in Numbers}
      \cup {OneLine(<<op, " ", "%", "x", ",", "%", v>>) : op \in Binary, v \in {"x", "y", "g"}}
      \cup {OneLine(<<op, " ", "%", "y">>) : op \in {"neg", "not", "ret"}}
      \cup {OneLine(<<"cmp", " ", c, "%", "x", ",", "%", "y">>) : c \in {"eq", "f"}}
      \cup {OneLine(<<"alloca", " ", t>>) : t \in {"i32", "x"}}
      \cup {OneLine(<<"load", " ", "i32", ",", "%", "y", ",">> \o n) : n \in Numbers}
      \cup {OneLine(<<"phi">>), OneLine(<<"phi", "[", "%", "x", ",", "a", "]", ",">>),
            OneLine(<<"jmp", " ", "add">>), OneLine(<<"jmp">>), OneLine(<<"call", "@", "g", "(", ")">>)}

Extern(params) == <<"extern", " ", "func", "@", "g", "(">> \o params \o <<")", "-", ">", "void", Newline>>

Externs ==
    {Extern(p) \o q : p \in {<<>>, <<"i32">>, <<"i32", ",", "void">>, <<"i32", ",">>, <<"x">>},
                      q \in {<<>>, <<"?">>, Function(<<>>, <<Label("a"), Line(<<"ret">>)>>)}}
      \cup {Function(<<>>, <<Label("a")>>) \o Extern(<<>>), Header(<<>>) \o Label("a"), Header(<<>>)}

Texts == Short \cup Functions \cup Pairs \cup Instructions \cup Externs
=============================================================================
