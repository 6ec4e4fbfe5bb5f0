------------------------------ MODULE MCCodegen ------------------------------
(***************************************************************************)
(* Functions to compile and run: each exercises one part of the lowering   *)
(* on a machine with three caller-saved registers, two of which also carry *)
(* arguments, and one callee-saved register.                               *)
(***************************************************************************)
EXTENDS Codegen

MCCallerPool == <<"t3", "a0", "a1">>
MCCalleePool == <<"s1">>
MCArgRegs    == <<"a0", "a1">>

Fn(params, body) == [params |-> params, body |-> body, unlisted |-> {}]

\* A loop whose phis exchange, or repeat, or rotate their values.
Loops ==
    {Fn(<<"p", "q">>,
        << <<Jmp(2)>>,
           <<Phi("x", <<1, 3>>, <<"p", xin>>), Phi("y", <<1, 3>>, <<"q", yin>>),
             Op("cmp", "c", <<"x", "y">>), Br("c", 3, 4)>>,
           <<Op(op, "z", <<"x", "y">>), Jmp(2)>>,
           <<Op("add", "s", <<"x", k>>), Ret("s")>> >>) :
        xin \in {"x", "y", "z"}, yin \in {"x", "z", "p"}, op \in {"add", "call"}, k \in {"q", "y"}}

\* A phi fed by a critical edge, with an operand that stays live; DCE has taken
\* an instruction away.
Diamonds ==
    {[Fn(<<"p", "q">>,
        << <<Op("cmp", "c", <<"p", "q">>), Br("c", 2, 3)>>,
           <<Op("not", "x", <<a>>), Jmp(3)>>,
           <<Phi("z", <<1, 2>>, <<b, "x">>), Op("add", "s", <<"z", d>>), Ret("s")>> >>)
      EXCEPT !.unlisted = {"u"}] :
        a \in {"p", "q"}, b \in {"p", "q", "c"}, d \in {"p", "c"}}

\* Values live across calls, in more registers than survive a call.
Calls ==
    {Fn(<<"p", "q">>,
        << <<Op(op, "v1", <<"p", "q">>), Op("call", "v2", <<"v1", a>>),
             Op(op, "v3", <<b, "v2">>), Op("add", "v4", <<"v3", d>>), Ret("v4")>> >>) :
        op \in {"add", "call"}, a \in {"p", "q"}, b \in {"p", "q", "v1"}, d \in {"p", "v1", "v2"}}

\* Six values live at once, four registers.
Pressure ==
    {Fn(<<"p">>,
        << <<Op("const", "k1", <<>>), Op("const", "k2", <<>>), Op("const", "k3", <<>>),
             Op("add", "k4", <<"k1", "p">>), Op("not", "k5", <<"k2">>),
             Op("add", "s1", <<first, "k1">>), Op("add", "s2", <<"s1", "k2">>),
             Op("add", "s3", <<"s2", second>>), Op("add", "s4", <<"s3", "k4">>), Ret("s4")>> >>) :
        first \in {"p", "k5"}, second \in {"k3", "k5"}}

\* Parameters and arguments beyond the argument registers.
Stack ==
    {Fn(<<"p", "q", "r">>,
        << <<Op("call", "x", <<a, b, "q">>), Op("add", "y", <<"x", "p">>),
             Op("add", "z", <<"y", "r">>), Ret("z")>> >>) : a, b \in {"p", "q", "r"}}

\* Buffers on the stack, written and read around a call.
Buffers ==
    {Fn(<<"p", "q">>,
        << <<Op("alloca", "m1", <<>>), Op("alloca", "m2", <<>>),
             Op("store", NoValue, <<"p", "m1">>), Op("store", NoValue, <<"q", a>>),
             Op("call", "x", <<"p", a>>), Op("load", "l", <<"m2">>),
             Op("add", "y", <<"l", "x">>), Op("load", "n", <<"m1">>),
             Op("store", NoValue, <<"n", "m2">>), Ret("y")>> >>) : a \in {"m1", "m2"}}

\* One way returns a value that had to survive the call, the other nothing.
Voids ==
    {Fn(<<"p", "q">>,
        << <<Op("cmp", "c", <<"p", "q">>), Br("c", 2, 3)>>,
           <<Op("call", "x", <<a>>), Op("store", NoValue, <<"p", "x">>), Op("ret", NoValue, r)>>,
           <<Op("store", NoValue, <<"q", "p">>), Op("ret", NoValue, <<>>)>> >>) :
        a \in {"p", "q"}, r \in {<<>>, <<"p">>, <<"q">>}}

Functions == Loops \cup Diamonds \cup Calls \cup Pressure \cup Stack \cup Buffers \cup Voids

\* The functions the theorem about OperandsInPlace is for.
ASSUME FunctionsAreStrict == \A f \in Functions : Strict(f)

\* A parameter nobody reads.
UnusedParam == {Fn(<<"p", "q">>, << <<Ret("p")>> >>)}

\* Two operands spilled, the second one's slot out of reach.
FarOperands ==
    {Fn(<<>>,
        << <<Op("const", "k1", <<>>), Op("const", "k2", <<>>), Op("const", "k3", <<>>),
             Op("const", "k4", <<>>), Op("const", "k5", <<>>), Op("const", "k6", <<>>),
             Op("add", "s1", <<"k1", "k2">>), Op("add", "s2", <<"s1", "k3">>),
             Op("add", "s3", <<"s2", "k4">>), Op("add", "s4", <<"k5", "k6">>),
             Op("add", "s5", <<"s3", "s4">>), Ret("s5")>> >>)}

\* A call with stack arguments in a function with a buffer; the word that
\* rounds the frame up to 16 bytes hides it for one of the two.
StackArgAndBuffer ==
    {Fn(<<"p">>, << <<Op("alloca", "m", <<>>), Op("store", NoValue, <<"p", "m">>),
                      Op("call", "x", args), Op("load", "l", <<"m">>),
                      Op("add", "y", <<"l", "x">>), Ret("y")>> >>) :
        args \in {<<"p", "m", "p">>, <<"p", "m", "p", "p">>}}
=============================================================================
