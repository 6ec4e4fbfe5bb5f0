--------------------------------- MODULE IR ---------------------------------
(***************************************************************************)
(* A function of the IR (ir/src/function.rs, ir/src/inst.rs) as register   *)
(* allocation and instruction selection see it.                            *)
(*                                                                         *)
(* A function is a record                                                  *)
(*   params    the values of its parameters, in order                      *)
(*   body      its blocks in arena order, the entry block first; a block   *)
(*             is the sequence of its instructions                         *)
(*   unlisted  values whose instruction DCE took out of the blocks: they   *)
(*             stay in func.values                                         *)
(* and an instruction a record                                             *)
(*   op        which Instruction                                           *)
(*   res       the value it defines, or NoValue                            *)
(*   args      the values it reads, in order                               *)
(*   to        the blocks it jumps to: (true, false) for br                *)
(*   from      for a phi, the predecessor each of args comes from          *)
(***************************************************************************)
EXTENDS Integers, Loops, SequencesExt

NoValue == "no value"

Op(op, res, args) == [op |-> op, res |-> res, args |-> args, to |-> <<>>, from |-> <<>>]
Phi(res, from, args) == [op |-> "phi", res |-> res, args |-> args, to |-> <<>>, from |-> from]
Jmp(b)        == [op |-> "jmp", res |-> NoValue, args |-> <<>>, to |-> <<b>>, from |-> <<>>]
Br(c, yes, no) == [op |-> "br", res |-> NoValue, args |-> <<c>>, to |-> <<yes, no>>, from |-> <<>>]
Ret(v)        == [op |-> "ret", res |-> NoValue, args |-> <<v>>, to |-> <<>>, from |-> <<>>]

Block(fn) == DOMAIN fn.body

\* successors_of: only the last instruction is asked.
Successors(fn, b) == IF fn.body[b] = <<>> THEN {} ELSE ToSet(Last(fn.body[b]).to)

Phis(fn, b) == Keep(fn.body[b], {i \in ToSet(fn.body[b]) : i.op = "phi"})

\* The operand a phi takes when control comes from p: the first incoming one.
Incoming(phi, p) == phi.args[SelectInSeq(phi.from, LAMBDA b : b = p)]
ComesFrom(phi, p) == p \in ToSet(phi.from)

-----------------------------------------------------------------------------
(* Instruction indices: 0 is the entry, then the instructions in order.     *)

FirstIndex(fn, b) ==
    LET first[c \in Block(fn)] == IF c = 1 THEN 1 ELSE first[c - 1] + Len(fn.body[c - 1])
    IN  first[b]

LastIndex(fn, b) ==
    IF fn.body[b] = <<>> THEN FirstIndex(fn, b) ELSE FirstIndex(fn, b) + Len(fn.body[b]) - 1

MaxIndexOf(fn) == LastIndex(fn, Len(fn.body))

\* Every instruction of fn with its block and its index.
Insts(fn) ==
    UNION {{[idx |-> FirstIndex(fn, b) + i - 1, block |-> b, inst |-> fn.body[b][i]] :
                i \in DOMAIN fn.body[b]} : b \in Block(fn)}

Listed(fn) == {x.inst.res : x \in Insts(fn)} \ {NoValue}
Values(fn) == ToSet(fn.params) \cup Listed(fn) \cup fn.unlisted

CallIndices(fn) == {x.idx : x \in {y \in Insts(fn) : y.inst.op = "call"}}

-----------------------------------------------------------------------------
(* What the blocks define and read, and the live intervals that follow      *)

Def(fn, b) == {fn.body[b][i].res : i \in DOMAIN fn.body[b]} \ {NoValue}

\* Read before any definition in the block; phis read on their edges instead.
Exposed(fn, b) ==
    {v \in Values(fn) : \E i \in DOMAIN fn.body[b] :
        /\ fn.body[b][i].op # "phi"
        /\ v \in ToSet(fn.body[b][i].args)
        /\ \A j \in 1..(i - 1) : fn.body[b][j].res # v}

PhiOperands(fn, p) ==
    {v \in Values(fn) : \E x \in Insts(fn) : /\ x.inst.op = "phi"
                                             /\ \E k \in DOMAIN x.inst.args :
                                                  x.inst.from[k] = p /\ x.inst.args[k] = v}

\* Mutant: phi operands are not counted as read by the predecessor.
Use_NoPhis(fn, b) == Exposed(fn, b)

Use(fn, b) == Exposed(fn, b) \cup (PhiOperands(fn, b) \ Def(fn, b))

\* Parameters, and values no block lists, are defined at 0.
DefIndex(fn, v) ==
    IF v \in Listed(fn) THEN (CHOOSE x \in Insts(fn) : x.inst.res = v).idx ELSE 0

\* A phi reads at the end of the predecessor.
UseIndices(fn, v) ==
    {x.idx : x \in {y \in Insts(fn) : y.inst.op # "phi" /\ v \in ToSet(y.inst.args)}}
      \cup {LastIndex(fn, p) : p \in {q \in Block(fn) : v \in PhiOperands(fn, q)}}

IntervalStart(fn, liveIn, v) ==
    Min({DefIndex(fn, v)} \cup {FirstIndex(fn, b) : b \in {c \in Block(fn) : v \in liveIn[c]}})

\* Mutant: what is live out of a block does not extend the interval.
IntervalEnd_NoLiveOut(fn, liveIn, liveOut, v) ==
    Max({DefIndex(fn, v)} \cup UseIndices(fn, v)
          \cup {FirstIndex(fn, b) : b \in {c \in Block(fn) : v \in liveIn[c]}})

IntervalEnd(fn, liveIn, liveOut, v) ==
    Max({DefIndex(fn, v)} \cup UseIndices(fn, v)
          \cup {FirstIndex(fn, b) : b \in {c \in Block(fn) : v \in liveIn[c]}}
          \cup {LastIndex(fn, b) : b \in {c \in Block(fn) : v \in liveOut[c]}})

-----------------------------------------------------------------------------
(* What the dataflow equations stand for, on paths of single instructions   *)

\* Control goes from one instruction to the next, or along a block edge.
Flow(fn) ==
    {<<x.idx, x.idx + 1>> : x \in {y \in Insts(fn) : y.idx # LastIndex(fn, y.block)}}
      \cup UNION {{<<LastIndex(fn, b), FirstIndex(fn, s)>> : s \in Successors(fn, b)} : b \in Block(fn)}

\* The flow that does not go through a definition of v.
FlowPast(fn, v) ==
    LET defs == {x.idx : x \in {y \in Insts(fn) : y.inst.res = v}}
    IN  {e \in Flow(fn) : e[1] \notin defs}

\* The indices v is live before: from there some path reads it, and nothing on
\* the way defines it.  A path need not be longer than there are indices.
LivePoints(fn, v) ==
    LET flow == FlowPast(fn, v)
        Back(points) == points \cup {e[1] : e \in {d \in flow : d[2] \in points}}
        live[n \in 0..MaxIndexOf(fn)] == IF n = 0 THEN UseIndices(fn, v) ELSE Back(live[n - 1])
    IN  live[MaxIndexOf(fn)]

\* Where control may go after index i.
After(fn, i) == {e[2] : e \in {d \in Flow(fn) : d[1] = i}}
=============================================================================
