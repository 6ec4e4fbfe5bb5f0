------------------------------ MODULE Liveness ------------------------------
(***************************************************************************)
(* The liveness analysis and the live intervals of                         *)
(* backend/src/riscv/regalloc.rs (lines 92-215), as the loop the code runs:*)
(* it visits the blocks from last to first, updates the sets in place, and *)
(* starts over until a whole pass changes nothing.                         *)
(***************************************************************************)
EXTENDS IR

CONSTANT Program   \* the functions the analysis is run on

\* A function is a sequence of blocks and its terminators name blocks of it.
ASSUME ProgramAssumption ==
    \A f \in Program : /\ f.body \in Seq(ToSet(f.body)) /\ f.params \in Seq(ToSet(f.params))
                       /\ \A b \in Block(f) : Successors(f, b) \subseteq Block(f)

\* There is an entry block.  Each block has phis first and a terminator last.
ASSUME BlockAssumption ==
    \A f \in Program :
        /\ f.body # <<>>
        /\ \A b \in Block(f) :
              /\ f.body[b] \in Seq(ToSet(f.body[b])) \ {<<>>}
              /\ Last(f.body[b]).op # "phi" /\ Last(f.body[b]).res = NoValue
              /\ \A i, j \in DOMAIN f.body[b] :
                    i < j /\ f.body[b][j].op = "phi" => f.body[b][i].op = "phi"

\* Static single assignment: a value is a parameter or the result of one
\* instruction, and one that is read at all is read on a path from there.
ASSUME SsaAssumption ==
    \A f \in Program :
        /\ NoValue \notin Values(f) /\ UseIndices(f, NoValue) = {}
        /\ ToSet(f.params) \cap Listed(f) = {}
        /\ \A x, y \in Insts(f) : x.inst.res = y.inst.res /\ x.inst.res # NoValue => x = y
        /\ \A v \in Listed(f) :
              UseIndices(f, v) # {} => After(f, DefIndex(f, v)) \cap LivePoints(f, v) # {}

VARIABLES
    fn,               \* the function
    liveIn, liveOut,  \* live_in and live_out, empty where the code has no entry
    at,               \* the block the pass visits next, 0 at its end
    changed,          \* whether this pass has changed a set
    done              \* the while loop has ended

vars == <<fn, liveIn, liveOut, at, changed, done>>

NewOut(b) == UNION {liveIn[s] : s \in Successors(fn, b)}

\* Mutant: the set is replaced by what is new in it.
NewIn_Delta(b) == Use(fn, b) \cup (NewOut(b) \ (Def(fn, b) \cup liveIn[b]))

NewIn(b) == Use(fn, b) \cup (NewOut(b) \ Def(fn, b))

VisitBlock ==
    /\ ~done /\ at > 0
    /\ liveOut' = [liveOut EXCEPT ![at] = NewOut(at)]
    /\ liveIn' = [liveIn EXCEPT ![at] = NewIn(at)]
    /\ changed' = (changed \/ NewOut(at) # liveOut[at] \/ NewIn(at) # liveIn[at])
    /\ at' = at - 1
    /\ UNCHANGED <<fn, done>>

\* Mutant: the flag is not cleared before a pass.
EndPass_Sticky ==
    /\ ~done /\ at = 0
    /\ IF changed THEN at' = Len(fn.body) /\ UNCHANGED <<changed, done>>
                  ELSE done' = TRUE /\ UNCHANGED <<at, changed>>
    /\ UNCHANGED <<fn, liveIn, liveOut>>

EndPass ==
    /\ ~done /\ at = 0
    /\ IF changed THEN at' = Len(fn.body) /\ changed' = FALSE /\ UNCHANGED done
                  ELSE done' = TRUE /\ UNCHANGED <<at, changed>>
    /\ UNCHANGED <<fn, liveIn, liveOut>>

Init ==
    /\ fn \in Program
    /\ liveIn = [b \in Block(fn) |-> {}]
    /\ liveOut = [b \in Block(fn) |-> {}]
    /\ at = Len(fn.body)
    /\ changed = FALSE
    /\ done = FALSE

Next == VisitBlock \/ EndPass

Spec == Init /\ [][Next]_vars

\* A loop on one thread.
FairSpec == Spec /\ WF_vars(Next)

-----------------------------------------------------------------------------

Start(v) == IntervalStart(fn, liveIn, v)
End(v)   == IntervalEnd(fn, liveIn, liveOut, v)

\* The reference: for every value the indices some path reads it from.
LiveMap == [v \in Values(fn) |-> LivePoints(fn, v)]

(***************************************************************************)
(* When the loop stops, a value is in live_in of a block exactly when some *)
(* path from the top of the block reads it before it is defined, a phi     *)
(* operand being read on the edge it comes from (regalloc.rs:138-169).     *)
(***************************************************************************)
FixpointIsLiveness ==
    done => LET live == LiveMap
            IN  \A b \in Block(fn) : liveIn[b] = {v \in Values(fn) : FirstIndex(fn, b) \in live[v]}

\* The result is read somewhere.
Read(v) == UseIndices(fn, v) # {}

\* The values some of points is live for.
LiveAt(live, points) == {w \in Values(fn) : points \cap live[w] # {}}

\* u is written by its own instruction, and w read behind it.
ByInst(live) ==
    UNION {{x.inst.res} \X LiveAt(live, After(fn, x.idx)) :
              x \in {y \in Insts(fn) : y.inst.res # NoValue /\ y.inst.op # "phi"}}

\* u is written on an edge into the block whose phi it is, and w read behind the phis.
Resume(b) == Min({x.idx : x \in {y \in Insts(fn) : y.block = b /\ y.inst.op # "phi"}})
PhiResults(b) == {x.inst.res : x \in {y \in Insts(fn) : y.block = b /\ y.inst.op = "phi"}}
ByPhis(live) == UNION {PhiResults(b) \X LiveAt(live, {Resume(b)}) : b \in Block(fn)}

\* u is a parameter, w one before it: the entry copies them in order.
ByCopy(live) ==
    {c \in Values(fn) \X LiveAt(live, {1}) :
        \E i \in DOMAIN fn.params : \E j \in 1..(i - 1) : c = <<fn.params[i], fn.params[j]>>}

\* The pairs <<u, w>> where u is written at a point from which w is still read.
Clobbers ==
    LET live == LiveMap
    IN  {c \in ByInst(live) \cup ByPhis(live) \cup ByCopy(live) : c[1] # c[2]}

Overlap(u, w) == End(u) > Start(w) /\ End(w) > Start(u)

(***************************************************************************)
(* Values that may not share a register have intervals linear scan keeps   *)
(* apart, in every control flow graph and whatever the order of the blocks *)
(* (regalloc.rs:171-215; select.rs:192-208, 256-277).  Both are read       *)
(* somewhere: what a value nobody reads can do is in Codegen.              *)
(***************************************************************************)
ClobberIsOverlap ==
    done => \A c \in Clobbers : Read(c[1]) => Overlap(c[1], c[2])

(***************************************************************************)
(* The sets only grow, so no pass undoes what an earlier one found: what   *)
(* in-place updates in reverse block order rely on (regalloc.rs:143-168).  *)
(***************************************************************************)
SetsOnlyGrow ==
    [][\A b \in Block(fn) : liveIn[b] \subseteq liveIn'[b] /\ liveOut[b] \subseteq liveOut'[b]]_vars

(***************************************************************************)
(* The loop ends on every control flow graph, loops included.              *)
(***************************************************************************)
Terminates == <>done
=============================================================================
