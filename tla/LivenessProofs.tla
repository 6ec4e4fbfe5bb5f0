--------------------------- MODULE LivenessProofs ---------------------------
(***************************************************************************)
(* Proofs about Liveness, for every control flow graph.  What the loop of  *)
(* regalloc.rs:138-169 computes in place is, when it stops, exactly what   *)
(* some path through the blocks still reads.  In static single assignment  *)
(* form, an interval (regalloc.rs:172-215) covers every index its value is *)
(* live before, so that values which may not share a register overlap.     *)
(***************************************************************************)
EXTENDS Liveness, IRProofs

-----------------------------------------------------------------------------
(* The inductive invariant                                                  *)

Shapes ==
    /\ fn \in Program
    /\ DOMAIN liveIn = Block(fn)
    /\ DOMAIN liveOut = Block(fn)
    /\ at \in 0..Len(fn.body)
    /\ changed \in BOOLEAN
    /\ done \in BOOLEAN

\* Every set is still below what its equation asks for.
Below == \A b \in Block(fn) : liveIn[b] \subseteq NewIn(b) /\ liveOut[b] \subseteq NewOut(b)

Settled(b) == liveIn[b] = NewIn(b) /\ liveOut[b] = NewOut(b)

\* A pass that has changed nothing so far leaves settled blocks behind it.
Behind == ~changed => \A b \in Block(fn) : b > at => Settled(b)

Stopped == done => ~changed /\ at = 0

\* X gives every block what its uses and its successors ask for.
Closed(X) ==
    \A b \in Block(fn) :
        Use(fn, b) \cup ((UNION {X[s] : s \in Successors(fn, b)}) \ Def(fn, b)) \subseteq X[b]

\* No solution is smaller than what the loop has.
Least == \A X : Closed(X) => \A b \in Block(fn) : liveIn[b] \subseteq X[b]

IInv == Shapes /\ Below /\ Behind /\ Stopped /\ Least

-----------------------------------------------------------------------------
(* The steps                                                                *)

(***************************************************************************)
(* The blocks of a function are numbered, and control stays in them.       *)
(***************************************************************************)
LEMMA Blocks ==
    Shapes => /\ Len(fn.body) \in Nat
              /\ Block(fn) = 1..Len(fn.body)
              /\ \A b \in Block(fn) : Successors(fn, b) \subseteq Block(fn)
  BY ProgramAssumption DEF Shapes, Block

(***************************************************************************)
(* Larger sets ask for larger sets.                                        *)
(***************************************************************************)
LEMMA Monotone ==
    ASSUME Shapes, UNCHANGED fn, \A b \in Block(fn) : liveIn[b] \subseteq liveIn'[b]
    PROVE  \A b \in Block(fn) : NewOut(b) \subseteq NewOut(b)' /\ NewIn(b) \subseteq NewIn(b)'
<1>. SUFFICES ASSUME NEW b \in Block(fn)
              PROVE  NewOut(b) \subseteq NewOut(b)' /\ NewIn(b) \subseteq NewIn(b)'
  OBVIOUS
<1>1. NewOut(b) \subseteq NewOut(b)'
  BY Blocks DEF NewOut
<1>. QED BY <1>1 DEF NewIn

(***************************************************************************)
(* A visit replaces the sets of one block by larger ones.                  *)
(***************************************************************************)
LEMMA VisitGrows ==
    ASSUME Shapes, Below, VisitBlock
    PROVE  /\ at \in Block(fn)
           /\ DOMAIN liveIn' = Block(fn) /\ DOMAIN liveOut' = Block(fn)
           /\ liveIn'[at] = NewIn(at) /\ liveOut'[at] = NewOut(at)
           /\ \A b \in Block(fn) : b # at => liveIn'[b] = liveIn[b] /\ liveOut'[b] = liveOut[b]
           /\ \A b \in Block(fn) : liveIn[b] \subseteq liveIn'[b] /\ liveOut[b] \subseteq liveOut'[b]
<1>1. at \in Block(fn)
  BY Blocks DEF Shapes, VisitBlock
<1>. QED BY <1>1 DEF Shapes, Below, VisitBlock

(***************************************************************************)
(* The loop starts with empty sets.                                        *)
(***************************************************************************)
LEMMA InitIInv == Init => IInv
<1>. SUFFICES ASSUME Init PROVE IInv
  OBVIOUS
<1>1. Shapes
  <2>1. fn \in Program /\ Len(fn.body) \in Nat
    BY ProgramAssumption DEF Init
  <2>2. at \in 0..Len(fn.body)
    BY <2>1 DEF Init
  <2>3. DOMAIN liveIn = Block(fn) /\ DOMAIN liveOut = Block(fn) /\ changed = FALSE /\ done = FALSE
    BY DEF Init
  <2>. QED BY <2>1, <2>2, <2>3 DEF Shapes
<1>2. Below /\ Least
  BY DEF Init, Below, Least
<1>3. Behind
  BY <1>1, Blocks DEF Init, Behind
<1>4. Stopped
  BY DEF Init, Stopped
<1>. QED BY <1>1, <1>2, <1>3, <1>4 DEF IInv

(***************************************************************************)
(* Visiting a block keeps the invariant.                                   *)
(***************************************************************************)
LEMMA VisitKeeps == ASSUME IInv, VisitBlock PROVE IInv'
<1>1. /\ Shapes /\ Below /\ at \in Block(fn) /\ ~done /\ UNCHANGED <<fn, done>> /\ at' = at - 1
      /\ changed' = (changed \/ NewOut(at) # liveOut[at] \/ NewIn(at) # liveIn[at])
  BY VisitGrows DEF IInv, VisitBlock
<1>2. Shapes'
  BY <1>1, VisitGrows, Blocks DEF Shapes
<1>3. Below'
  <2>. SUFFICES ASSUME NEW b \in Block(fn)
                PROVE  liveIn'[b] \subseteq NewIn(b)' /\ liveOut'[b] \subseteq NewOut(b)'
    BY <1>1 DEF Below
  <2>1. NewOut(b) \subseteq NewOut(b)' /\ NewIn(b) \subseteq NewIn(b)'
    BY <1>1, VisitGrows, Monotone
  <2>2. liveIn'[b] \subseteq NewIn(b) /\ liveOut'[b] \subseteq NewOut(b)
    BY <1>1, VisitGrows DEF Below
  <2>. QED BY <2>1, <2>2
<1>4. Behind'
  <2>. SUFFICES ASSUME ~changed', NEW b \in Block(fn), b > at'
                PROVE  Settled(b)'
    BY <1>1 DEF Behind
  <2>1. ~changed /\ NewOut(at) = liveOut[at] /\ NewIn(at) = liveIn[at]
    BY <1>1
  <2>2. \A c \in Block(fn) : liveIn'[c] = liveIn[c] /\ liveOut'[c] = liveOut[c]
    BY <1>1, <2>1, VisitGrows
  <2>3. NewOut(b)' = NewOut(b) /\ NewIn(b)' = NewIn(b)
    BY <1>1, <2>2, Blocks DEF NewOut, NewIn
  <2>4. Settled(b)
    <3>1. b = at \/ b > at
      BY <1>1, Blocks
    <3>. QED BY <2>1, <3>1 DEF IInv, Behind, Settled
  <2>. QED BY <2>2, <2>3, <2>4 DEF Settled
<1>5. Stopped'
  BY <1>1 DEF Stopped
<1>6. Least'
  <2>. SUFFICES ASSUME NEW X, Closed(X), NEW b \in Block(fn)
                PROVE  liveIn'[b] \subseteq X[b]
    BY <1>1 DEF Least, Closed
  <2>1. \A c \in Block(fn) : liveIn[c] \subseteq X[c]
    BY DEF IInv, Least
  <2>2. CASE b = at
    <3>1. NewOut(b) \subseteq UNION {X[s] : s \in Successors(fn, b)}
      BY <1>1, <2>1, Blocks DEF NewOut
    <3>2. NewIn(b) \subseteq X[b]
      BY <3>1 DEF NewIn, Closed
    <3>. QED BY <1>1, <2>2, <3>2, VisitGrows
  <2>3. CASE b # at
    BY <1>1, <2>1, <2>3, VisitGrows
  <2>. QED BY <2>2, <2>3
<1>. QED BY <1>2, <1>3, <1>4, <1>5, <1>6 DEF IInv

(***************************************************************************)
(* Every step keeps the invariant.                                         *)
(***************************************************************************)
LEMMA StepIInv == IInv /\ [Next]_vars => IInv'
<1>. SUFFICES ASSUME IInv, [Next]_vars PROVE IInv'
  OBVIOUS
<1>1. CASE VisitBlock
  BY <1>1, VisitKeeps
<1>2. CASE EndPass
  <2>1. /\ ~done /\ at = 0 /\ UNCHANGED <<fn, liveIn, liveOut>>
        /\ \/ changed /\ at' = Len(fn.body) /\ changed' = FALSE /\ done' = done
           \/ ~changed /\ done' = TRUE /\ at' = at /\ changed' = changed
    BY <1>2 DEF EndPass
  <2>2. Shapes'
    <3>1. Shapes /\ Len(fn.body) \in Nat
      BY Blocks DEF IInv
    <3>2. at' \in 0..Len(fn.body)
      <4>1. CASE changed
        BY <2>1, <3>1, <4>1
      <4>2. CASE ~changed
        BY <2>1, <3>1, <4>2 DEF Shapes
      <4>. QED BY <4>1, <4>2
    <3>4. changed' \in BOOLEAN
      BY <2>1, <3>1 DEF Shapes
    <3>3. done' \in BOOLEAN
      BY <2>1, <3>1 DEF Shapes
    <3>. QED BY <2>1, <3>1, <3>2, <3>3, <3>4 DEF Shapes
  <2>3. Below' /\ Least'
    BY <2>1 DEF IInv, Below, Least, Closed, NewIn, NewOut
  <2>4. Behind'
    BY <2>1, Blocks DEF IInv, Behind, Settled, NewIn, NewOut
  <2>5. Stopped'
    BY <2>1 DEF IInv, Stopped, Shapes
  <2>. QED BY <2>2, <2>3, <2>4, <2>5 DEF IInv
<1>3. CASE UNCHANGED vars
  BY <1>3 DEF vars, IInv, Shapes, Below, Behind, Settled, Stopped, Least, Closed, NewIn, NewOut
<1>. QED BY <1>1, <1>2, <1>3 DEF Next

(***************************************************************************)
(* The inductive invariant holds in every state of the loop.               *)
(***************************************************************************)
THEOREM Invariant == Spec => []IInv
  BY InitIInv, StepIInv, PTL DEF Spec

-----------------------------------------------------------------------------
(* What the loop computes                                                   *)

(***************************************************************************)
(* No step takes a value out of a set.                                     *)
(***************************************************************************)
THEOREM SetsOnlyGrowAlways == Spec => SetsOnlyGrow
<1>1. IInv /\ [Next]_vars =>
        [\A b \in Block(fn) : liveIn[b] \subseteq liveIn'[b] /\ liveOut[b] \subseteq liveOut'[b]]_vars
  BY VisitGrows DEF IInv, Next, EndPass
<1>. QED BY <1>1, Invariant, PTL DEF Spec, SetsOnlyGrow

(***************************************************************************)
(* When the loop stops, its sets solve the dataflow equations, and no      *)
(* other solution is smaller anywhere.                                     *)
(***************************************************************************)
LeastSolution ==
    done => /\ \A b \in Block(fn) : liveIn[b] = NewIn(b) /\ liveOut[b] = NewOut(b)
            /\ \A X : Closed(X) => \A b \in Block(fn) : liveIn[b] \subseteq X[b]

(***************************************************************************)
(* The loop stops only at the least solution of the dataflow equations.    *)
(***************************************************************************)
THEOREM LeastSolutionAtEnd == Spec => []LeastSolution
<1>1. IInv => LeastSolution
  <2>. SUFFICES ASSUME IInv, done PROVE LeastSolution
    BY DEF LeastSolution
  <2>1. ~changed /\ at = 0 /\ Block(fn) = 1..Len(fn.body) /\ Len(fn.body) \in Nat
    BY Blocks DEF IInv, Stopped
  <2>2. \A b \in Block(fn) : b > at
    BY <2>1
  <2>. QED BY <2>1, <2>2 DEF IInv, Behind, Settled, Least, LeastSolution
<1>. QED BY <1>1, Invariant, PTL

-----------------------------------------------------------------------------
(* What the equations stand for                                             *)

\* The paths through the blocks of f from the top of b.
Paths(f, b) ==
    {p \in Seq(Block(f)) :
        p # <<>> /\ p[1] = b /\ \A i \in 1..(Len(p) - 1) : p[i + 1] \in Successors(f, p[i])}

\* The last block of p reads v and no block before it writes v.
ReadAlong(f, p, v) ==
    /\ v \in Use(f, p[Len(p)])
    /\ \A i \in 1..(Len(p) - 1) : v \notin Def(f, p[i])

\* The values some path from the top of b reads before it writes them.
LiveAtTop(f, b) ==
    {v \in UNION {Use(f, c) : c \in Block(f)} : \E p \in Paths(f, b) : ReadAlong(f, p, v)}

(***************************************************************************)
(* A solution has every value in it that a path still reads: else the last *)
(* block of the path that lacks it would contradict its equation.          *)
(***************************************************************************)
LEMMA PathsAreCovered ==
    ASSUME Shapes, \A b \in Block(fn) : liveIn[b] = NewIn(b),
           NEW b \in Block(fn), NEW v \in LiveAtTop(fn, b)
    PROVE  v \in liveIn[b]
<1>1. PICK p \in Paths(fn, b) : ReadAlong(fn, p, v)
  BY DEF LiveAtTop
<1>2. PICK n : n = Len(p)
  OBVIOUS
<1>3. /\ n \in Nat \ {0} /\ p[1] = b
      /\ \A i \in 1..n : p[i] \in Block(fn)
      /\ \A i \in 1..(n - 1) : p[i + 1] \in Successors(fn, p[i]) /\ v \notin Def(fn, p[i])
      /\ v \in Use(fn, p[n])
  BY <1>1, <1>2 DEF Paths, ReadAlong
<1>. DEFINE Lacking == {i \in 1..n : v \notin liveIn[p[i]]}
<1>4. CASE Lacking = {}
  BY <1>3, <1>4
<1>5. CASE Lacking # {}
  <2>1. Lacking \in SUBSET (0..n) /\ n \in Nat
    BY <1>3
  <2>2. PICK m \in Lacking : \A i \in Lacking : m >= i
    BY <1>5, <2>1, MaxExists
  <2>3. m \in 1..n /\ v \notin liveIn[p[m]] /\ liveIn[p[m]] = NewIn(p[m])
    BY <1>3, <2>2
  <2>4. v \notin Use(fn, p[m]) /\ m # n
    BY <1>3, <2>3 DEF NewIn
  <2>5. m \in 1..(n - 1) /\ m + 1 \in 1..n /\ ~(m >= m + 1)
    BY <1>3, <2>3, <2>4
  <2>6. v \in liveIn[p[m + 1]]
    BY <2>2, <2>5
  <2>7. v \in NewOut(p[m])
    BY <1>3, <2>5, <2>6 DEF NewOut
  <2>8. v \in NewIn(p[m])
    BY <1>3, <2>5, <2>7 DEF NewIn
  <2>. QED BY <2>3, <2>8
<1>. QED BY <1>4, <1>5

(***************************************************************************)
(* What the paths read is itself a solution: a block's own reads are paths *)
(* of one block, and a path from a successor is longer by the block.       *)
(***************************************************************************)
LEMMA PathsAreClosed ==
    ASSUME Shapes
    PROVE  Closed([b \in Block(fn) |-> LiveAtTop(fn, b)])
<1>. PICK X : X = [b \in Block(fn) |-> LiveAtTop(fn, b)]
  OBVIOUS
<1>. SUFFICES ASSUME NEW b \in Block(fn), NEW v,
                     v \in Use(fn, b) \cup ((UNION {X[s] : s \in Successors(fn, b)}) \ Def(fn, b))
              PROVE  v \in LiveAtTop(fn, b)
  BY DEF Closed
<1>0. \/ v \in Use(fn, b)
      \/ v \notin Def(fn, b) /\ \E s \in Successors(fn, b) : v \in LiveAtTop(fn, s)
  BY Blocks
<1>1. CASE v \in Use(fn, b)
  <2>. PICK p : p = <<b>>
    OBVIOUS
  <2>1. p \in Paths(fn, b)
    BY DEF Paths
  <2>2. ReadAlong(fn, p, v)
    BY <1>1 DEF ReadAlong
  <2>. QED BY <1>1, <2>1, <2>2 DEF LiveAtTop
<1>2. CASE v \notin Def(fn, b) /\ \E s \in Successors(fn, b) : v \in LiveAtTop(fn, s)
  <2>1. PICK s \in Successors(fn, b) : v \in LiveAtTop(fn, s)
    BY <1>2
  <2>2. PICK p \in Paths(fn, s) : ReadAlong(fn, p, v)
    BY <2>1 DEF LiveAtTop
  <2>3. PICK n : n = Len(p)
    OBVIOUS
  <2>4. /\ p \in Seq(Block(fn)) /\ n \in Nat \ {0} /\ p[1] = s
        /\ \A i \in 1..(n - 1) : p[i + 1] \in Successors(fn, p[i]) /\ v \notin Def(fn, p[i])
        /\ v \in Use(fn, p[n])
    BY <2>2, <2>3 DEF Paths, ReadAlong
  <2>5. PICK r : r = <<b>> \o p
    OBVIOUS
  <2>6. /\ r \in Seq(Block(fn)) /\ r # <<>> /\ Len(r) = n + 1 /\ r[1] = b
        /\ \A i \in 1..n : r[i + 1] = p[i]
    BY <2>3, <2>4, <2>5
  <2>7. ASSUME NEW i \in 1..n
        PROVE  r[i + 1] \in Successors(fn, r[i]) /\ v \notin Def(fn, r[i])
    <3>1. CASE i = 1
      BY <1>2, <2>1, <2>4, <2>6, <3>1
    <3>2. CASE i # 1
      <4>1. i - 1 \in 1..(n - 1) /\ i - 1 \in 1..n /\ (i - 1) + 1 = i
        BY <2>4, <3>2
      <4>. QED BY <2>4, <2>6, <4>1
    <3>. QED BY <3>1, <3>2
  <2>8. Len(r) - 1 = n /\ r[Len(r)] = p[n]
    BY <2>4, <2>6
  <2>9. r \in Paths(fn, b)
    BY <2>6, <2>7, <2>8 DEF Paths
  <2>10. ReadAlong(fn, r, v)
    BY <2>4, <2>7, <2>8 DEF ReadAlong
  <2>. QED BY <2>1, <2>9, <2>10 DEF LiveAtTop
<1>. QED BY <1>0, <1>1, <1>2

(***************************************************************************)
(* When the loop stops, live_in of a block is what some path from its top  *)
(* reads before writing it, and live_out what the same holds for at the    *)
(* top of a successor.                                                     *)
(***************************************************************************)
LiveOnPaths ==
    done => \A b \in Block(fn) : /\ liveIn[b] = LiveAtTop(fn, b)
                                 /\ liveOut[b] = UNION {LiveAtTop(fn, s) : s \in Successors(fn, b)}

(***************************************************************************)
(* The sets the intervals are built from are exact, in every control flow  *)
(* graph: nothing a path reads is missing, nothing else is in them.        *)
(***************************************************************************)
THEOREM LiveOnPathsAtEnd == Spec => []LiveOnPaths
<1>1. IInv /\ LeastSolution => LiveOnPaths
  <2>. SUFFICES ASSUME IInv, LeastSolution, done PROVE LiveOnPaths
    BY DEF LiveOnPaths
  <2>1. Shapes /\ \A b \in Block(fn) : liveIn[b] = NewIn(b) /\ liveOut[b] = NewOut(b)
    BY DEF IInv, LeastSolution
  <2>2. \A b \in Block(fn) : LiveAtTop(fn, b) \subseteq liveIn[b]
    BY <2>1, PathsAreCovered
  <2>3. \A b \in Block(fn) : liveIn[b] \subseteq LiveAtTop(fn, b)
    BY <2>1, PathsAreClosed DEF LeastSolution
  <2>4. \A b \in Block(fn) : liveIn[b] = LiveAtTop(fn, b)
    BY <2>2, <2>3
  <2>5. \A b \in Block(fn) : liveOut[b] = UNION {LiveAtTop(fn, s) : s \in Successors(fn, b)}
    BY <2>1, <2>4, Blocks DEF NewOut
  <2>. QED BY <2>4, <2>5 DEF LiveOnPaths
<1>. QED BY <1>1, Invariant, LeastSolutionAtEnd, PTL

-----------------------------------------------------------------------------
(* Paths of single instructions                                             *)

(***************************************************************************)
(* The numbering of IRProofs is one of these functions.                    *)
(***************************************************************************)
LEMMA ProgramLaid == \A f \in Program : Laid(f) /\ Linked(f) /\ Once(f)
<1>1. \A f \in Program : Laid(f) /\ Linked(f)
  BY ProgramAssumption, BlockAssumption DEF Laid, Linked
<1>2. \A f \in Program : Once(f)
  BY SsaAssumption DEF Once
<1>. QED BY <1>1, <1>2

-----------------------------------------------------------------------------
(* What a block says about the points inside it                             *)

\* Instruction j of block b reads v, and none from the kth to it writes v.
ReadFrom(b, k, j, v) ==
    /\ fn.body[b][j].op # "phi" /\ v \in ToSet(fn.body[b][j].args)
    /\ \A i \in k..(j - 1) : fn.body[b][i].res # v

\* Before instruction k of block b, v is needed by the block, by its edges, or
\* because it is in out, and nothing on the way there writes it.
NeededWith(out, b, k, v) ==
    \/ \E j \in k..Size(fn, b) : ReadFrom(b, k, j, v)
    \/ /\ v \in PhiOperands(fn, b) \cup out
       /\ \A i \in k..Size(fn, b) : fn.body[b][i].res # v

Needed(b, k, v) == NeededWith(NewOut(b), b, k, v)

\* The loop has stopped with the least solution.
Solved ==
    /\ fn \in Program
    /\ DOMAIN liveIn = Block(fn)
    /\ \A b \in Block(fn) : liveIn[b] = NewIn(b) /\ liveOut[b] = NewOut(b)
    /\ Least

(***************************************************************************)
(* At the top of a block, needed is what the equation of live_in says.     *)
(***************************************************************************)
LEMMA NeededAtTop ==
    ASSUME fn \in Program, NEW b \in Block(fn), NEW v \in Values(fn), NEW out
    PROVE  v \in Use(fn, b) \cup (out \ Def(fn, b)) <=> NeededWith(out, b, 1, v)
<1>1. v # NoValue
  BY SsaAssumption
<1>2. Size(fn, b) \in Nat /\ DOMAIN fn.body[b] = 1..Size(fn, b)
  BY Sizes, ProgramLaid
<1>3. v \in Exposed(fn, b) <=> \E j \in 1..Size(fn, b) : ReadFrom(b, 1, j, v)
  BY <1>2 DEF Exposed, ReadFrom
<1>4. v \in Def(fn, b) <=> \E i \in 1..Size(fn, b) : fn.body[b][i].res = v
  BY <1>1, <1>2 DEF Def
<1>. QED BY <1>3, <1>4 DEF Use, NeededWith

(***************************************************************************)
(* What is needed is live, when what is in out is live in a successor.     *)
(***************************************************************************)
LEMMA LiveIfNeededWith ==
    ASSUME fn \in Program, NEW v \in Values(fn), NEW out,
           NEW b \in Block(fn), NEW k \in 1..Size(fn, b),
           v \in out => \E s \in Successors(fn, b) : Idx(fn, s, 1) \in LivePoints(fn, v),
           NeededWith(out, b, k, v)
    PROVE  Idx(fn, b, k) \in LivePoints(fn, v)
<1>1. v # NoValue
  BY SsaAssumption
<1>2. Size(fn, b) \in k..Size(fn, b) /\ Size(fn, b) \in Nat /\ k \in Nat /\ k >= 1
  BY Sizes, ProgramLaid
<1>3. CASE \E j \in k..Size(fn, b) : ReadFrom(b, k, j, v)
  <2>1. PICK j \in k..Size(fn, b) : ReadFrom(b, k, j, v)
    BY <1>3
  <2>2. j \in 1..Size(fn, b)
    BY <1>2
  <2>3. Idx(fn, b, j) \in UseIndices(fn, v)
    BY <2>1, <2>2, UsesAt, ProgramLaid DEF ReadFrom
  <2>4. Idx(fn, b, j) \in LivePoints(fn, v)
    BY <1>1, <2>3, LivePointsLeast, ProgramLaid
  <2>. QED BY <1>1, <2>1, <2>4, BackInBlock, ProgramLaid DEF ReadFrom
<1>4. CASE /\ v \in PhiOperands(fn, b) \cup out
           /\ \A i \in k..Size(fn, b) : fn.body[b][i].res # v
  <2>1. Idx(fn, b, Size(fn, b)) \in LivePoints(fn, v)
    <3>1. CASE v \in PhiOperands(fn, b)
      <4>1. Idx(fn, b, Size(fn, b)) \in UseIndices(fn, v)
        BY <3>1, UsesAt, ProgramLaid
      <4>. QED BY <1>1, <4>1, LivePointsLeast, ProgramLaid
    <3>2. CASE v \in out
      <4>1. PICK s \in Successors(fn, b) : Idx(fn, s, 1) \in LivePoints(fn, v)
        BY <3>2
      <4>2. PICK e : e = <<Idx(fn, b, Size(fn, b)), Idx(fn, s, 1)>>
        OBVIOUS
      <4>3. e \in FlowPast(fn, v)
        BY <1>1, <4>2, FlowPastAt, ProgramLaid
      <4>4. e[2] \in LivePoints(fn, v) => e[1] \in LivePoints(fn, v)
        BY <1>1, <4>3, LivePointsLeast, ProgramLaid
      <4>. QED BY <4>1, <4>2, <4>4
    <3>. QED BY <1>4, <3>1, <3>2
  <2>2. \A i \in k..(Size(fn, b) - 1) : i \in k..Size(fn, b)
    BY <1>2
  <2>. QED BY <1>1, <1>2, <1>4, <2>1, <2>2, BackInBlock, ProgramLaid
<1>. QED BY <1>3, <1>4 DEF NeededWith

(***************************************************************************)
(* What is live at the tops of the blocks solves the equations, so nothing *)
(* else is in live_in.                                                     *)
(***************************************************************************)
LEMMA LiveInIsLive ==
    ASSUME Solved, NEW b \in Block(fn), NEW v \in liveIn[b]
    PROVE  v \in Values(fn) /\ Idx(fn, b, 1) \in LivePoints(fn, v)
<1>1. PICK X : X = [c \in Block(fn) |-> {w \in Values(fn) : Idx(fn, c, 1) \in LivePoints(fn, w)}]
  OBVIOUS
<1>2. \A c \in Block(fn) : Successors(fn, c) \subseteq Block(fn) /\ 1 \in 1..Size(fn, c)
  BY ProgramAssumption, Sizes, ProgramLaid DEF Solved
<1>3. ASSUME NEW c \in Block(fn),
             NEW w \in Use(fn, c) \cup ((UNION {X[s] : s \in Successors(fn, c)}) \ Def(fn, c))
      PROVE  w \in X[c]
  <2>1. PICK out : out = UNION {X[s] : s \in Successors(fn, c)}
    OBVIOUS
  <2>2. \A u \in out : u \in Values(fn) /\ \E s \in Successors(fn, c) : Idx(fn, s, 1) \in LivePoints(fn, u)
    BY <1>1, <1>2, <2>1
  <2>3. w \in Values(fn)
    BY <1>3, <2>1, <2>2 DEF Use, Exposed, PhiOperands
  <2>4. NeededWith(out, c, 1, w)
    BY <1>3, <2>1, <2>3, NeededAtTop DEF Solved
  <2>5. Idx(fn, c, 1) \in LivePoints(fn, w)
    BY <1>2, <2>2, <2>3, <2>4, LiveIfNeededWith DEF Solved
  <2>. QED BY <1>1, <2>3, <2>5
<1>4. Closed(X)
  BY <1>3 DEF Closed
<1>5. liveIn[b] \subseteq X[b]
  BY <1>4 DEF Solved, Least
<1>. QED BY <1>1, <1>5

(***************************************************************************)
(* When the loop has stopped, what is needed is live.                      *)
(***************************************************************************)
LEMMA LiveIfNeeded ==
    ASSUME Solved, NEW v \in Values(fn), NEW b \in Block(fn), NEW k \in 1..Size(fn, b), Needed(b, k, v)
    PROVE  Idx(fn, b, k) \in LivePoints(fn, v)
<1>1. Successors(fn, b) \subseteq Block(fn)
  BY ProgramAssumption DEF Solved
<1>2. v \in NewOut(b) => \E s \in Successors(fn, b) : Idx(fn, s, 1) \in LivePoints(fn, v)
  BY <1>1, LiveInIsLive DEF NewOut
<1>. QED BY <1>2, LiveIfNeededWith DEF Solved, Needed

(***************************************************************************)
(* And what is live is needed: the points where a value is needed have its *)
(* uses and go back along the flow.                                        *)
(***************************************************************************)
LEMMA NeededIfLive ==
    ASSUME Solved, NEW v \in Values(fn), NEW b \in Block(fn), NEW k \in 1..Size(fn, b),
           Idx(fn, b, k) \in LivePoints(fn, v)
    PROVE  Needed(b, k, v)
<1>. DEFINE S == {i \in 1..MaxIndexOf(fn) : \E c \in Block(fn) : \E l \in 1..Size(fn, c) :
                                              i = Idx(fn, c, l) /\ Needed(c, l, v)}
<1>1. v # NoValue /\ fn \in Program
  BY SsaAssumption DEF Solved
<1>2. \A c \in Block(fn) : /\ Size(fn, c) \in Nat \ {0} /\ Size(fn, c) \in 1..Size(fn, c)
                           /\ 1 \in 1..Size(fn, c)
                           /\ Successors(fn, c) \subseteq Block(fn)
                           /\ fn.body[c][Size(fn, c)].res = NoValue
  <2>. SUFFICES ASSUME NEW c \in Block(fn)
                PROVE  /\ Size(fn, c) \in Nat \ {0} /\ Size(fn, c) \in 1..Size(fn, c)
                       /\ 1 \in 1..Size(fn, c)
                       /\ Successors(fn, c) \subseteq Block(fn)
                       /\ fn.body[c][Size(fn, c)].res = NoValue
    OBVIOUS
  <2>1. Laid(fn)
    BY <1>1, ProgramLaid
  <2>2. Size(fn, c) \in Nat \ {0}
    BY <2>1, Sizes
  <2>3. Last(fn.body[c]) = fn.body[c][Size(fn, c)]
    BY <2>1, IdxRange
  <2>. QED BY <1>1, <2>2, <2>3, ProgramAssumption, BlockAssumption
<1>3. \A c \in Block(fn) : \A l \in 1..Size(fn, c) : Idx(fn, c, l) \in 1..MaxIndexOf(fn)
  BY <1>1, IdxRange, ProgramLaid
<1>4. ASSUME NEW c \in Block(fn), NEW l \in 1..Size(fn, c), Needed(c, l, v)
      PROVE  Idx(fn, c, l) \in S
  BY <1>3, <1>4
<1>5. ASSUME NEW i \in UseIndices(fn, v)
      PROVE  i \in S
  <2>1. CASE \E c \in Block(fn) : \E l \in 1..Size(fn, c) :
                /\ i = Idx(fn, c, l)
                /\ fn.body[c][l].op # "phi" /\ v \in ToSet(fn.body[c][l].args)
    <3>. PICK c \in Block(fn) : \E l \in 1..Size(fn, c) :
                /\ i = Idx(fn, c, l)
                /\ fn.body[c][l].op # "phi" /\ v \in ToSet(fn.body[c][l].args)
      BY <2>1
    <3>1. PICK l \in 1..Size(fn, c) :
                /\ i = Idx(fn, c, l)
                /\ fn.body[c][l].op # "phi" /\ v \in ToSet(fn.body[c][l].args)
      OBVIOUS
    <3>2. l \in l..Size(fn, c) /\ l..(l - 1) = {}
      BY <1>2
    <3>3. Needed(c, l, v)
      BY <3>1, <3>2 DEF Needed, NeededWith, ReadFrom
    <3>. QED BY <1>4, <3>1, <3>3
  <2>2. CASE \E c \in Block(fn) : i = Idx(fn, c, Size(fn, c)) /\ v \in PhiOperands(fn, c)
    <3>1. PICK c \in Block(fn) : i = Idx(fn, c, Size(fn, c)) /\ v \in PhiOperands(fn, c)
      BY <2>2
    <3>2. \A l \in Size(fn, c)..Size(fn, c) : fn.body[c][l].res # v
      BY <1>1, <1>2
    <3>3. Needed(c, Size(fn, c), v)
      BY <3>1, <3>2 DEF Needed, NeededWith
    <3>. QED BY <1>2, <1>4, <3>1, <3>3
  <2>. QED BY <1>1, <2>1, <2>2, UsesAt, ProgramLaid
<1>6. ASSUME NEW e \in FlowPast(fn, v), e[2] \in S
      PROVE  e[1] \in S
  <2>1. CASE \E c \in Block(fn) : \E l \in 1..(Size(fn, c) - 1) :
                e = <<Idx(fn, c, l), Idx(fn, c, l + 1)>> /\ fn.body[c][l].res # v
    <3>. PICK c \in Block(fn) : \E l \in 1..(Size(fn, c) - 1) :
                e = <<Idx(fn, c, l), Idx(fn, c, l + 1)>> /\ fn.body[c][l].res # v
      BY <2>1
    <3>1. PICK l \in 1..(Size(fn, c) - 1) :
                e = <<Idx(fn, c, l), Idx(fn, c, l + 1)>> /\ fn.body[c][l].res # v
      OBVIOUS
    <3>2. l \in 1..Size(fn, c) /\ l + 1 \in 1..Size(fn, c)
      BY <1>2
    <3>3. e[1] = Idx(fn, c, l) /\ e[2] = Idx(fn, c, l + 1)
      BY <3>1
    <3>4. Needed(c, l + 1, v)
      BY <1>1, <1>6, <3>2, <3>3, IdxUnique, ProgramLaid
    <3>5. Needed(c, l, v)
      <4>1. \A j \in (l + 1)..Size(fn, c) : j \in l..Size(fn, c) /\ \A i \in l..(j - 1) : i = l \/ i \in (l + 1)..(j - 1)
        BY <1>2, <3>2
      <4>2. \A i \in l..Size(fn, c) : i = l \/ i \in (l + 1)..Size(fn, c)
        BY <1>2, <3>2
      <4>. QED BY <3>1, <3>4, <4>1, <4>2 DEF Needed, NeededWith, ReadFrom
    <3>. QED BY <1>4, <3>2, <3>3, <3>5
  <2>2. CASE \E c \in Block(fn) : \E s \in Successors(fn, c) :
                e = <<Idx(fn, c, Size(fn, c)), Idx(fn, s, 1)>>
    <3>. PICK c \in Block(fn) : \E s \in Successors(fn, c) :
                e = <<Idx(fn, c, Size(fn, c)), Idx(fn, s, 1)>>
      BY <2>2
    <3>1. PICK s \in Successors(fn, c) : e = <<Idx(fn, c, Size(fn, c)), Idx(fn, s, 1)>>
      OBVIOUS
    <3>2. e[1] = Idx(fn, c, Size(fn, c)) /\ e[2] = Idx(fn, s, 1) /\ s \in Block(fn)
      BY <1>2, <3>1
    <3>3. Needed(s, 1, v)
      BY <1>1, <1>2, <1>6, <3>2, IdxUnique, ProgramLaid
    <3>4. v \in liveIn[s]
      BY <1>1, <3>2, <3>3, NeededAtTop DEF Needed, Solved, NewIn
    <3>5. v \in NewOut(c)
      BY <3>4 DEF NewOut
    <3>6. \A l \in Size(fn, c)..Size(fn, c) : fn.body[c][l].res # v
      BY <1>1, <1>2
    <3>7. Needed(c, Size(fn, c), v)
      BY <3>5, <3>6 DEF Needed, NeededWith
    <3>. QED BY <1>2, <1>4, <3>2, <3>7
  <2>. QED BY <1>1, <2>1, <2>2, FlowPastAt, ProgramLaid
<1>7. LivePoints(fn, v) \subseteq S
  <2>. HIDE DEF S
  <2>. QED BY <1>1, <1>5, <1>6, LivePointsLeast, ProgramLaid
<1>8. PICK c \in Block(fn) : \E l \in 1..Size(fn, c) : Idx(fn, b, k) = Idx(fn, c, l) /\ Needed(c, l, v)
  BY <1>7
<1>. QED BY <1>1, <1>8, IdxUnique, ProgramLaid

(***************************************************************************)
(* The loop stops only at a solved set of equations.                       *)
(***************************************************************************)
LEMMA SolvedAtEnd ==
    ASSUME IInv, LeastSolution, done
    PROVE  Solved
  BY DEF IInv, LeastSolution, Solved, Shapes

(***************************************************************************)
(* The loop stops with exact live sets.                                    *)
(***************************************************************************)
LEMMA SolvedLiveSets == Solved => LiveSets(fn, liveIn, liveOut)
<1>1. ASSUME Solved, NEW b \in Block(fn)
      PROVE  liveIn[b] = {v \in Values(fn) : FirstIndex(fn, b) \in LivePoints(fn, v)}
  <2>1. FirstIndex(fn, b) = Idx(fn, b, 1) /\ 1 \in 1..Size(fn, b)
    BY <1>1, IdxRange, Sizes, ProgramLaid DEF Solved
  <2>2. ASSUME NEW v \in Values(fn), Idx(fn, b, 1) \in LivePoints(fn, v)
        PROVE  v \in liveIn[b]
    <3>1. Needed(b, 1, v)
      BY <1>1, <2>1, <2>2, NeededIfLive
    <3>. QED BY <1>1, <3>1, NeededAtTop DEF Needed, Solved, NewIn
  <2>. QED BY <1>1, <2>1, <2>2, LiveInIsLive
<1>. QED BY <1>1 DEF LiveSets, Solved, NewOut

(***************************************************************************)
(* When the loop stops, live_in of a block is what is live before its      *)
(* first instruction, on paths of single instructions: property            *)
(* FixpointIsLiveness (regalloc.rs:138-169).                               *)
(***************************************************************************)
THEOREM FixpointIsLivenessAlways == Spec => []FixpointIsLiveness
<1>1. IInv /\ LeastSolution => FixpointIsLiveness
  <2>1. ASSUME IInv, LeastSolution, done PROVE LiveSets(fn, liveIn, liveOut)
    BY <2>1, SolvedAtEnd, SolvedLiveSets
  <2>. QED BY <2>1 DEF FixpointIsLiveness, LiveMap, LiveSets
<1>. QED BY <1>1, Invariant, LeastSolutionAtEnd, PTL

-----------------------------------------------------------------------------
(* The intervals                                                            *)

(***************************************************************************)
(* A value overlaps what is live at the first instruction behind its       *)
(* definition, the rest of the phis skipped if a phi defines it.           *)
(***************************************************************************)
LEMMA WrittenOverlaps ==
    ASSUME Solved, NEW u \in Values(fn), NEW w \in Values(fn), Read(u),
           NEW b \in Block(fn), NEW k \in 1..Size(fn, b), NEW h \in (k + 1)..Size(fn, b),
           fn.body[b][k].res = u,
           \A i \in (k + 1)..(h - 1) : fn.body[b][i].op = "phi",
           Idx(fn, b, h) \in LivePoints(fn, w)
    PROVE  Overlap(u, w)
<1>1. /\ u # NoValue /\ w # NoValue /\ fn \in Program
      /\ Laid(fn) /\ Linked(fn) /\ Once(fn) /\ LiveSets(fn, liveIn, liveOut)
  BY SsaAssumption, ProgramLaid, SolvedLiveSets DEF Solved
<1>2. PICK l : l = h - 1
  OBVIOUS
<1>3. /\ k \in 1..(Size(fn, b) - 1) /\ l \in 1..(Size(fn, b) - 1) /\ h = l + 1 /\ k <= l
      /\ l \in 1..Size(fn, b) /\ Size(fn, b) \in Nat
  BY <1>1, <1>2, Sizes
<1>4. /\ Idx(fn, b, k) \in Nat /\ Idx(fn, b, l) \in Nat /\ Idx(fn, b, k) <= Idx(fn, b, l)
      /\ Idx(fn, b, h) = Idx(fn, b, l) + 1
  BY <1>1, <1>3, IdxRange
<1>5. After(fn, DefIndex(fn, u)) \cap LivePoints(fn, u) # {}
  <2>1. u \in Listed(fn)
    BY <1>1, DefIndexAt
  <2>. QED BY <1>1, <2>1, SsaAssumption DEF Read
<1>6. Start(u) <= Idx(fn, b, k) /\ Idx(fn, b, h) <= End(u)
  BY <1>1, <1>3, <1>5, ResultSpans DEF Start, End
<1>7. Start(w) <= Idx(fn, b, l) /\ Idx(fn, b, h) <= End(w)
  BY <1>1, <1>3, LiveSpans DEF Start, End
<1>8. Start(u) \in Nat /\ End(u) \in Nat /\ Start(w) \in Nat /\ End(w) \in Nat
  BY <1>1, IntervalReaches DEF Start, End
<1>. QED BY <1>4, <1>6, <1>7, <1>8 DEF Overlap

(***************************************************************************)
(* Parameters are defined together before the first instruction.           *)
(***************************************************************************)
LEMMA ParametersOverlap ==
    ASSUME Solved, NEW u \in ToSet(fn.params), NEW w \in ToSet(fn.params), Read(u), Read(w)
    PROVE  Overlap(u, w)
<1>1. ASSUME NEW v \in ToSet(fn.params), Read(v)
      PROVE  Start(v) \in Nat /\ Start(v) <= 0 /\ End(v) \in Nat /\ 1 <= End(v)
  <2>1. fn \in Program /\ v \in Values(fn)
    BY DEF Solved, Values
  <2>2. v # NoValue /\ v \notin Listed(fn) /\ Laid(fn) /\ Once(fn)
    BY <2>1, SsaAssumption, ProgramLaid
  <2>3. DefIndex(fn, v) = 0
    BY <2>2, DefIndexAt
  <2>4. PICK i \in UseIndices(fn, v) : i \in 1..MaxIndexOf(fn) /\ MaxIndexOf(fn) \in Nat
    BY <1>1, <2>2, UsesAt, IdxRange DEF Read
  <2>. QED BY <2>2, <2>3, <2>4, IntervalReaches DEF Start, End
<1>. QED BY <1>1 DEF Overlap

(***************************************************************************)
(* The first instruction of a block that is not a phi, and the phis above. *)
(***************************************************************************)
LEMMA ResumeAt ==
    ASSUME fn \in Program, NEW b \in Block(fn)
    PROVE  \E h \in 1..Size(fn, b) :
              /\ Resume(b) = Idx(fn, b, h)
              /\ \A k \in 1..Size(fn, b) : fn.body[b][k].op = "phi" <=> k < h
<1>1. PICK S : S = {x.idx : x \in {y \in Insts(fn) : y.block = b /\ y.inst.op # "phi"}}
  OBVIOUS
<1>2. PICK n \in Nat : n = MaxIndexOf(fn)
  BY IdxRange, ProgramLaid
<1>3. ASSUME NEW k \in 1..Size(fn, b), fn.body[b][k].op # "phi"
      PROVE  Idx(fn, b, k) \in S
  <2>1. PICK x : x = [idx |-> Idx(fn, b, k), block |-> b, inst |-> fn.body[b][k]]
    OBVIOUS
  <2>2. x \in Insts(fn)
    BY <2>1, InstsAt, ProgramLaid
  <2>3. x.block = b /\ x.inst = fn.body[b][k] /\ x.idx = Idx(fn, b, k)
    BY <2>1
  <2>. QED BY <1>1, <1>3, <2>2, <2>3
<1>4. ASSUME NEW i \in S
      PROVE  \E k \in 1..Size(fn, b) : i = Idx(fn, b, k) /\ fn.body[b][k].op # "phi"
  <2>1. PICK x \in Insts(fn) : x.block = b /\ x.inst.op # "phi" /\ i = x.idx
    BY <1>1
  <2>2. PICK k \in 1..Size(fn, b) : x.idx = Idx(fn, b, k) /\ x.inst = fn.body[b][k]
    BY <2>1, InstsAt, ProgramLaid
  <2>. QED BY <2>1, <2>2
<1>5. S \in SUBSET (0..n)
  BY <1>2, <1>4, IdxRange, ProgramLaid
<1>6. Size(fn, b) \in Nat \ {0} /\ DOMAIN fn.body[b] = 1..Size(fn, b)
  BY Sizes, ProgramLaid
<1>7. S # {}
  <2>1. Size(fn, b) \in 1..Size(fn, b) /\ fn.body[b][Size(fn, b)].op # "phi"
    BY <1>6, BlockAssumption, IdxRange, ProgramLaid
  <2>. QED BY <1>3, <2>1
<1>8. Min(S) \in S /\ \A y \in S : Min(S) <= y
  BY <1>5, <1>7, MinExists
<1>9. PICK h \in 1..Size(fn, b) : Min(S) = Idx(fn, b, h) /\ fn.body[b][h].op # "phi"
  BY <1>4, <1>8
<1>10. ASSUME NEW k \in 1..Size(fn, b)
       PROVE  fn.body[b][k].op = "phi" <=> k < h
  <2>1. ASSUME fn.body[b][k].op # "phi" PROVE h <= k
    BY <1>3, <1>8, <1>9, <2>1, IdxRange, ProgramLaid
  <2>2. ASSUME fn.body[b][k].op = "phi" PROVE ~(h < k)
    BY <1>6, <1>9, <2>2, BlockAssumption
  <2>3. ASSUME fn.body[b][k].op = "phi" PROVE h # k
    BY <1>9, <2>3
  <2>. QED BY <1>6, <2>1, <2>2, <2>3
<1>. QED BY <1>1, <1>9, <1>10 DEF Resume

(***************************************************************************)
(* When the loop has stopped, values that may not share a register overlap:*)
(* property ClobberIsOverlap (regalloc.rs:171-215; select.rs:192-208,      *)
(* 256-277).                                                               *)
(***************************************************************************)
THEOREM ClobberIsOverlapAlways == Spec => []ClobberIsOverlap
<1>1. ASSUME Solved, NEW u, NEW w, <<u, w>> \in Clobbers, Read(u)
      PROVE  Overlap(u, w)
  <2>1. fn \in Program
    BY <1>1 DEF Solved
  <2>2. u # NoValue
    BY <1>1, <2>1, SsaAssumption DEF Read
  <2>3. ASSUME NEW points, w \in LiveAt(LiveMap, points)
        PROVE  w \in Values(fn) /\ points \cap LivePoints(fn, w) # {}
    BY <2>3 DEF LiveAt, LiveMap
  <2>4. CASE <<u, w>> \in ByInst(LiveMap)
    <3>1. PICK x \in Insts(fn) : u = x.inst.res /\ w \in LiveAt(LiveMap, After(fn, x.idx))
      BY <2>4 DEF ByInst
    <3>2. PICK b \in Block(fn) : b = x.block
      BY <2>1, <3>1, InstsAt, ProgramLaid
    <3>3. PICK k \in 1..Size(fn, b) : x.idx = Idx(fn, b, k) /\ x.inst = fn.body[b][k]
      BY <2>1, <3>1, <3>2, InstsAt, ProgramLaid
    <3>4. Size(fn, b) \in Nat \ {0} /\ fn.body[b][Size(fn, b)].res = NoValue
      BY <2>1, Sizes, IdxRange, BlockAssumption, ProgramLaid
    <3>5. k # Size(fn, b) /\ fn.body[b][k].res = u
      BY <2>2, <3>1, <3>3, <3>4
    <3>6. PICK h : h = k + 1
      OBVIOUS
    <3>7. k \in 1..(Size(fn, b) - 1) /\ h \in (k + 1)..Size(fn, b) /\ (k + 1)..(h - 1) = {}
      BY <3>4, <3>5, <3>6
    <3>8. w \in Values(fn) /\ Idx(fn, b, h) \in LivePoints(fn, w)
      BY <2>1, <2>3, <3>1, <3>3, <3>6, <3>7, AfterAt, ProgramLaid
    <3>9. u \in Values(fn)
      BY <2>1, <2>2, <3>5, DefIndexAt, ProgramLaid DEF Values
    <3>. QED BY <1>1, <3>5, <3>7, <3>8, <3>9, WrittenOverlaps
  <2>5. CASE <<u, w>> \in ByPhis(LiveMap)
    <3>1. PICK b \in Block(fn) : u \in PhiResults(b) /\ w \in LiveAt(LiveMap, {Resume(b)})
      BY <2>5 DEF ByPhis
    <3>2. PICK x \in Insts(fn) : x.block = b /\ x.inst.op = "phi" /\ u = x.inst.res
      BY <3>1 DEF PhiResults
    <3>3. PICK k \in 1..Size(fn, b) : x.inst = fn.body[b][k]
      BY <2>1, <3>2, InstsAt, ProgramLaid
    <3>4. PICK h \in 1..Size(fn, b) : /\ Resume(b) = Idx(fn, b, h)
                                      /\ \A i \in 1..Size(fn, b) : fn.body[b][i].op = "phi" <=> i < h
      BY <2>1, ResumeAt
    <3>5. Size(fn, b) \in Nat
      BY <2>1, Sizes, ProgramLaid
    <3>6. fn.body[b][k].res = u /\ k < h
      BY <3>2, <3>3, <3>4
    <3>7. h \in (k + 1)..Size(fn, b) /\ \A i \in (k + 1)..(h - 1) : i \in 1..Size(fn, b) /\ i < h
      BY <3>5, <3>6
    <3>8. \A i \in (k + 1)..(h - 1) : fn.body[b][i].op = "phi"
      BY <3>4, <3>7
    <3>9. w \in Values(fn) /\ Idx(fn, b, h) \in LivePoints(fn, w)
      BY <2>3, <3>1, <3>4
    <3>10. u \in Values(fn)
      BY <2>1, <2>2, <3>6, DefIndexAt, ProgramLaid DEF Values
    <3>. QED BY <1>1, <3>6, <3>7, <3>8, <3>9, <3>10, WrittenOverlaps
  <2>6. CASE <<u, w>> \in ByCopy(LiveMap)
    <3>1. u \in ToSet(fn.params) /\ w \in ToSet(fn.params)
      <4>1. PICK i \in DOMAIN fn.params : u = fn.params[i] /\ \E j \in 1..(i - 1) : w = fn.params[j]
        BY <2>6 DEF ByCopy
      <4>2. \A j \in 1..(i - 1) : j \in DOMAIN fn.params
        BY <2>1, ProgramAssumption
      <4>. QED BY <4>1, <4>2 DEF ToSet
    <3>2. Read(w)
      <4>1. <<u, w>> \in Values(fn) \X LiveAt(LiveMap, {1})
        BY <2>6 DEF ByCopy
      <4>2. w # NoValue /\ LivePoints(fn, w) # {}
        BY <2>1, <2>3, <4>1, SsaAssumption
      <4>3. UseIndices(fn, w) = {} => LivePoints(fn, w) \subseteq {}
        BY <2>1, <4>2, LivePointsLeast, ProgramLaid
      <4>. QED BY <4>2, <4>3 DEF Read
    <3>. QED BY <1>1, <3>1, <3>2, ParametersOverlap
  <2>. QED BY <1>1, <2>4, <2>5, <2>6 DEF Clobbers
<1>2. IInv /\ LeastSolution => ClobberIsOverlap
  <2>. SUFFICES ASSUME IInv, LeastSolution, done, NEW c \in Clobbers, Read(c[1])
                PROVE  Overlap(c[1], c[2])
    BY DEF ClobberIsOverlap
  <2>1. Solved
    BY SolvedAtEnd
  <2>2. c = <<c[1], c[2]>>
    <3>1. \A live : c \in ByInst(live) \/ c \in ByPhis(live) => c = <<c[1], c[2]>>
      <4>1. ASSUME NEW live, c \in ByInst(live)
            PROVE  c = <<c[1], c[2]>>
        <5>1. PICK x \in Insts(fn) : c \in {x.inst.res} \X LiveAt(live, After(fn, x.idx))
          BY <4>1 DEF ByInst
        <5>. QED BY <5>1
      <4>2. ASSUME NEW live, c \in ByPhis(live)
            PROVE  c = <<c[1], c[2]>>
        <5>1. PICK b \in Block(fn) : c \in PhiResults(b) \X LiveAt(live, {Resume(b)})
          BY <4>2 DEF ByPhis
        <5>. QED BY <5>1
      <4>. QED BY <4>1, <4>2
    <3>2. \A live : c \in ByCopy(live) => c = <<c[1], c[2]>>
      BY DEF ByCopy
    <3>. QED BY <3>1, <3>2 DEF Clobbers
  <2>. QED BY <1>1, <2>1, <2>2
<1>. QED BY <1>2, Invariant, LeastSolutionAtEnd, PTL
=============================================================================
