------------------------------- MODULE Codegen -------------------------------
(***************************************************************************)
(* What the code of backend/src/riscv/select.rs does when it runs: live    *)
(* intervals (IR), the linear scan (LinearScanList) and the lowering of    *)
(* each IR instruction, composed and executed on a machine that knows, for *)
(* every register and every word of the frame, WHOSE value is in it.       *)
(*                                                                         *)
(* The contents of a place is a tag: the current value of an SSA value, an *)
(* incoming phi value on its way, what the caller had in a register, part  *)
(* of an alloca buffer, or junk.  Arithmetic is left out; what matters is  *)
(* that each instruction finds its operands.  One action runs the machine  *)
(* code of one IR instruction, its moves in the order of the source.       *)
(*                                                                         *)
(* Offsets are words of 8 bytes relative to the frame pointer.             *)
(***************************************************************************)
EXTENDS IR

CONSTANTS
    Program,      \* the functions to compile
    CallerPool, CalleePool,   \* the register pools, sequences of names
    ArgRegs,      \* a0, a1, ...: the registers that carry arguments
    ReachWords,   \* an offset below -ReachWords does not fit an immediate
    MinBackup,    \* the least number of backup slots (16 in the code)
    BufferWords   \* the words of an alloca buffer

\* The pools and the argument registers; t0 and t1 are the scratch registers.
ASSUME RegistersAssumption ==
    /\ CallerPool \in Seq(ToSet(CallerPool)) /\ CalleePool \in Seq(ToSet(CalleePool))
    /\ ArgRegs \in Seq(ToSet(ArgRegs)) /\ ArgRegs # <<>>
    /\ IsInjective(CallerPool \o CalleePool) /\ IsInjective(ArgRegs)
    /\ ToSet(CalleePool) \cap (ToSet(CallerPool) \cup ToSet(ArgRegs) \cup {"t0", "t1"}) = {}
    /\ {"t0", "t1"} \cap (ToSet(CallerPool) \cup ToSet(ArgRegs)) = {}
    /\ ReachWords \in Nat /\ MinBackup \in Nat /\ BufferWords \in Nat

\* What the IR passes on is well formed here: the parser does not check it.
\* A jump to the entry block would run the prologue again.
ASSUME ProgramAssumption ==
    IsFiniteSet(Program) /\ \A f \in Program :
        /\ f.params \in Seq(ToSet(f.params)) /\ IsFiniteSet(f.unlisted)
        /\ f.body \in Seq(ToSet(f.body)) /\ f.body # <<>>
        /\ \A b \in Block(f) : /\ f.body[b] \in Seq(ToSet(f.body[b])) /\ f.body[b] # <<>>
                               /\ Successors(f, b) \subseteq Block(f) \ {1}

\* A terminator is the last instruction of its block and nothing else is.
ASSUME InstructionAssumption ==
    \A f \in Program : \A b \in Block(f) : \A i \in DOMAIN f.body[b] :
        LET inst == f.body[b][i]
        IN  /\ inst.args \in Seq(ToSet(inst.args)) /\ inst.to \in Seq(ToSet(inst.to))
            /\ inst.op \in {"jmp", "br", "ret"} <=> i = Len(f.body[b])
            /\ inst.op = "jmp" => inst.to # <<>>
            /\ inst.op \notin {"store", "call", "jmp", "br", "ret"} => inst.res # NoValue

VARIABLES
    fn, phase,                        \* "allocate", "run" or "returned"
    start, end, calls, queue, active, callerStack, calleeStack,
    usedCallee, alloc, nextSlot,      \* the state of the linear scan
    block, next,                      \* the instruction to execute
    regs, mem,                        \* the tags of registers and words
    seen                              \* <<expected, found>> of the last reads

scan    == <<start, end, calls, queue, active, callerStack, calleeStack,
             usedCallee, alloc, nextSlot>>
machine == <<block, next, regs, mem, seen>>
vars    == <<fn, phase, scan, machine>>

AnyValue == UNION {Values(f) : f \in Program}

Scan == INSTANCE LinearScanList WITH
            Value <- AnyValue,
            MaxIndex <- Max({MaxIndexOf(f) : f \in Program})

RegName == {"t0", "t1"} \cup ToSet(CallerPool) \cup ToSet(CalleePool) \cup ToSet(ArgRegs)

Holds(v)  == <<"value", v>>
Coming(v) == <<"phi", v>>
Kept(r)   == <<"caller's", r>>
Buffer(k) == <<"buffer", k>>
Junk      == <<"junk">>

-----------------------------------------------------------------------------
(* The frame: ra and fp, the callee-saved registers, the spill slots, the   *)
(* backup slots, the alloca buffers, and sp below them.                     *)

Saved == Keep(CalleePool, usedCallee)

SavedAt(i)   == -2 - i
SpillAt(n)   == -2 - Len(Saved) - (n + 1)

\* An alloca that DCE took out of its block keeps a buffer too; nothing knows its
\* address, so it is left out.
Allocas == {x.idx : x \in {y \in Insts(fn) : y.inst.op = "alloca"}}

BackupSlots ==
    Max({MinBackup, Len(fn.params)} \cup {Len(Phis(fn, b)) : b \in Block(fn)}
          \cup {Len(x.inst.args) : x \in {y \in Insts(fn) : y.inst.op = "call"}})

BackupAt(i) == -2 - Len(Saved) - nextSlot - BackupSlots + (i - 1)

\* Mutant: the offset of a buffer is taken before it is moved down.
BufferAt_Before(i) == BackupAt(1) - BufferWords * Cardinality({j \in Allocas : j < i})

\* The lowest word of the buffer of the alloca at index i.
BufferAt(i) == BackupAt(1) - BufferWords * Cardinality({j \in Allocas : j <= i})

FrameWords ==
    LET needed == -(BackupAt(1) - BufferWords * Cardinality(Allocas))
    IN  needed + (needed % 2)

StackPointer == -FrameWords

-----------------------------------------------------------------------------
(* The machine, a record [regs, mem, seen], and its moves.  A place is a    *)
(* register, a word of the frame, or a word addressed from sp.              *)

Reg(r)  == [kind |-> "reg", at |-> r]
Word(w) == [kind |-> "word", at |-> w]
OnTop(w) == [kind |-> "sp", at |-> w]

\* Where the linear scan put v.
Home(v) == IF alloc[v].kind = "reg" THEN Reg(alloc[v].reg) ELSE Word(SpillAt(alloc[v].slot))

\* A load or store out of reach computes its address in a scratch register.
Addressed(m, addr, offset) ==
    IF offset < -ReachWords THEN [m EXCEPT !.regs[addr] = Junk] ELSE m

Load(m, dest, offset) ==
    LET n == Addressed(m, IF dest = "t0" THEN "t1" ELSE "t0", offset)
    IN  [n EXCEPT !.regs[dest] = n.mem[offset]]

Store(m, src, offset) ==
    LET n == Addressed(m, IF src = "t0" THEN "t1" ELSE "t0", offset)
    IN  [n EXCEPT !.mem[offset] = n.regs[src]]

Move(m, dest, src) == [m EXCEPT !.regs[dest] = m.regs[src]]

\* load_operand: the machine after it, and the register that has what p holds.
Get(m, p, scratch) == IF p.kind = "reg" THEN m ELSE Load(m, scratch, p.at)
Got(p, scratch)    == IF p.kind = "reg" THEN p.at ELSE scratch

\* store_result.
Put(m, p, from) ==
    CASE p.kind = "reg"  -> Move(m, p.at, from)
      [] p.kind = "word" -> Store(m, from, p.at)
      [] p.kind = "sp"   -> [m EXCEPT !.mem[p.at] = m.regs[from]]

\* An instruction reads register r and expects v there.
See(m, v, r) == [m EXCEPT !.seen = @ \cup {<<Holds(v), m.regs[r]>>}]

\* v gets a new value in register r: what held the old one is out of date.
Define(m, v, r) ==
    LET Fresh(tag) == IF tag = Holds(v) THEN Junk ELSE tag
    IN  [m EXCEPT !.regs = [q \in DOMAIN m.regs |-> IF q = r THEN Holds(v) ELSE Fresh(m.regs[q])],
                  !.mem = [w \in DOMAIN m.mem |-> Fresh(m.mem[w])]]

\* The code that brings what from holds to another place, through register via
\* when it is in memory; it reads value there, and carries it for a phi.
Copy(from, via, to) == [from |-> from, via |-> via, to |-> to, value |-> NoValue, phi |-> NoValue]
Pass(v, to, phi)    == [from |-> Home(v), via |-> "t0", to |-> to, value |-> v, phi |-> phi]

Copied(m, c) ==
    LET r == Got(c.from, c.via)
        got == Get(m, c.from, c.via)
        put == Put(IF c.value = NoValue THEN got ELSE See(got, c.value, r), c.to, r)
    IN  IF c.phi = NoValue THEN put
        ELSE IF c.to.kind = "reg" THEN [put EXCEPT !.regs[c.to.at] = Coming(c.phi)]
        ELSE [put EXCEPT !.mem[c.to.at] = Coming(c.phi)]

\* The machine after a list of copies.
Run(m, copies) ==
    LET after[i \in 0..Len(copies)] == IF i = 0 THEN m ELSE Copied(after[i - 1], copies[i])
    IN  after[Len(copies)]

-----------------------------------------------------------------------------
(* The prologue, the epilogue and the parameters                            *)

Prologue(m) ==
    LET linked == [m EXCEPT !.mem[-1] = Kept("ra"), !.mem[-2] = Kept("fp")]
    IN  Run(linked, [i \in 1..Len(Saved) |-> Copy(Reg(Saved[i]), "t0", Word(SavedAt(i)))])

SaveParams(m) ==
    LET inRegs == Min({Len(fn.params), Len(ArgRegs)})
        From(i) == IF i <= inRegs THEN BackupAt(i) ELSE i - Len(ArgRegs) - 1
        backup == [i \in 1..inRegs |-> Copy(Reg(ArgRegs[i]), "t0", Word(BackupAt(i)))]
        place == [i \in 1..Len(fn.params) |-> Copy(Word(From(i)), "t0", Home(fn.params[i]))]
    IN  Run(Run(m, backup), place)

\* Mutant: the epilogue counts the saved registers from 0.
Epilogue_FromZero(m) ==
    Run(m, [i \in 1..Len(Saved) |-> Copy(Word(SavedAt(i - 1)), Saved[i], Reg(Saved[i]))])

Epilogue(m) ==
    Run(m, [i \in 1..Len(Saved) |-> Copy(Word(SavedAt(i)), Saved[i], Reg(Saved[i]))])

-----------------------------------------------------------------------------
(* Instructions                                                             *)

Operand(m, v, scratch) == See(Get(m, Home(v), scratch), v, Got(Home(v), scratch))

\* The result is computed in get_dest's register, then stored.
Result(m, v, scratch) ==
    LET dest == Got(Home(v), scratch) IN Put(Define(m, v, dest), Home(v), dest)

\* Both operands are loaded before either is read.
BothOperands(m, a, b) ==
    LET loaded == Get(Get(m, Home(a), "t0"), Home(b), "t1")
    IN  See(See(loaded, a, Got(Home(a), "t0")), b, Got(Home(b), "t1"))

Nullary(m, v)      == Result(m, v, "t0")
Unary(m, v, a)     == Result(Operand(m, a, "t0"), v, "t1")
Binary(m, v, a, b) == Result(BothOperands(m, a, b), v, "t0")

\* The callee may write every register that is not callee-saved.
CallerClobbered == RegName \ ToSet(CalleePool)

\* Arguments go to the backup slots, then to the argument registers and,
\* from the top of the stack up, to memory.
Call(m, inst) ==
    LET args == inst.args
        n == Len(ArgRegs)
        backup == [i \in 1..Len(args) |-> Pass(args[i], Word(BackupAt(i)), NoValue)]
        To(i) == IF i <= n THEN Reg(ArgRegs[i]) ELSE OnTop(StackPointer + i - n - 1)
        pass == [i \in 1..Len(args) |->
                   Copy(Word(BackupAt(i)), IF i <= n THEN ArgRegs[i] ELSE "t0", To(i))]
        passed == Run(Run(m, backup), pass)
        arrived == {<<Holds(args[i]), IF i <= n THEN passed.regs[ArgRegs[i]]
                                      ELSE passed.mem[To(i).at]>> : i \in DOMAIN args}
        back == [passed EXCEPT
                   !.regs = [r \in RegName |-> IF r \in CallerClobbered THEN Junk ELSE passed.regs[r]],
                   !.seen = @ \cup arrived]
    IN  IF inst.res = NoValue THEN back
        ELSE Put(Define(back, inst.res, ArgRegs[1]), Home(inst.res), ArgRegs[1])

\* The phis of b that take an operand from p.
Taking(p, b) == Keep(Phis(fn, b), {i \in ToSet(Phis(fn, b)) : ComesFrom(i, p)})

\* Mutant: phi results are written one after the other, without the backup.
EdgeMoves_Direct(m, p, b) ==
    LET phis == Taking(p, b)
    IN  Run(m, [i \in 1..Len(phis) |-> Pass(Incoming(phis[i], p), Home(phis[i].res), phis[i].res)])

\* lower_edge_phis from p to b: all operands to the backup slots, then all
\* results from them.
EdgeMoves(m, p, b) ==
    LET phis == Taking(p, b)
        read == [i \in 1..Len(phis) |-> Pass(Incoming(phis[i], p), Word(BackupAt(i)), phis[i].res)]
        write == [i \in 1..Len(phis) |-> Copy(Word(BackupAt(i)), "t0", Home(phis[i].res))]
    IN  Run(Run(m, read), write)

\* Once the edge is taken, what was coming for a phi is its value.
Arrive(m, p, b) ==
    LET results == {i.res : i \in ToSet(Taking(p, b))}
        Now(tag) == IF \E v \in results : tag = Holds(v) THEN Junk
                    ELSE IF tag[1] = "phi" THEN Holds(tag[2]) ELSE tag
        moved == EdgeMoves(m, p, b)
    IN  [moved EXCEPT !.regs = [r \in DOMAIN moved.regs |-> Now(moved.regs[r])],
                      !.mem = [w \in DOMAIN moved.mem |-> Now(moved.mem[w])]]

-----------------------------------------------------------------------------

Machine == [regs |-> regs, mem |-> mem, seen |-> {}]
Becomes(m) == regs' = m.regs /\ mem' = m.mem /\ seen' = m.seen

Allocate ==
    /\ phase = "allocate"
    /\ Scan!Place
    /\ UNCHANGED <<fn, phase, machine>>

\* The caller has put the arguments where they belong.
ArgsPassed ==
    [regs |-> [r \in RegName |->
                 IF r \in ToSet(CalleePool) THEN Kept(r)
                 ELSE IF \E i \in DOMAIN fn.params : i <= Len(ArgRegs) /\ ArgRegs[i] = r
                      THEN Holds(fn.params[CHOOSE i \in DOMAIN ArgRegs : ArgRegs[i] = r])
                      ELSE Junk],
     mem |-> [w \in StackPointer..Max({-1, Len(fn.params) - Len(ArgRegs) - 1}) |->
                 IF w >= 0 THEN Holds(fn.params[w + Len(ArgRegs) + 1])
                 ELSE IF \E i \in Allocas : w \in BufferAt(i)..(BufferAt(i) + BufferWords - 1)
                      THEN Buffer(CHOOSE i \in Allocas : w \in BufferAt(i)..(BufferAt(i) + BufferWords - 1))
                      ELSE Junk],
     seen |-> {}]

Enter ==
    /\ phase = "allocate"
    /\ queue = <<>>
    /\ phase' = "run"
    /\ Becomes(SaveParams(Prologue(ArgsPassed)))
    /\ UNCHANGED <<fn, scan, block, next>>

Inst == fn.body[block][next]

\* The instructions that go on to the next one.
Straight ==
    /\ phase = "run"
    /\ LET args == Inst.args
           m == Machine
       IN  \/ Inst.op \in {"const", "alloca"} /\ Becomes(Nullary(m, Inst.res))
           \/ Inst.op \in {"not", "load"} /\ Becomes(Unary(m, Inst.res, args[1]))
           \/ Inst.op \in {"add", "cmp"} /\ Becomes(Binary(m, Inst.res, args[1], args[2]))
           \/ Inst.op = "store" /\ Becomes(BothOperands(m, args[1], args[2]))
           \/ Inst.op = "call" /\ Becomes(Call(m, Inst))
    /\ next' = next + 1
    /\ UNCHANGED <<fn, phase, scan, block>>

GoTo(m, b) ==
    /\ Becomes(Arrive(m, block, b))
    /\ block' = b
    /\ next' = Len(Phis(fn, b)) + 1
    /\ UNCHANGED <<fn, phase, scan>>

Jump == phase = "run" /\ Inst.op = "jmp" /\ GoTo(Machine, Inst.to[1])

\* The condition is read before the copies of either edge.
Branch ==
    /\ phase = "run"
    /\ Inst.op = "br"
    /\ LET c == Inst.args[1]
           m == Operand(Machine, c, "t0")
       IN  \E b \in ToSet(Inst.to) : GoTo(m, b)

\* The returned value is moved to a0; a ret without one moves nothing.
ToResult(m, v) == Move(Get(m, Home(v), "t0"), ArgRegs[1], Got(Home(v), "t0"))

Leave(m, args) ==
    IF args = <<>> THEN Epilogue(m)
    ELSE See(Epilogue(ToResult(m, args[1])), args[1], ArgRegs[1])

Return ==
    /\ phase = "run"
    /\ Inst.op = "ret"
    /\ Becomes(Leave(Machine, Inst.args))
    /\ phase' = "returned"
    /\ UNCHANGED <<fn, scan, block, next>>

Interval(f) ==
    LET live == UNION {{<<v, i>> : i \in LivePoints(f, v)} : v \in Values(f)}
        liveIn == [b \in Block(f) |-> {v \in Values(f) : <<v, FirstIndex(f, b)>> \in live}]
        liveOut == [b \in Block(f) |-> UNION {liveIn[s] : s \in Successors(f, b)}]
    IN  [v \in Values(f) |-> [from |-> IntervalStart(f, liveIn, v),
                              to   |-> IntervalEnd(f, liveIn, liveOut, v)]]

\* The orders by increasing start; values that start together in any order.
ByStart(f) ==
    LET First(S) == {v \in S : \A u \in S : start[v] <= start[u]}
        orders[i \in 0..Cardinality(Values(f))] ==
            IF i = 0 THEN {<<>>}
            ELSE UNION {{Append(q, v) : v \in First(Values(f) \ ToSet(q))} : q \in orders[i - 1]}
    IN  orders[Cardinality(Values(f))]

Init ==
    /\ fn \in Program
    /\ phase = "allocate"
    /\ LET interval == Interval(fn)
       IN  /\ start = [v \in Values(fn) |-> interval[v].from]
           /\ end = [v \in Values(fn) |-> interval[v].to]
    /\ calls = CallIndices(fn)
    /\ queue \in ByStart(fn)
    /\ active = <<>>
    /\ callerStack = Reverse(CallerPool)
    /\ calleeStack = Reverse(CalleePool)
    /\ usedCallee = {}
    /\ alloc = [v \in Values(fn) |-> Scan!LS!Unplaced]
    /\ nextSlot = 0
    /\ block = 1
    /\ next = Len(Phis(fn, 1)) + 1
    /\ regs = <<>> /\ mem = <<>> /\ seen = {}

Next == Allocate \/ Enter \/ Straight \/ Jump \/ Branch \/ Return

Spec == Init /\ [][Next]_vars

-----------------------------------------------------------------------------

\* What the lowering relies on and the parser does not check either.  Static
\* single assignment: a value is a parameter or the result of one instruction;
\* one that is read is read on a path from there, and only parameters are read
\* on a path from the entry.  Phis are first in their blocks, none is in the
\* entry block, and each has an operand for every predecessor.  Every parameter
\* and every phi is read; where a result nobody reads is the first of its block,
\* what is live there has its definition above.
Strict(f) ==
    /\ NoValue \notin Values(f) /\ IsInjective(f.params) /\ ToSet(f.params) \cap Listed(f) = {}
    /\ \A x, y \in Insts(f) : x.inst.res = y.inst.res /\ x.inst.res # NoValue => x = y
    /\ \A x \in Insts(f) :
          /\ ToSet(x.inst.args) \subseteq Values(f)
          /\ x.inst.op \in {"not", "load", "br"} => x.inst.args # <<>>
          /\ x.inst.op \in {"add", "cmp", "store"} => Len(x.inst.args) >= 2
          /\ x.inst.op \in {"store", "jmp", "br", "ret"} => x.inst.res = NoValue
          /\ x.inst.op = "phi" => /\ x.inst.from \in Seq(Block(f))
                                 /\ Len(x.inst.from) = Len(x.inst.args)
                                 /\ UseIndices(f, x.inst.res) # {}
    /\ \A v \in Listed(f) :
          UseIndices(f, v) # {} => After(f, DefIndex(f, v)) \cap LivePoints(f, v) # {}
    /\ \A v \in ToSet(f.params) : UseIndices(f, v) # {}
    /\ \A v \in Values(f) : 1 \in LivePoints(f, v) => v \in ToSet(f.params)
    /\ Phis(f, 1) = <<>>
    /\ \A b \in Block(f) :
          /\ \A i, j \in DOMAIN f.body[b] :
                i < j /\ f.body[b][j].op = "phi" => f.body[b][i].op = "phi"
          /\ \A s \in Successors(f, b) : \A i \in ToSet(Phis(f, s)) : ComesFrom(i, b)
          /\ f.body[b][1].res # NoValue /\ UseIndices(f, f.body[b][1].res) = {} =>
                \A w \in Values(f) :
                    FirstIndex(f, b) \in LivePoints(f, w) => DefIndex(f, w) < FirstIndex(f, b)

\* No two operands that are read together are both in memory with the second one
\* out of reach.
PairsInReach ==
    \A x \in Insts(fn) : x.inst.op \in {"add", "cmp", "store"} =>
        \/ Home(x.inst.args[1]).kind = "reg"
        \/ Home(x.inst.args[2]).kind = "reg"
        \/ Home(x.inst.args[2]).at >= -ReachWords

(***************************************************************************)
(* Whatever an instruction reads is the value the IR says: an operand, a   *)
(* call argument in its register or on the stack, a phi's operand on the   *)
(* edge, the returned value.  It takes the intervals, the linear scan, the *)
(* frame layout, the parameter copies, the edge copies and the scratch     *)
(* registers to be right together (regalloc.rs:70-314, select.rs:115-490). *)
(***************************************************************************)
OperandsInPlace == \A s \in seen : s[1] = s[2]

(***************************************************************************)
(* The function leaves the callee-saved registers and the saved ra and fp  *)
(* as its caller had them, on every path (select.rs:166-190).              *)
(***************************************************************************)
CallerStatePreserved ==
    phase = "returned" =>
        /\ \A r \in ToSet(CalleePool) : regs[r] = Kept(r)
        /\ mem[-1] = Kept("ra") /\ mem[-2] = Kept("fp")

(***************************************************************************)
(* No code of the lowering writes into an alloca buffer: it belongs to the *)
(* program's stores alone (select.rs:70-90, 449-463).                      *)
(***************************************************************************)
BuffersUntouched ==
    phase \in {"run", "returned"} =>
        \A i \in Allocas : \A w \in BufferAt(i)..(BufferAt(i) + BufferWords - 1) : mem[w] = Buffer(i)
=============================================================================
