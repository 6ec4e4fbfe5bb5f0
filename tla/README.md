# dqir in TLA+

dqir is a compiler backend: a textual SSA intermediate representation is
parsed, optimised function by function, given registers, lowered to RISC-V
instructions, encoded, and run natively or in an interpreter. A graph of
memoised queries drives all of this so that an edit recompiles only what it
touches. This directory holds TLA+ modules of the parts where the order of
things decides whether the code is right, TLC runs that check them on small
instances, and TLAPS proofs about the register allocator, its liveness analysis,
the generated code, the optimizer and the query graph.

## Inventory

| Component (source) | State | Operations | What makes it correct |
|---|---|---|---|
| Linear scan, `backend/src/riscv/regalloc.rs:217-314` | sorted intervals, active list, two free lists, allocations, slot counter, used callee-saved set | one iteration of the loop: expire, pop, fall back, insert; or evict; or spill | overlapping intervals never share a register or slot; a value alive across a call is never in a caller-saved register; no register is lost; spilling only under pressure; the prologue hears of every callee-saved register |
| Liveness and intervals, `regalloc.rs:30-215` | live-in and live-out sets, `changed` | numbering, def/use sets, visiting a block, a new pass, interval ends | the fixpoint is reached and is path liveness; intervals cover it |
| Instruction selection, `select.rs` | frame offsets, instruction list | prologue, parameter copies, operands and results, edge copies for phis, calls, branches, epilogue | each instruction finds its operands; the caller's registers survive; nothing writes into a buffer |
| Emission, `emit.rs`, `inst.rs` | label offsets, the current pc | expansion of pseudo instructions, two passes, the fields of each word | the words do what the list of instructions says |
| Interpreter, `backend/src/vm.rs` | registers, pc, memory | one step per word | the fields it reads are those the emitter wrote; the ISA's meaning of each word |
| Optimizer, `ir/src/opt.rs` | the arena, the lists of the blocks, `changed` | constant folding, CSE, DCE, repeated | what is folded is what the chosen instructions would compute; results and calls are preserved; no reader is stranded; the rounds end |
| Query graph and `Session`, `query/src/lib.rs` | the text, Salsa's memo table | `update_source`, `compile_fn`, `compile_module`, the tracked functions | replies fit the current text; work is not repeated; code does not change unless its function does |
| Query log, `query/src/db.rs` | a `Vec` behind a mutex | append, read, clear | none the compiler depends on |
| IR data, `ir/src/{arena,function,inst,types,module}.rs` | arenas, name maps | create block, value, instruction | ids stay valid: arenas only grow |
| Lexer, parser, `ir/src/{lexer,parser}.rs` | position, the function being read, maps from its names to values and blocks | tokens; externs, headers with a scan for labels, labels, instructions | tokens are the longest lexemes; a name used before its definition gets one value, filled in once; only undeclared names are refused; no loop hangs |
| Printer, `ir/src/printer.rs` | none | formatting | parsing what was printed gives the same module, arena by arena |
| Loader, CLI, benchmarks | none | map memory, read files, call the libraries | none of their own |

How they interact. `Session` sets the text (a Salsa input) and asks for `emit`
of a function or for `link` of the module. Queries call queries:
`link` -> `parse_module`, `emit`(f)...; `emit` -> `schedule` ->
`select_instructions` -> `allocate_registers` and `optimize_ir` -> `fn_ir` ->
`parse_module`. Everything else is a pure call: the optimizer rewrites a clone
of the function; the allocator's result and the function go to the lowerer;
its list of instructions goes to the emitter; the bytes go to the interpreter
or to executable memory. There is one thread; nothing is persisted.

What is hard here is therefore neither concurrency nor crashes, but

* nondeterminism: the allocator and the lowerer iterate `HashMap`s, so
  intervals that start together come in any order (and two compilations of one
  function may differ);
* long sequences: evictions followed by insertions in a list kept sorted,
  in-place fixpoints, rounds of passes that make work for each other;
* agreement between parts: intervals, allocation, frame layout, edge copies,
  parameter copies and scratch registers must all be right together;
* stale state: memos of many revisions behind one reply, instructions in the
  arena that no block lists any more, registers handed over by eviction;
* limits: pools that run dry, offsets and constants that outgrow their fields.

`PROJECT.json` lists each of these hazards at its line, with the properties
that watch it.

## Plan

Order of the modules, most important behaviour first, and what composes what:

1. `LinearScan` (abstract: sets), `LinearScanList` (the code's containers,
   implements `LinearScan`), `LinearScanProofs`, `LinearScanListProofs`.
   **Done.**
2. `IR`, `IRProofs`, `Liveness`, `LivenessProofs`: what the allocator is fed.
   **Done.**
3. `Codegen`: `IR` + `LinearScanList` + the lowering, executed; `CodegenProofs`:
   what it leaves alone, and that operands are in place. **Done.**
4. `QuerySession`, `QuerySessionProofs`. **Done.**
5. `MachineCode` and `Isa` (the instructions and what they compute),
   `Assembly` (abstract), `Emitter` (implements it). **Done** for every
   instruction the compiler can build.
6. `Optimizer` (the passes), `OptimizerProofs`; `Lowering` (the instructions
   chosen) and `Compiled`, which runs a function through both and `Isa`.
   **Done** for integer types.
7. `Lexer`, `Parser`, `Printer`, and `FrontEnd`, which composes them into the
   round trip. **Done.**
8. Next: the values of `Codegen` as numbers, with the instructions of
   `Lowering`, so that one run goes from a function to its result; float
   immediates and types; the arguments of a run of the interpreter.

Proofs, in this order: the invariants of `LinearScan`; that `LinearScanList`
implements `LinearScan`; that the sets of `Liveness` are always below path
liveness and equal to it when the loop stops; that the intervals cover what is
live; the consistency of memos in `QuerySession`, from which `ReplyIsFresh`
follows; what the passes of `Optimizer` leave behind; what the code of `Codegen`
keeps for its caller and for the program's buffers; that its allocation is that
of `LinearScanList` and keeps values with overlapping intervals apart; and from
these, for functions without the two defects found, `OperandsInPlace`.
**Done.**

## Modules

`LinearScan` - the allocator's loop. `Place(v)` is one iteration for the next
interval `v`: `Live` and `Expired` are the expire loop, `CallerAfter` and
`CalleeAfter` the free lists after it, `Usable` the choice of a pool with its
fallback, and the three disjuncts `TakeFree`, `SpillActive`, `SpillSelf` the
three ways the code goes on. `Candidates` is the one thing the code leaves to
chance: which of the intervals that start together is next. The active list
and the free lists are sets, so "the first of those that end last" becomes any
of them.

`LinearScanList` - the same loop with the sorted `Vec`, `rposition`,
`partition_point` and the stacks. `ImplementsLinearScan` is the refinement: the
mapping forgets the order.

`IR` - functions as records; the instruction numbering, def and use sets and
the interval formula of the allocator, as operators of a function.

`Liveness` - the `while changed` loop, one action per block visited
(`VisitBlock`) and one at the end of a pass (`EndPass`). `live_in` and
`live_out` are updated in place, so a block sees what this pass has done to
its successors. The reference it is compared with is liveness along paths.

`Codegen` - a function is allocated (the actions of `LinearScanList`, in every
tie order), then its lowered code runs, one action per IR instruction, each a
list of copies in the order `select.rs` emits them: `Copied` brings what one
place holds to another, through a scratch register when it is in memory, and
`Run` takes a list of them (parameters, arguments, phis, saved registers).
Contents of registers
and frame words are tags saying WHOSE value is there, so "the operand is
right" is `OperandsInPlace`: all that was read is what should have been. The
frame (`SavedAt`, `SpillAt`, `BackupAt`, `BufferAt`, `FrameWords`) is the
layout of `with_regalloc`, in words. Offsets below `-ReachWords` need a second
scratch register, as offsets below -2048 do in the code.

`QuerySession` - the tracked functions as a table of what each reads
(`Reads`, in order) and returns (`Results`); `Session`'s operations; and Salsa
as an external component: a memo has a value, its dependencies, `verified` and
`changed` revisions, and is validated by walking the dependencies before it is
recomputed (`Fetch`, `Verify`, `Read`, `Finish`, `Panic`). Function bodies are
reduced to what the queries can tell apart; the allocator's result carries a
`Tie`, the choice its `HashMap` made.

`Words` - the widths: registers of 8 bytes and words of 4, where the bits of a
byte and of an immediate are parameters. `MachineCode` - the instructions of
`inst.rs`. `Isa` - what they compute, on registers and on memory of bytes; every operation of the interpreter's
tables is there once (`Arith`), and so is the memory (`Loaded`, `Stored`).

`Assembly` - what a list of `MInst` means, labels and all. `Emitter` - the
expansion of `Li64`, `Call` and `Ret` with its overflow (`Overflowing`), label
offsets (pass 1) and the panic over a missing one (`Unlabelled`), the fields of
each word (pass 2), and the interpreter, which fetches a word and finds the
operation for its opcode, `funct3` and `funct7` in tables of its own
(`Exec33`, `Exec13`, ...). The two sets of tables are translated apart, the
encoder's from `emit.rs` and the decoder's from `vm.rs`, so that they can
disagree. `before` is a history variable: the registers when the current
`MInst` began, which is what the refinement mapping shows. Memory is written
by the last word of an `MInst` only and needs no such variable.

`Lowering` - what `lower_inst` chooses for an operation, a type and an offset:
the word instructions for `i32`, the pairs for comparisons, the scratch
register for offsets out of reach.

`Optimizer` - `ConstantFold`, `Cse`, `Dce` as actions, `changed` deciding on
another round. `Merge` is one turn of the loop of CSE with its two maps
(`seen_insts` per block, `remap` per function), `MergeList` and `Merged` the
loops around it; `Resolve` follows `remap`. `Loops` has `Keep`, the loop that
leaves or takes out entries of a `Vec`, for DCE and for the allocator.
`Compiled` gives a function a meaning (`Outcome`: its result and its calls):
each instruction runs as `Lowering` lowers it and `Isa` executes it. So a pass
is compared before and after not with another idea of the IR, but with what
the compiler makes of it, width by width.

`Lexer` - a text is a sequence of glyphs, one per character except that a
keyword, a name or a number whose spelling nothing depends on is one glyph.
`Tokenize` is the scanner; below it stands what a lexeme is, with no scanning
(`IsLexeme`), for `TokensAreLexemes`. `Parser` - one action for each turn of
the two loops of `parse_module` and `parse_func`: `ParseExtern`,
`ParseHeader` (with the scan for labels), `ParseLabel`, `ParseInstruction`,
`FinishFunction`, `FinishModule`. Within a turn a statement is read slot by
slot (`Slot`) by the shape its opcode has (`Shape`); `Reference` is
`get_or_create_val`, `KnownBlock` and `BlockRef` are `parse_block_ref`, `Bind`
fills in the placeholder. `FrontEnd` finds uses and declarations, of values and
of blocks, in the tokens, without the maps of the parser (`Uses`, `BlockSlots`,
`Declarations`), and `NamesResolve` compares operand by operand. `Printer` - a module as
glyphs. `FrontEnd` - parse, print, parse again; `stage` says which time it is,
`origin` keeps what the first time gave.

`MC*` modules give the constants values: the functions, texts and lists that
are checked.

## Runs

| Run | Question and result |
|---|---|
| `linear_scan` | Every assignment of intervals in 0..3 to four values, every set of calls, every tie order, one register of each class. All invariants hold and every value is placed. Four values and two registers are enough for an eviction followed by another one, and for a value that inherits the register of an evicted one. 870,000 states. |
| `linear_scan_list` | The same with the code's containers and two callee-saved registers: the list stays sorted and no register is twice in the three lists (`ListsSound`), and every step is one of `LinearScan`. Values are interchangeable in it (symmetry; the run has no liveness property). |
| `liveness` | 607 functions of three blocks: loops, both branch targets equal, irreducible loops, unreachable edges, phis in either block. The fixpoint ends, is path liveness, and the intervals of values that may clobber each other overlap. |
| `codegen` | Phi exchanges and rotations on loop edges, critical edges, values across calls, six values in four registers, arguments on the stack, buffers, returns with and without a value. Everything read is in place, the caller's registers survive, the buffers are the program's. |
| `query_session` | Up to three texts per session out of six (an edit, an edit that parses differently but optimises to the same, a removal, a function defined twice, a syntax error), requests in between, two tie orders. |
| `optimizer` | Typed functions of 8, 16, 32 and 64 bits: straight lines, every foldable operation on the borders of a register, for `i32` on those of a word where the result is one too, a diamond, one buffer accessed in and out of immediate reach, results nobody named; eleven arguments around the borders. 25,000 states. |
| `emitter` | Constants around every power of two, as values, as branch conditions and as addresses; every instruction on operands of every kind, every immediate, every pair of a store and a load; branches and jumps with the code's 13 and 21 bits around every field border and up to the last distance in reach; lists without the label of a branch or jump that is run, or is dead; debug and release builds. 41,000 states. |
| `front_end` | 14,200 texts: every text of up to three glyphs, bodies of up to four lines with three parameter lists, pairs of functions of one name, every instruction once, numbers in all forms, externs, missing ends. Every operand, value or block, is the one its name declares, and a refusal for a name has an undeclared one to show. 99,100 states. |
| `codegen_unused`, `codegen_far`, `codegen_stackarg`, `optimizer_memory` | The four findings below: each violates the one property it checks. |

Bounds. `MaxIndex`, the size of the pools and of `Value` bound the allocator;
the proofs remove them. `ReachWords`, `MinBackup` and `BufferWords` shrink the
frame of `Codegen` by the same proportion, so that a frame of a few words
already has spill slots out of reach. `MaxRevision` bounds the texts a session
is given: three are needed for a memo that skips a revision and is validated
in the next. `ByteBits = 2` and `ImmBits = 3` make registers of 16 bits, words
of 8 and immediates of 3: as in the code a constant may take several rounds of
shifting, a word is narrower than a register and wider than an immediate, and
shift counts have a power of two of values. `Huge` is a number no `i64` holds.
Three glyphs are enough for each token to meet the one after it, and a fourth
line of a body for a use, its definition, a branch and its label in either
order. `Program` and `Source` are what is compiled. No run checks for deadlock:
each system stops when its work is done, and the liveness properties say that
it does not stop before.

Fairness. Each component is a loop or a recursive call on its caller's thread:
as long as its next step is possible it is taken. That is weak fairness of the
component's own steps (`FairSpec`); nobody is obliged to start a request or to
change the text. `Optimizer` and `Emitter` write weak fairness out as
"infinitely often finished, or infinitely many steps". `FrontEnd` needs none:
`EveryTurnAdvances` says that a turn takes a token or ends a loop, and a text
has finitely many tokens, so that the loops end follows.

## Proofs

### The loop over sets: `LinearScanProofs`

For every set of values, both register pools of any size, every assignment of
intervals and every set of call positions:

* `Invariant`: `Spec => []IInv`, where `IInv` is `TypeOK /\ SweepOrder /\
  PoolConserved /\ NoSharing`. `NoSharing` alone is not inductive: that a free
  register is not held by a running value needs `PoolConserved` (free
  registers and those of active values are apart and together all), and that
  an expired register is free of conflicts needs `SweepOrder` (what is still
  to come starts no earlier than anything reached, so what has ended ended for
  all of it). `InitIInv` and `StepIInv` are the base and the step; the step is
  split by `TakeFree`, `SpillActive`, `SpillSelf`, and under each by conjunct.
* from it, as theorems of `Spec`: `TypeCorrect`, `NoSharingAlways`,
  `PoolConservedAlways`; `CallSafeAlways` and `CalleeSavedRecordedAlways`
  (the evicted register was recorded when it was first taken, which is why
  eviction need not record it again); `SlotsDisjointAlways` (slot numbers are
  below `nextSlot`); and the action properties `PlacementOnlyDegradesAlways`,
  `SpillNeedsPressureAlways` and `SpillsFurthestEndAlways`. The last needs
  `CallSafe`: a value that must have a callee-saved register may only evict
  another such value, yet what is spilled still ends last of ALL running
  intervals, because a running value in a caller-saved register ends before
  the next call.

They rest on `PoolsAssumption` (the pools are disjoint, indices are naturals)
and on nothing else.

### The loop over lists implements it: `LinearScanListProofs`

* `ListInvariant`: `ListInv` is `Intervals` (the sorted intervals are in
  order, none twice), `ActiveSound` (the active `Vec` is sorted by end, its
  values and registers are distinct, its entries agree with the allocations
  and are not in the stacks) and `StacksSound` (each stack has registers of
  its own pool, none twice). Each part needs the others: that the register
  popped is new in the `Vec` needs the stacks apart from it; that
  `partition_point` keeps the order needs the order; that the expire loop
  frees exactly the registers of the expired set needs entry and allocation to
  agree; and pushing them keeps a stack free of repetitions only because
  registers in the `Vec` are distinct.
* `Implements` is `Spec => ImplementsLinearScan`. `PlaceStep` shows that every
  way the code goes on is the disjunct of `LinearScan` of the same name. Two
  arguments carry it. The head of the sorted list is a candidate, since
  nothing in it starts earlier. And `rposition` from the end of a list sorted
  by end finds an entry that ends last among the eligible, so what it evicts
  is one of `Victims`; when it finds an entry that ends no later than the new
  interval, neither does any other.
* `ListsSoundAlways` follows from the invariant. `ListsInherit` draws the
  conclusion: through the refinement, what `LinearScanProofs` proves of the
  sets holds of the lists (`Proved` is `LinearScan` under the mapping).

`Lists` has the lemmas about finite sets of numbers and about sequences that all
the proofs keep needing: least and greatest elements, concatenation, reversal,
popping, removing and inserting at an index, for lists ordered by a relation
(`Chain`). `Keep` of `Loops` is a recursive function; `KeepsExists` and the
lemmas after it say what it computes, by `BoundedInduction`, which is induction
over a set of numbers and not over a formula. `ListPoolsAssumption` is what the constants are in the
source: finitely many values, two finite lists of registers, none of them
twice.

### Liveness: `LivenessProofs`

For every control flow graph:

* `Invariant`: every set is below what its equation asks for (`Below`), every
  block a pass has left without a change is settled (`Behind`), and no
  solution of the equations is smaller (`Least`). `Behind` has to speak of a
  pass still without a change, because a later block updated in place unsettles
  the earlier ones; `Below` is what makes a visit add and never remove.
* `SetsOnlyGrowAlways`; `LeastSolutionAtEnd` (when the loop stops its sets are
  the least solution); and `LiveOnPathsAtEnd`: that solution is what paths of
  blocks read before writing it. One half takes the last block of a path that
  lacks the value, the other shows that what paths read is itself a solution.

They rest on `ProgramAssumption` (a body is a sequence of blocks, jumps stay in
it) and need neither phis nor definitions to be in order.

### Live intervals: `IRProofs` and `LivenessProofs`

For every function in static single assignment form, of any number of blocks
and instructions:

* `FixpointIsLivenessAlways`: what the loop ends with is liveness as `IR` has
  it, on paths of single instructions (`LivePoints`). `LivePoints` takes as
  many steps back from the uses of a value as there are indices;
  `LivePointsLeast` says that this reaches everything, because each step adds
  an index or none is left to add. `Needed(b, k, v)` is the statement between
  the two: what block `b` and the sets of the loop say of the point before its
  `k`th instruction. `NeededIfLive` shows that the needed points are closed
  under the flow, `LiveInIsLive` that the live ones solve the equations.
* `ClobberIsOverlapAlways`: values of which one is written where the other is
  still read get intervals that overlap. `Numbering`, `Ordered` and `IdxUnique`
  are the numbering of the instructions; `EndCovers` and `StartCovers` say that
  an interval ends no earlier and starts no later than a point its value is
  needed at; `WrittenOverlaps` draws the conclusion. It is needed that phis
  read on the edges: the interval of a phi reaches beyond the phis after it,
  which is why phis of one block keep apart although each is defined an index
  later than the one before.

The numbering, the flow of control, `LivePoints` and the lemmas on intervals are
in `IRProofs`, for the proofs about `Codegen` too: `Spans` says that the interval
of a value contains the points it is live at and reaches one index beyond each,
`LiveSpans` and `ResultSpans` what that means within a block.

Besides `ProgramAssumption` they rest on `BlockAssumption` (an entry block;
blocks with their phis first and a terminator last) and on `SsaAssumption`
(each value is defined once, and a result somebody reads is live behind its
definition, as it is when definitions dominate uses). The parser checks
neither; `regalloc.rs` relies on both, and the functions of the `liveness` run
satisfy them, which TLC checks.

### The generated code: `CodegenProofs`

For every function, both pools and the argument registers of any number, any
reach of an immediate, any number of backup slots and any size of buffer:

* `CodegenInvariant`. `CallerStatePreserved` speaks of the return; what is
  inductive is a list of promises. `Safe(m, R, W)` says that machine `m` has the
  tags `R` in its registers and `W` in its words. While the code runs, `R` is
  `Idle` (the callee-saved registers nothing uses are the caller's) and `W` is
  `Promised`: the links, what the prologue saved and the buffers. Behind the
  epilogue `R` is `Callee`, all of them. `Scanned` is what the linear scan must
  give: every value is in a caller-saved register, in one of `used_callee_saved`,
  or in a slot below `num_spill_slots`, whatever was evicted on the way. Neither
  part does without the other: a value in a register the scan did not record
  would break `Idle`, and a slot it did not count lies among the backup slots.
* The lemmas follow the code. `LoadKeeps` and `StoreKeeps`, then `CopiedKeeps`
  and `RunKeeps` (a list of copies to places that promise nothing), then
  `CallKeeps`, `EdgeMovesKeep`, `ArriveKeeps`, and `ResultKeeps`. `FrameFacts`,
  `BackupFacts`, `HomeIsOpen` and `BufferRange` are the frame: slots, backup
  slots and buffers lie apart, and the prologue's words above them. Only a
  scratch register is clobbered by an offset out of reach, which is why these
  hold where `OperandsInPlace` does not. `PrologueKeeps` and `EpilogueRestores`
  are the only steps that change what is promised, `EntrySafe` is where it
  begins.
* `CallerStateIsPreserved` is `Spec => []CallerStatePreserved`, for calls with
  stack arguments too: they are written at `sp`, and the frame has at least as
  many backup slots as a call has arguments, so that they reach the buffers and
  the backup slots and no further.
* `RegisterArgumentsSpareBuffers`: `BuffersUntouched`, for functions whose calls
  pass all arguments in registers. Without that condition it is false, as the
  run `codegen_stackarg` shows; the condition is sufficient, not necessary,
  since the padding of the frame may take one stack argument.
* `AllocationIsLinearScan` is `Spec => Whole!Spec`: what `Codegen` does to the
  variables of the scan is a run of `LinearScanList`. That module scans all its
  values and `Codegen` those of one function, so the mapping pads: the values
  of other functions stay in the queue, behind `fn`'s (`Rest`), with intervals
  that start last, and are never placed. `WholeInit` shows that the order
  `Codegen` starts from is then one of `SortedByStart`, `WholePlace` that an
  iteration is one of `LinearScanList`, and that no instruction touches the
  allocation.
* Through it `ListsInherit` speaks of `Codegen`: `HomesAreApart` (two values with
  one register or one word of the frame have intervals that do not overlap) and
  `CallsAreSpared` (a value whose interval contains a call is not in a register
  the callee may write).

* `OperandsAreInPlace`: `Strict(fn) /\ PairsInReach => OperandsInPlace`, on every
  path, for every order the scan may take. The inductive invariant is `Placed`:
  while the code runs, what is live at the next instruction is in its home
  (`Ready`), and nothing that was read so far was something else. It joins the
  other theorems: `LivePointsLeast` says what is live, `Spans` that its interval
  says so, `HomesAreApart` and `CallsAreSpared` that homes whose intervals overlap
  are apart and out of the way of a call, `CodegenInvariant` that every home is a
  place the frame has.
  - Machines. `At(m, p)` is what place `p` of machine `m` has, `Apart` says that two
    places are not one, `Proper` that a place is no scratch register. `CopiedDoes`
    is one copy, `RunSpares` what a list of copies leaves alone and `RunDoes` what it
    brings, if no copy reads what an earlier one wrote. That the copies of
    parameters, arguments and phis go through the backup slots is what makes
    `RunDoes` applicable: `SaveParamsDo`, `ArgumentsArrive`, `EdgeMovesDo`.
  - Lives. `ResultApart`: what is live behind an instruction is not in the home of
    its result. `PhiHomesApart`: the phis of a block are apart, and apart from what
    lives on behind them; `ParamsApart` says it of the parameters.
  - Steps. `StraightReady`, `ArriveReady` (an edge), `EnterReady` and `ReturnDone` are
    the steps, `PlacedStep` puts them together.

  `Strict` is what the IR promises and nothing checks: static single assignment
  form with definitions above uses, phis first and complete, and (the part that
  is about the defect found) every parameter and every phi is read. The interval
  of an unread value is a single index, so it may have the home of another
  whose interval begins there, and what is written on entry or on an edge is
  written all the same. An unread result in the midst of a block does no harm: the
  intervals of the values live behind it have begun before. Where it is the first
  of its block, a value that comes from a block further down begins there too,
  and the last conjunct excludes that.
  `PairsInReach` excludes the other defect, a second operand in memory whose
  address takes the scratch register of the first. `codegen_unused` and
  `codegen_far` are counterexamples without the one and the other; the run
  `codegen` has functions that satisfy both (`FunctionsAreStrict`).

They rest on `RegistersAssumption` (the pools as in `regalloc.rs:5-15`: no
callee-saved register is scratch or carries arguments), `ProgramAssumption` and
`InstructionAssumption` of `Codegen` (nobody jumps to the entry block, a
terminator is the last instruction of a block). All but the last need neither
static single assignment form nor that intervals are right.

### The query graph: `QuerySessionProofs`

For every set of functions, every set of texts over them, every set of orders
of the allocator's `HashMap` and any number of edits:

* `Invariant`. `ReplyIsFresh` speaks of one reply; what is inductive is a
  statement about every memo, those of old revisions included. `Agrees` and
  `LinkAgrees`: a memo is what its query computes from each dependency that
  has not changed since the memo was verified. `VerifiedInOrder`: a dependency
  was verified no earlier than what read it, so that what is verified now
  rests on what is verified now, down to the text. `Walks`: what the walk over
  the dependencies of each query on the stack has found so far. Freshness then
  follows in as many steps as the graph is deep. `RedIsDifferent` (a codegen
  dependency that changed since did so because the IR did), `OneRevision` (the
  stages of one function are verified together, or that is under way) and
  `LinkAsks` (link asks for functions of the module it has read) are there for
  the action properties.
* from it `TypeCorrect`, `ReplyIsFreshAlways`, `OneCodePerFunctionAlways`,
  `CodegenIsolatedAlways`, `RepeatIsSilentAlways`, `LinkNeverPanicsAlways` and
  `BytesStableAlways`.

They rest on `SourceAssumption` (a text is a sequence of functions with names
in `Fn`) and `RevisionAssumption` (there is a first revision). Salsa is the
external component as `QuerySession` has it: the proofs say that the queries
are right over that memo table.

### The passes: `OptimizerProofs`

For every function, of any number of blocks and instructions:

* `PassesSound`: `PassInv` is `Typed` and `Settled`. `Typed` has what
  `ReadersHoldTheirValues` (`NothingDangles`) needs: a listed instruction reads
  only `Readable` values, the parameter and results of listed instructions that
  have one. DCE keeps it because a value that is read is used, and CSE because
  `remap` leads to values it has seen in a block. `Settled` is what each pass
  hands on when the round has changed nothing so far - nothing to fold, then
  nothing to merge - from which `StopsOnlyWhenExhausted` (`Exhausted`) follows
  when DCE removes nothing either.
* CSE is three nested loops, and each has its own induction. `Good(s, done)` is
  the invariant of the two inner ones: with the instructions in `done` met, each
  value is its own image or that of one met before, which is its own.
  `MergeGood` is the step, `BlockGood` and `MergedGood` the loops. `MergeQuiet`
  looks back: if no value has another image in the end, then none had one on
  the way, so that no instruction was rewritten and none was like one seen.
* `RemapIsFollowedToAnEnd`: `while let Some(&next) = remap.get(&curr)`
  (`opt.rs:59`) ends, at a value that is not remapped. The model follows `remap`
  a fixed number of times; this says that it is enough.

They rest on `ProgramAssumption` of `Optimizer`: instructions read the
parameter or results of instructions that have one, listed ones only of listed
ones, and no block lists an instruction twice or one of another block. A parsed
function is like that (`NamesResolve`), and so is an optimised one. What the
passes do to the numbers is `Preserves`, which stays with TLC.

### Only model-checked

* Every liveness property (`AllPlaced`, `Terminates`, `RequestsEnd`): fairness
  and ENABLED are out of the prover's reach.
* That the intervals `Codegen` starts from are what the loop of `Liveness` leaves:
  `Codegen` computes them from `LivePoints`, and `FixpointIsLivenessAlways` says
  that the loop does too.
* `Preserves` of `Optimizer`: what a folded or merged function computes is a fold
  over `Isa`.
* What a fold or a recursive operator computes for all inputs, where induction
  over data needs facts the provers cannot instantiate: `ExpandLi64`.
* `Isa`, and with it `Compiled`, `Assembly` and `Emitter`, reaches `Bitwise`,
  and `Parser` has a recursive operator (`Items`): no theorem can stand in
  these modules.

## Findings

1. `codegen_unused`: a parameter nobody reads has the interval [0, 0], which
   expires as soon as the next parameter is placed. Both get one register and
   `save_params` writes both: `func @f(%p, %q) { ret %p }` returns `q` when `q` comes first out of the map.
2. `codegen_far`: with the second of two spilled operands more than 2048 bytes
   below `fp`, its address is computed in `t0`, where the first one is.
3. `codegen_stackarg`: arguments beyond the eighth are written at `sp`, where
   the lowest buffer is; no outgoing area is reserved. The padding of the frame
   to 16 bytes hides one case in two. The caller's registers are safe all the
   same (`CallerStateIsPreserved`).
4. `optimizer_memory`: CSE merges two loads around a store
   (`LoadsAroundStore`). Two `alloca`s of one type become one buffer for the
   same reason, that `has_side_effects` is all that is asked.

Seen while modelling, with no run of their own:

* Early cutoff. `README.md:211` says that code generation is bypassed for an
  edit that simplifies to the same IR. It is when folding alone makes the two
  equal, but DCE leaves what it removes in the arenas and `PartialEq` compares
  them (`query/src/lib.rs:43`), so an edit whose removed instructions differ
  recompiles all the same. The code that results is right.
* CSE compares the instruction, not the type of its result: an `i32` add and
  an `i64` add of the same operands become one. Folding an `i32` operation that
  overflows its width leaves a 64-bit constant where `addw` would have wrapped.
  The functions of `optimizer` are of one type each; an `i32` operation on the
  borders of a word is folded where the result is a word (`WordFolding`).
* The tie of `codegen_unused` has a second form, which the proof of
  `OperandsAreInPlace` had to exclude: a call whose result nobody reads, first in
  its block, and a value that is live there but defined in a block further down
  in the text. Both intervals begin at the call, the first one ends there, and both
  values get one callee-saved register: with blocks `jmp 3`, `%u = call @g(%p);
  ret %w` and `%w = const; jmp 2` the function returns `u` (`MCCodegen` given
  that function in place of `UnusedParam` shows it).
* A pure instruction without a named result makes `select.rs` panic (it unwraps
  the result) unless DCE removed it first; it always runs first in the queries.
* A float `add` of two constants folds as floats, while at run time the bits
  are added as integers.
* DCE counts uses by removed instructions, so what only a removed instruction
  read is kept (`Used` has the whole arena, as in the code).
* The round trip fails when a function declares a label or a value twice, and
  for a float literal beyond `f64`, which prints as `inf.0`. `Canonical` leaves
  both out of `RoundTrip`.
* The parser accepts a function without its closing brace at the end of the
  text, phis after other instructions, instructions after a terminator, and
  jumps to the entry block.
* Emission of one of the 2048 largest `i64` constants panics in a debug build,
  and of a jump to a label that is not in the list in any build
  (`PanicsExactly` says that there is no other panic, and that neither kind of
  list is ever encoded). `select.rs` emits a label for every block it jumps to.
* Branch and jump offsets are not range-checked. The lists of `emitter` end at
  the last distance that fits: one instruction more and `ImplementsAssembly`
  fails.

## Not modelled

* `db.rs`: the log is instrumentation; `Executes` is the step that would log.
* Floating point: float immediates in the optimizer, `f32` and `f64` in
  `Lowering`. The parser and the printer have float literals, as digits: the
  rounding to `f64` is left out, as are the sign of an integer zero and zeros
  that say nothing.
* Lines and columns of tokens and the wording of errors; values without a name
  in the printer, which no parsed module has.
* `Codegen` has whose value is where, `Lowering` which instruction computes it:
  they are not joined yet. The synthetic label of a critical edge is not
  modelled: an edge is a sequence of moves in `Codegen`.
* In `Codegen`, blocks end in a terminator and nobody jumps to the entry block
  (`ProgramAssumption`, `InstructionAssumption`): the parser does not enforce it, and the lowered code
  of such a function is wrong in ways the hazards name.
* In `Compiled`, runs are loop-free, so that `Outcome` is a fold, and an
  alloca is an address of its own (`Codegen` has the frame).
* In `Emitter`, the address of a callee is a number: `emit.rs` makes it from a
  hash of the name. Return addresses are left to `Codegen`. Addresses are small
  and code and data do not overlap. `auipc`, which nothing builds, the truncation
  of offsets to `i32`, and the interpreter's arguments and panics on words the
  emitter does not make are left out.
* A panic ends the program: `QuerySession` and `Emitter` record it and no state
  after it is explored. What a caller that catches the panic of a query finds
  in the memos is Salsa's affair.
* Branches and jumps further than their offsets reach are not among the lists
  of `emitter` (see above); addresses of callees are even there.
* The loader, the command line and the benchmarks have no state; the `mmap` of
  the loader is the operating system's.
