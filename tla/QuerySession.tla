---------------------------- MODULE QuerySession ----------------------------
(***************************************************************************)
(* The query graph of query/src/lib.rs and the Session that drives it.     *)
(*                                                                         *)
(* The queries, what each reads, in which order, and what it computes are  *)
(* the code's.  The memo table with its red/green validation is the Salsa  *)
(* library's, external to the repository: a memo remembers the queries it  *)
(* read, the revision it was last known good in (verified) and the one its *)
(* value last changed in (changed).                                        *)
(*                                                                         *)
(* A function body is a record [raw, listed, leftover]: what was parsed,   *)
(* what its blocks list after optimize_function, and the instructions and  *)
(* values that DCE takes out of the blocks but leaves in the arenas.       *)
(* Register allocation iterates HashMaps, so it is not a function of its   *)
(* input: each execution picks a Tie.                                      *)
(***************************************************************************)
EXTENDS Integers, SequencesExt

CONSTANTS
    Fn,           \* function names
    Source,       \* texts: [layout, fns], fns a sequence of [name, body]; or Garbage
    Garbage,      \* a text ir::parse rejects
    Tie,          \* the orders a HashMap may iterate in
    MaxRevision   \* bound on the texts a session is given

\* A text holds functions one after another; their names are function names.
ASSUME SourceAssumption ==
    \A s \in Source : /\ s.fns \in Seq(ToSet(s.fns))
                      /\ \A i \in DOMAIN s.fns : s.fns[i].name \in Fn

ASSUME RevisionAssumption == MaxRevision \in Nat \ {0}

Module == "module"
None   == [none |-> TRUE]

Codegen == {"allocate_registers", "select_instructions", "schedule", "emit"}
PerFn   == {"fn_ir", "optimize_ir"} \cup Codegen
Query   == ({"parse_module", "link"} \X {Module}) \cup (PerFn \X Fn)

Input     == <<"text", Module>>
ParseOf   == <<"parse_module", Module>>
LinkOf    == <<"link", Module>>
EmitOf(f) == <<"emit", f>>

VARIABLES
    source, revision, \* the text and the revision set_text made it in
    memo,             \* the memo table
    stack,            \* the queries under way, innermost last
    reply,            \* what the last request returned
    status            \* "running", or "panicked"

vars == <<source, revision, memo, stack, reply, status>>

-----------------------------------------------------------------------------
(* The queries: what they read and what they compute                        *)

Val(q) == memo[q].val

Named(mod, f) == {i \in DOMAIN mod : mod[i].name = f}

Optimize(body) == [listed |-> body.listed, leftover |-> body.leftover]

\* Mutant: register allocation also looks at the whole module.
FnReads_Module(stage, f) ==
    IF stage = "allocate_registers" THEN <<ParseOf, <<"optimize_ir", f>>>>
    ELSE IF stage = "select_instructions"
         THEN <<<<"optimize_ir", f>>, <<"allocate_registers", f>>>>
         ELSE <<<<[optimize_ir |-> "fn_ir", schedule |-> "select_instructions",
                   emit |-> "schedule"][stage], f>>>>

\* What the queries from optimize_ir to emit read of the same function.
FnReads(stage, f) ==
    LET upstream == [optimize_ir         |-> <<"fn_ir">>,
                     allocate_registers  |-> <<"optimize_ir">>,
                     select_instructions |-> <<"optimize_ir", "allocate_registers">>,
                     schedule            |-> <<"select_instructions">>,
                     emit                |-> <<"schedule">>][stage]
    IN  [i \in DOMAIN upstream |-> <<upstream[i], f>>]

FnIrReads(f) == <<ParseOf>>

CodeOf(mod) == [i \in DOMAIN mod |-> EmitOf(mod[i].name)]

Ready(q) == q # Input => memo[q] # None /\ memo[q].verified = revision

\* Mutant: link asks for the code before the module when it has run before.
LinkReads_CodeFirst ==
    LET module == IF Ready(ParseOf) THEN CodeOf(Val(ParseOf)) ELSE <<>>
    IN  IF memo[LinkOf] = None THEN <<ParseOf>> \o module
        ELSE SelectSeq(memo[LinkOf].deps, LAMBDA d : d # ParseOf) \o <<ParseOf>> \o module

\* Link reads the module first and then the code of each function in it.
LinkReads == <<ParseOf>> \o (IF Ready(ParseOf) THEN CodeOf(Val(ParseOf)) ELSE <<>>)

\* What q reads when it executes, in order.
Reads(q) ==
    CASE q = ParseOf     -> <<Input>>
      [] q = LinkOf      -> LinkReads
      [] q[1] = "fn_ir"  -> FnIrReads(q[2])
      [] OTHER           -> FnReads(q[1], q[2])

\* Mutant: link does not take the memoized code but allocates again.
Linked_Again(mod) ==
    {[i \in DOMAIN mod |-> [Val(EmitOf(mod[i].name)) EXCEPT !.tie = t]] : t \in Tie}

Linked(mod) == {[i \in DOMAIN mod |-> Val(EmitOf(mod[i].name))]}

\* The values q may compute from what it has read.  fn_ir takes the first
\* function of that name.  The lowered code, the schedule (a copy) and the
\* bytes carry the function and the allocation they were made from.
Results(q) ==
    CASE q = ParseOf -> {source.fns}
      [] q = LinkOf  -> Linked(Val(ParseOf))
      [] q[1] = "fn_ir" -> {Val(ParseOf)[Min(Named(Val(ParseOf), q[2]))].body}
      [] q[1] = "optimize_ir" -> {Optimize(Val(<<"fn_ir", q[2]>>))}
      [] q[1] = "allocate_registers" -> {[ir |-> Val(<<"optimize_ir", q[2]>>), tie |-> t] : t \in Tie}
      [] OTHER -> {Val(Last(Reads(q)))}

\* expect("Failed to parse IR module") and panic!("Function not found").
Panics(q) ==
    \/ q = ParseOf /\ source = Garbage
    \/ q[1] = "fn_ir" /\ Named(Val(ParseOf), q[2]) = {}

-----------------------------------------------------------------------------
(* Salsa's evaluation of a request, one activity of the innermost query at  *)
(* a time: fetch looks for a memo, verify walks what the memo was computed  *)
(* from, execute runs the query.                                            *)

Top == stack[Len(stack)]
Below == SubSeq(stack, 1, Len(stack) - 1)

Fetching(q) == [q |-> q, mode |-> "fetch", pos |-> 1]
Push(q)     == stack' = Append(stack, Fetching(q))
Become(mode, pos) == stack' = Append(Below, [q |-> Top.q, mode |-> mode, pos |-> pos])

Running(mode) == status = "running" /\ stack # <<>> /\ Top.mode = mode

\* The innermost query is done; the outermost one answers the request.
Return(val) ==
    /\ stack' = Below
    /\ reply' = IF Below = <<>> THEN [q |-> Top.q, val |-> val] ELSE reply

Execute ==
    /\ Become("execute", 1)
    /\ UNCHANGED <<memo, reply>>

\* Mutant: link is a plain function, not a tracked one.
Fetch_LinkUntracked ==
    /\ Running("fetch")
    /\ LET q == Top.q
       IN  \/ Ready(q) /\ q # LinkOf /\ Return(Val(q)) /\ UNCHANGED memo
           \/ ~Ready(q) /\ memo[q] # None /\ Become("verify", 1) /\ UNCHANGED <<memo, reply>>
           \/ memo[q] = None /\ Execute
           \/ Ready(q) /\ q = LinkOf /\ Execute
    /\ UNCHANGED <<source, revision, status>>

Fetch ==
    /\ Running("fetch")
    /\ LET q == Top.q
       IN  \/ Ready(q) /\ Return(Val(q)) /\ UNCHANGED memo
           \/ ~Ready(q) /\ memo[q] # None /\ Become("verify", 1) /\ UNCHANGED <<memo, reply>>
           \/ memo[q] = None /\ Execute
    /\ UNCHANGED <<source, revision, status>>

\* Mutant: only what reads the text itself is ever red.
ChangedSince_TextOnly(d, rev) == d = Input /\ revision > rev

ChangedSince(d, rev) == IF d = Input THEN revision > rev ELSE memo[d].changed > rev

\* Mutant: verification that never gets past a green dependency.
NextDependency_Stuck == Become("verify", Top.pos)

\* Mutant: the walk goes the wrong way.
NextDependency_Back == Become("verify", Top.pos - 1)

NextDependency == Become("verify", Top.pos + 1)

\* A memo is green when nothing it read has changed since it was verified; the
\* first changed dependency makes it red, and later ones are not looked at.
Verify ==
    /\ Running("verify")
    /\ LET q == Top.q
           deps == memo[q].deps
           d == deps[Top.pos]
       IN  IF Top.pos > Len(deps)
           THEN /\ memo' = [memo EXCEPT ![q].verified = revision]
                /\ Return(Val(q))
           ELSE \/ ~Ready(d) /\ Push(d) /\ UNCHANGED <<memo, reply>>
                \/ Ready(d) /\ ChangedSince(d, memo[q].verified) /\ Execute
                \/ /\ Ready(d) /\ ~ChangedSince(d, memo[q].verified)
                   /\ NextDependency
                   /\ UNCHANGED <<memo, reply>>
    /\ UNCHANGED <<source, revision, status>>

Read ==
    /\ Running("execute")
    /\ Top.pos <= Len(Reads(Top.q))
    /\ LET d == Reads(Top.q)[Top.pos]
       IN  IF Ready(d) THEN Become("execute", Top.pos + 1) ELSE Push(d)
    /\ UNCHANGED <<source, revision, memo, reply, status>>

\* An equal value keeps the old revision: the early cutoff.
Finish ==
    /\ Running("execute")
    /\ LET q == Top.q
           deps == Reads(q)
           latest == Max({IF deps[i] = Input THEN revision ELSE memo[deps[i]].changed : i \in DOMAIN deps})
       IN  /\ Top.pos > Len(deps)
           /\ ~Panics(q)
           /\ \E val \in Results(q) :
                LET same == memo[q] # None /\ memo[q].val = val
                IN  /\ memo' = [memo EXCEPT ![q] =
                                  [val |-> val, deps |-> deps, verified |-> revision,
                                   changed |-> IF same THEN memo[q].changed ELSE latest]]
                    /\ Return(val)
    /\ UNCHANGED <<source, revision, status>>

\* A panic unwinds every query under way and leaves the memos as they are.
Panic ==
    /\ Running("execute")
    /\ Top.pos > Len(Reads(Top.q))
    /\ Panics(Top.q)
    /\ stack' = <<>>
    /\ status' = "panicked"
    /\ UNCHANGED <<source, revision, memo, reply>>

-----------------------------------------------------------------------------
(* The Session                                                              *)

Idle == status = "running" /\ stack = <<>>

NoReply == [q |-> Input]

UpdateSource ==
    /\ Idle
    /\ revision < MaxRevision
    /\ source' \in Source
    /\ revision' = revision + 1
    /\ reply' = NoReply
    /\ UNCHANGED <<memo, stack, status>>

CompileFn(f) ==
    /\ Idle
    /\ Push(EmitOf(f))
    /\ reply' = NoReply
    /\ UNCHANGED <<source, revision, memo, status>>

CompileModule ==
    /\ Idle
    /\ Push(LinkOf)
    /\ reply' = NoReply
    /\ UNCHANGED <<source, revision, memo, status>>

Evaluate == Fetch \/ Verify \/ Read \/ Finish \/ Panic

Request == UpdateSource \/ (\E f \in Fn : CompileFn(f)) \/ CompileModule

Init ==
    /\ source \in Source
    /\ revision = 1
    /\ memo = [q \in Query |-> None]
    /\ stack = <<>>
    /\ reply = NoReply
    /\ status = "running"

Next == Request \/ Evaluate

Spec == Init /\ [][Next]_vars

\* A request runs to its end on the caller's thread; nobody has to make one.
FairSpec == Spec /\ WF_vars(Evaluate)

-----------------------------------------------------------------------------
(* What an embedding application relies on                                  *)

(***************************************************************************)
(* A memo was verified in a revision the session has had, its value is no  *)
(* younger than that, and what it read are queries or the text.            *)
(***************************************************************************)
TypeOK ==
    /\ source \in Source
    /\ revision \in 1..MaxRevision
    /\ \A q \in Query : memo[q] = None \/
            /\ memo[q].verified \in 1..revision
            /\ memo[q].changed \in 1..memo[q].verified
            /\ \A i \in DOMAIN memo[q].deps : memo[q].deps[i] \in Query \cup {Input}
    /\ \A i \in DOMAIN stack : /\ stack[i].q \in Query
                               /\ stack[i].mode \in {"fetch", "verify", "execute"}
                               /\ stack[i].pos \in Nat \ {0}
    /\ status \in {"running", "panicked"}

\* The step that starts a query's own code: where log_query writes an entry.
Executes(q) ==
    /\ stack # <<>> /\ Top.q = q /\ Top.mode # "execute"
    /\ Len(stack') = Len(stack) /\ stack'[Len(stack)].mode = "execute"

Body(f) == source.fns[Min(Named(source.fns, f))].body

\* Code made from the body the text has now, whatever order the HashMaps had.
FromBody(val, body) == val.ir = Optimize(body)

(***************************************************************************)
(* What a request returns was compiled from the text the session holds     *)
(* now, for every function of it, although most of it may come from memos  *)
(* of older texts (query/src/lib.rs:117-133; README "all other functions   *)
(* in the module remain cached").                                          *)
(***************************************************************************)
ReplyIsFresh ==
    /\ \A f \in Fn : reply.q = EmitOf(f) =>
          Named(source.fns, f) # {} /\ FromBody(reply.val, Body(f))
    /\ reply.q = LinkOf =>
          /\ DOMAIN reply.val = DOMAIN source.fns
          /\ \A i \in DOMAIN reply.val : FromBody(reply.val[i], Body(source.fns[i].name))

(***************************************************************************)
(* compile_module and compile_fn never hand out different code for one     *)
(* function of one text, although register allocation may decide           *)
(* differently each time it runs (query/src/lib.rs:80-97, 123-133).        *)
(***************************************************************************)
OneCodePerFunction ==
    reply.q = LinkOf =>
        \A i \in DOMAIN reply.val : reply.val[i] = Val(EmitOf(source.fns[i].name))

(***************************************************************************)
(* Editing one function re-runs no codegen query of another: a codegen     *)
(* query that has run before runs again only when the optimised IR of its  *)
(* own function is a different one (invalidation_tests.rs:57-64; README    *)
(* "Editing one function invalidates only the queries that depend on that  *)
(* specific function's intermediate representation").                      *)
(***************************************************************************)
CodegenIsolated ==
    [][\A q \in Codegen \X Fn :
        (Executes(q) /\ memo[q] # None) => ~ FromBody(memo[q].val, Body(q[2]))]_vars

(***************************************************************************)
(* The bytes of a function stay the same until its own optimised IR        *)
(* changes, through any number of edits elsewhere: the nondeterminism of   *)
(* the allocator never shows in code nobody edited (query/src/lib.rs:46-97)*)
(***************************************************************************)
BytesStable ==
    [][\A f \in Fn :
        (memo[EmitOf(f)] # None /\ Val(EmitOf(f))' # Val(EmitOf(f)))
            => ~ FromBody(memo[EmitOf(f)].val, Body(f))]_vars

(***************************************************************************)
(* compile_module of a text that parses never hits the panic of fn_ir, not *)
(* even when functions it once linked are gone from the text: link checks  *)
(* the module before the code of the old functions (query/src/lib.rs:88-97)*)
(***************************************************************************)
LinkNeverPanics ==
    [][(stack # <<>> /\ stack[1].q = LinkOf /\ source # Garbage) => status' = "running"]_vars

(***************************************************************************)
(* A request for what is already compiled, with no new text in between,    *)
(* runs no query at all (invalidation_tests.rs:87-93).                     *)
(***************************************************************************)
RepeatIsSilent ==
    [][\A q \in Query : (Executes(q) /\ memo[q] # None) => memo[q].verified < revision]_vars

(***************************************************************************)
(* Every request ends, with an answer or with a panic.                     *)
(***************************************************************************)
RequestsEnd == (stack # <<>>) ~> (stack = <<>>)
=============================================================================
