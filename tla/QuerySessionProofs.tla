------------------------- MODULE QuerySessionProofs -------------------------
(***************************************************************************)
(* Proofs about QuerySession, for every set of functions, every set of     *)
(* texts over them, every set of HashMap orders and any number of edits.   *)
(***************************************************************************)
EXTENDS QuerySession, Lists, TLAPS

-----------------------------------------------------------------------------
(* The inductive invariant                                                  *)

\* The queries a query other than link reads.
Feeds(d, q) ==
    \/ q = ParseOf /\ d = Input
    \/ q[1] = "fn_ir" /\ d = ParseOf
    \/ q[1] = "optimize_ir" /\ d = <<"fn_ir", q[2]>>
    \/ q[1] = "allocate_registers" /\ d = <<"optimize_ir", q[2]>>
    \/ q[1] = "select_instructions" /\ d \in {<<"optimize_ir", q[2]>>, <<"allocate_registers", q[2]>>}
    \/ q[1] = "schedule" /\ d = <<"select_instructions", q[2]>>
    \/ q[1] = "emit" /\ d = <<"schedule", q[2]>>

\* How far a query is from the text.
Rank(q) ==
    CASE q[1] = "parse_module"        -> 1
      [] q[1] = "fn_ir"               -> 2
      [] q[1] = "optimize_ir"         -> 3
      [] q[1] = "allocate_registers"  -> 4
      [] q[1] = "select_instructions" -> 5
      [] q[1] = "schedule"            -> 6
      [] q[1] = "emit"                -> 7
      [] q[1] = "link"                -> 8

Known(q) == memo[q] # None

Fields == {"val", "deps", "verified", "changed"}

\* What link may have read: the module, then the code of some functions.
LinkDeps(deps) ==
    /\ deps \in Seq(Query)
    /\ Len(deps) >= 1
    /\ deps[1] = ParseOf
    /\ \A i \in 2..Len(deps) : \E f \in Fn : deps[i] = EmitOf(f)

MemoShape ==
    /\ DOMAIN memo = Query
    /\ \A q \in Query : Known(q) =>
          /\ DOMAIN memo[q] = Fields
          /\ memo[q].verified \in 1..revision
          /\ memo[q].changed \in 1..memo[q].verified
          /\ q # LinkOf => memo[q].deps = Reads(q)
    /\ Known(ParseOf) => \E s \in Source : Val(ParseOf) = s.fns
    /\ Known(LinkOf) => LinkDeps(memo[LinkOf].deps)

\* Nothing was verified later than what it was computed from.
VerifiedInOrder ==
    \A q \in Query : Known(q) =>
        \A i \in DOMAIN memo[q].deps :
            memo[q].deps[i] # Input =>
                Known(memo[q].deps[i]) /\ memo[q].verified <= memo[memo[q].deps[i]].verified

\* The optimised IR a memo of register allocation or of a later stage is for.
IrOf(q) == IF q[1] = "optimize_ir" THEN Val(q) ELSE Val(q).ir

\* The memo of q is what q computes from the memo of d.
Derived(q, d) ==
    /\ q = ParseOf => source # Garbage /\ Val(q) = source.fns
    /\ q[1] = "fn_ir" => /\ Named(Val(d), q[2]) # {}
                         /\ Val(q) = Val(d)[Min(Named(Val(d), q[2]))].body
    /\ q[1] = "optimize_ir" => Val(q) = Optimize(Val(d))
    /\ q[1] \in Codegen => /\ IrOf(q) = IrOf(d)
                           /\ d[1] \in Codegen => Val(q) = Val(d)

\* A memo agrees with every dependency that has not changed since.
Agrees ==
    \A q \in Query \ {LinkOf} : Known(q) =>
        \A d : Feeds(d, q) /\ ~ChangedSince(d, memo[q].verified) => Derived(q, d)

LinkAgrees ==
    Known(LinkOf) /\ ~ChangedSince(ParseOf, memo[LinkOf].verified) =>
        /\ memo[LinkOf].deps = <<ParseOf>> \o CodeOf(Val(ParseOf))
        /\ DOMAIN Val(LinkOf) = DOMAIN Val(ParseOf)
        /\ \A i \in DOMAIN Val(ParseOf) :
              LET e == EmitOf(Val(ParseOf)[i].name)
              IN  ~ChangedSince(e, memo[LinkOf].verified) => Val(LinkOf)[i] = Val(e)

\* What a codegen query read is red only when its IR became a different one.
RedIsDifferent ==
    \A q \in Query : (q[1] \in Codegen /\ Known(q)) =>
        \A d : Feeds(d, q) /\ ChangedSince(d, memo[q].verified) => IrOf(q) # IrOf(d)

\* Between requests the codegen memos of a function are of one revision.
OneRevision ==
    status = "running" =>
        \A q \in Query : (q[1] \in Codegen /\ Known(q)) =>
            \A d : Feeds(d, q) =>
                \/ memo[q].verified = memo[d].verified
                \/ Ready(d) /\ \E i \in DOMAIN stack : stack[i].q = EmitOf(q[2])

Activity == [q : Query, mode : {"fetch", "verify", "execute"}, pos : Nat \ {0}]

StackShape ==
    /\ stack \in Seq(Activity)
    /\ \A i, j \in DOMAIN stack : i < j => Rank(stack[j].q) < Rank(stack[i].q)
    /\ \A i \in DOMAIN stack : stack[i].q[1] \in PerFn =>
          \E j \in 1..i : stack[j].q = EmitOf(stack[i].q[2])
    /\ stack # <<>> => status = "running" /\ reply.q = Input

\* What the walk over a query's dependencies has found so far.
Walked(a) ==
    /\ a.mode # "fetch" => ~Ready(a.q)
    /\ a.mode = "verify" =>
          /\ Known(a.q)
          /\ \A j \in DOMAIN memo[a.q].deps : j < a.pos =>
                /\ Ready(memo[a.q].deps[j])
                /\ ~ChangedSince(memo[a.q].deps[j], memo[a.q].verified)
    /\ a.mode = "execute" =>
          /\ \A j \in DOMAIN Reads(a.q) : j < a.pos => Ready(Reads(a.q)[j])
          /\ Known(a.q) => \E j \in DOMAIN memo[a.q].deps :
                              /\ Ready(memo[a.q].deps[j])
                              /\ ChangedSince(memo[a.q].deps[j], memo[a.q].verified)

Walks == \A i \in DOMAIN stack : Walked(stack[i])

\* Link asks only for code of functions of the module it has read.
LinkAsks ==
    stack # <<>> /\ stack[1].q = LinkOf =>
        \A i \in DOMAIN stack : \A f \in Fn : stack[i].q = EmitOf(f) =>
            Ready(ParseOf) /\ Named(Val(ParseOf), f) # {}

\* A reply is the memo of the query it answers, verified in this revision.
ReplyIsMemo ==
    reply.q # Input =>
        /\ stack = <<>>
        /\ reply.q \in Query
        /\ Ready(reply.q)
        /\ reply.val = Val(reply.q)

IInv ==
    /\ source \in Source
    /\ revision \in 1..MaxRevision
    /\ status \in {"running", "panicked"}
    /\ MemoShape
    /\ VerifiedInOrder
    /\ Agrees
    /\ LinkAgrees
    /\ RedIsDifferent
    /\ OneRevision
    /\ StackShape
    /\ Walks
    /\ LinkAsks
    /\ ReplyIsMemo

-----------------------------------------------------------------------------
(* The query graph                                                          *)

(***************************************************************************)
(* A query is the module's parse, its link, or a stage of one function.    *)
(***************************************************************************)
LEMMA QueryKinds ==
    /\ ParseOf \in Query /\ LinkOf \in Query /\ Input \notin Query
    /\ \A s \in PerFn, f \in Fn : <<s, f>> \in Query
    /\ \A q \in Query : \/ q = ParseOf
                        \/ q = LinkOf
                        \/ q[1] \in PerFn /\ q[2] \in Fn /\ q = <<q[1], q[2]>>
  BY DEF Query, ParseOf, LinkOf, Input, PerFn, Codegen, Module

(***************************************************************************)
(* The reads of link: the module, then the code of each function in it     *)
(* (query/src/lib.rs:88-97).                                               *)
(***************************************************************************)
LEMMA ModuleReads ==
    ASSUME NEW s \in Source
    PROVE  /\ s.fns \in Seq(ToSet(s.fns))
           /\ DOMAIN s.fns = 1..Len(s.fns)
           /\ \A i \in DOMAIN s.fns : s.fns[i].name \in Fn /\ EmitOf(s.fns[i].name) \in Query
           /\ LET reads == <<ParseOf>> \o CodeOf(s.fns)
              IN  /\ reads \in Seq(Query)
                  /\ Len(reads) = Len(s.fns) + 1
                  /\ DOMAIN reads = 1..(Len(s.fns) + 1)
                  /\ reads[1] = ParseOf
                  /\ \A i \in DOMAIN s.fns : reads[i + 1] = EmitOf(s.fns[i].name)
                  /\ LinkDeps(reads)
<1>1. s.fns \in Seq(ToSet(s.fns)) /\ \A i \in DOMAIN s.fns : s.fns[i].name \in Fn
  BY SourceAssumption
<1>2. DOMAIN s.fns = 1..Len(s.fns) /\ Len(s.fns) \in Nat
  BY <1>1
<1>3. \A i \in DOMAIN s.fns : EmitOf(s.fns[i].name) \in Query
  BY <1>1, QueryKinds DEF EmitOf, PerFn, Codegen
<1>4. /\ CodeOf(s.fns) \in Seq(Query)
      /\ Len(CodeOf(s.fns)) = Len(s.fns)
      /\ \A i \in DOMAIN s.fns : CodeOf(s.fns)[i] = EmitOf(s.fns[i].name)
  BY <1>2, <1>3 DEF CodeOf
<1>. DEFINE reads == <<ParseOf>> \o CodeOf(s.fns)
<1>5. <<ParseOf>> \in Seq(Query) /\ Len(<<ParseOf>>) = 1
  BY QueryKinds
<1>6. /\ reads \in Seq(Query)
      /\ Len(reads) = Len(s.fns) + 1
      /\ reads[1] = ParseOf
      /\ \A i \in DOMAIN s.fns : reads[i + 1] = EmitOf(s.fns[i].name)
  BY <1>2, <1>4, <1>5
<1>7. LinkDeps(reads)
  <2>1. ASSUME NEW i \in 2..Len(reads)
        PROVE  \E f \in Fn : reads[i] = EmitOf(f)
    <3>1. i - 1 \in DOMAIN s.fns /\ (i - 1) + 1 = i
      BY <1>2, <1>6
    <3>. QED BY <1>1, <1>6, <3>1
  <2>. QED BY <1>2, <1>6, <2>1 DEF LinkDeps
<1>. QED BY <1>1, <1>2, <1>3, <1>6, <1>7

(***************************************************************************)
(* A query never reads itself or what it is read by: Feeds goes down Rank. *)
(***************************************************************************)
LEMMA FeedsDown ==
    ASSUME NEW q \in Query \ {LinkOf}, NEW d, Feeds(d, q)
    PROVE  /\ d \in Query \cup {Input}
           /\ d # LinkOf
           /\ d = Input <=> q = ParseOf
           /\ d # Input => Rank(d) < Rank(q)
           /\ d # q
  BY QueryKinds DEF Feeds, Rank, Query, ParseOf, LinkOf, Input, PerFn, Codegen, Module

(***************************************************************************)
(* Every query has a rank.                                                 *)
(***************************************************************************)
LEMMA RankInt == \A q \in Query : Rank(q) \in Int
  BY QueryKinds DEF Rank, PerFn, Codegen, ParseOf, LinkOf

(***************************************************************************)
(* What a query other than link reads does not depend on the state         *)
(* (query/src/lib.rs:21-86).                                               *)
(***************************************************************************)
LEMMA ReadsFixed ==
    ASSUME NEW q \in Query \ {LinkOf}
    PROVE  /\ Reads(q) \in Seq(Query \cup {Input})
           /\ Len(Reads(q)) \in {1, 2}
           /\ DOMAIN Reads(q) = 1..Len(Reads(q))
           /\ \A i \in DOMAIN Reads(q) : Feeds(Reads(q)[i], q)
           /\ \A d : Feeds(d, q) => \E i \in DOMAIN Reads(q) : Reads(q)[i] = d
           /\ Reads(q)' = Reads(q)
           /\ q[1] \in {"select_instructions", "schedule", "emit"} =>
                 /\ Last(Reads(q))[1] \in Codegen
                 /\ Feeds(Last(Reads(q)), q)
                 /\ q[1] = "select_instructions" => Last(Reads(q)) = <<"allocate_registers", q[2]>>
<1>1. CASE q = ParseOf
  <2>1. Reads(q) = <<Input>> /\ Reads(q)' = <<Input>>
    BY <1>1 DEF Reads, ParseOf, LinkOf
  <2>. QED BY <1>1, <2>1 DEF Feeds, ParseOf, Input
<1>2. CASE q[1] = "fn_ir"
  <2>1. Reads(q) = <<ParseOf>> /\ Reads(q)' = <<ParseOf>>
    BY <1>2 DEF Reads, FnIrReads, ParseOf, LinkOf
  <2>. QED BY <1>2, <2>1, QueryKinds DEF Feeds, ParseOf
<1>3. CASE q[1] \in {"optimize_ir", "allocate_registers", "schedule", "emit"}
  <2>1. PICK s \in PerFn : Reads(q) = <<<<s, q[2]>>>> /\ Reads(q)' = <<<<s, q[2]>>>> /\ \A d : Feeds(d, q) <=> d = <<s, q[2]>>
    BY <1>3 DEF Reads, FnReads, ParseOf, LinkOf, Feeds, PerFn, Codegen
  <2>2. <<s, q[2]>> \in Query
    BY <1>3, QueryKinds DEF ParseOf, LinkOf
  <2>3. q[1] \in {"schedule", "emit"} => s \in Codegen
    BY <2>1 DEF Feeds, Codegen, ParseOf
  <2>. QED BY <1>3, <2>1, <2>2, <2>3 DEF Last
<1>4. CASE q[1] = "select_instructions"
  <2>1. /\ Reads(q) = <<<<"optimize_ir", q[2]>>, <<"allocate_registers", q[2]>>>>
        /\ Reads(q)' = <<<<"optimize_ir", q[2]>>, <<"allocate_registers", q[2]>>>>
    BY <1>4 DEF Reads, FnReads, ParseOf, LinkOf
  <2>2. /\ <<"optimize_ir", q[2]>> \in Query
        /\ <<"allocate_registers", q[2]>> \in Query
    BY <1>4, QueryKinds DEF ParseOf, LinkOf, PerFn, Codegen
  <2>. QED BY <1>4, <2>1, <2>2 DEF Last, Feeds, ParseOf, Codegen
<1>. QED BY <1>1, <1>2, <1>3, <1>4, QueryKinds DEF PerFn, Codegen

-----------------------------------------------------------------------------
(* What the memos say                                                       *)

(***************************************************************************)
(* What a memo verified in this revision was computed from was verified in *)
(* this revision too and has not changed since, and the memo agrees with   *)
(* it: no green memo hangs on a red one.                                   *)
(***************************************************************************)
LEMMA ReadyDependencies ==
    ASSUME revision \in Nat, MemoShape, VerifiedInOrder, Agrees,
           NEW q \in Query, Ready(q)
    PROVE  /\ Known(q)
           /\ \A i \in DOMAIN memo[q].deps :
                 /\ Ready(memo[q].deps[i])
                 /\ ~ChangedSince(memo[q].deps[i], revision)
           /\ q # LinkOf => \A d : Feeds(d, q) => /\ Ready(d)
                                                  /\ ~ChangedSince(d, revision)
                                                  /\ Derived(q, d)
<1>1. Known(q) /\ memo[q].verified = revision /\ q # Input
  BY QueryKinds DEF Ready, Known
<1>2. ASSUME NEW i \in DOMAIN memo[q].deps
      PROVE  Ready(memo[q].deps[i]) /\ ~ChangedSince(memo[q].deps[i], revision)
  <2>1. CASE memo[q].deps[i] = Input
    BY <2>1 DEF Ready, ChangedSince
  <2>2. CASE memo[q].deps[i] # Input
    <3>1. memo[q].deps[i] \in Query
      <4>1. CASE q = LinkOf
        BY <1>1, <4>1 DEF MemoShape, LinkDeps
      <4>2. CASE q # LinkOf
        BY <1>1, <2>2, <4>2, ReadsFixed DEF MemoShape
      <4>. QED BY <4>1, <4>2
    <3>2. Known(memo[q].deps[i]) /\ revision <= memo[memo[q].deps[i]].verified
      BY <1>1, <2>2 DEF VerifiedInOrder
    <3>. QED BY <2>2, <3>1, <3>2 DEF MemoShape, Known, Ready, ChangedSince
  <2>. QED BY <2>1, <2>2
<1>3. ASSUME q # LinkOf, NEW d, Feeds(d, q)
      PROVE  Ready(d) /\ ~ChangedSince(d, revision) /\ Derived(q, d)
  <2>1. PICK i \in DOMAIN memo[q].deps : memo[q].deps[i] = d
    BY <1>1, <1>3, ReadsFixed DEF MemoShape
  <2>2. Ready(d) /\ ~ChangedSince(d, revision)
    BY <1>2, <2>1
  <2>. QED BY <1>1, <1>3, <2>2 DEF Agrees
<1>. QED BY <1>1, <1>2, <1>3

(***************************************************************************)
(* A memo verified in this revision was computed from the text the session *)
(* has now (query/src/lib.rs:21-86).                                       *)
(***************************************************************************)
LEMMA ReadyIsFresh ==
    ASSUME revision \in Nat, MemoShape, VerifiedInOrder, Agrees
    PROVE  /\ Ready(ParseOf) => source # Garbage /\ Val(ParseOf) = source.fns
           /\ \A f \in Fn :
                 /\ \A s \in PerFn : Ready(<<s, f>>) => Named(source.fns, f) # {} /\ Ready(ParseOf)
                 /\ Ready(<<"fn_ir", f>>) => Val(<<"fn_ir", f>>) = Body(f)
                 /\ \A s \in Codegen \cup {"optimize_ir"} :
                       Ready(<<s, f>>) => IrOf(<<s, f>>) = Optimize(Body(f))
<1>1. Ready(ParseOf) => source # Garbage /\ Val(ParseOf) = source.fns
  BY ReadyDependencies, QueryKinds DEF Feeds, Derived, ParseOf, LinkOf
<1>2. ASSUME NEW f \in Fn
      PROVE  /\ \A s \in PerFn : Ready(<<s, f>>) => Named(source.fns, f) # {} /\ Ready(ParseOf)
             /\ Ready(<<"fn_ir", f>>) => Val(<<"fn_ir", f>>) = Body(f)
             /\ \A s \in Codegen \cup {"optimize_ir"} :
                   Ready(<<s, f>>) => IrOf(<<s, f>>) = Optimize(Body(f))
  <2>. DEFINE Q(s) == <<s, f>>
  <2>1. \A s \in PerFn : Q(s) \in Query /\ Q(s) # LinkOf /\ Q(s) # ParseOf
    BY QueryKinds DEF PerFn, Codegen, LinkOf, ParseOf
  <2>2. \A s \in PerFn : Ready(Q(s)) =>
            \A d : Feeds(d, Q(s)) => Ready(d) /\ Derived(Q(s), d)
    BY <2>1, ReadyDependencies
  <2>3. Ready(Q("fn_ir")) => /\ Ready(ParseOf)
                             /\ Named(source.fns, f) # {}
                             /\ Val(Q("fn_ir")) = Body(f)
    <3>1. Feeds(ParseOf, Q("fn_ir"))
      BY DEF Feeds
    <3>. QED BY <1>1, <2>2, <3>1 DEF Derived, Body, PerFn
  <2>4. Ready(Q("optimize_ir")) => Ready(Q("fn_ir")) /\ IrOf(Q("optimize_ir")) = Optimize(Body(f))
    <3>1. Feeds(Q("fn_ir"), Q("optimize_ir"))
      BY DEF Feeds
    <3>. QED BY <2>2, <2>3, <3>1 DEF Derived, IrOf, PerFn
  <2>5. ASSUME NEW s \in Codegen, NEW u \in Codegen \cup {"optimize_ir"}, Feeds(Q(u), Q(s)), Ready(Q(s))
        PROVE  Ready(Q(u)) /\ IrOf(Q(s)) = IrOf(Q(u))
    BY <2>2, <2>5 DEF Derived, PerFn
  <2>6. /\ Feeds(Q("optimize_ir"), Q("allocate_registers"))
        /\ Feeds(Q("allocate_registers"), Q("select_instructions"))
        /\ Feeds(Q("select_instructions"), Q("schedule"))
        /\ Feeds(Q("schedule"), Q("emit"))
    BY DEF Feeds
  <2>. HIDE DEF Q
  <2>7. \A s \in Codegen : Ready(Q(s)) => Ready(Q("optimize_ir")) /\ IrOf(Q(s)) = IrOf(Q("optimize_ir"))
    <3>1. Ready(Q("allocate_registers")) => Ready(Q("optimize_ir")) /\ IrOf(Q("allocate_registers")) = IrOf(Q("optimize_ir"))
      BY <2>5, <2>6 DEF Codegen
    <3>2. Ready(Q("select_instructions")) => Ready(Q("optimize_ir")) /\ IrOf(Q("select_instructions")) = IrOf(Q("optimize_ir"))
      BY <2>5, <2>6, <3>1 DEF Codegen
    <3>3. Ready(Q("schedule")) => Ready(Q("optimize_ir")) /\ IrOf(Q("schedule")) = IrOf(Q("optimize_ir"))
      BY <2>5, <2>6, <3>2 DEF Codegen
    <3>4. Ready(Q("emit")) => Ready(Q("optimize_ir")) /\ IrOf(Q("emit")) = IrOf(Q("optimize_ir"))
      BY <2>5, <2>6, <3>3 DEF Codegen
    <3>. QED BY <3>1, <3>2, <3>3, <3>4 DEF Codegen
  <2>8. \A s \in PerFn : Ready(Q(s)) => Ready(Q("fn_ir"))
    BY <2>4, <2>7 DEF PerFn
  <2>. QED BY <2>3, <2>4, <2>7, <2>8 DEF Q
<1>. QED BY <1>1, <1>2

-----------------------------------------------------------------------------
(* A step that settles a memo                                               *)

\* The memo of q becomes good in this revision, and no other memo changes.
Settles(q) ==
    /\ UNCHANGED <<source, revision>>
    /\ ~Ready(q)
    /\ DOMAIN memo' = Query
    /\ \A p \in Query \ {q} : memo'[p] = memo[p]
    /\ memo'[q] # None
    /\ DOMAIN memo'[q] = Fields
    /\ memo'[q].verified = revision
    /\ memo'[q].changed \in 1..revision
    /\ \A i \in DOMAIN memo'[q].deps : Ready(memo'[q].deps[i])

\* A new value is one that what has read q notices.
Noticed(q) ==
    Known(q) /\ q # LinkOf =>
        \/ memo'[q].val = memo[q].val /\ memo'[q].changed = memo[q].changed
        \/ /\ memo'[q].changed > memo[q].verified
           /\ q[1] \in Codegen \cup {"optimize_ir"} => IrOf(q)' # IrOf(q)

\* The new memo of q is what q computes from the memos as they are.
Computed(q) ==
    /\ q # LinkOf => /\ memo'[q].deps = Reads(q)
                     /\ \A d : Feeds(d, q) => Derived(q, d)'
    /\ q = LinkOf => /\ LinkDeps(memo'[q].deps)
                     /\ memo'[q].deps = <<ParseOf>> \o CodeOf(Val(ParseOf))
                     /\ DOMAIN memo'[q].val = DOMAIN Val(ParseOf)
                     /\ \A i \in DOMAIN Val(ParseOf) :
                           memo'[q].val[i] = Val(EmitOf(Val(ParseOf)[i].name))

MemoInv == MemoShape /\ VerifiedInOrder /\ Agrees /\ LinkAgrees /\ RedIsDifferent

(***************************************************************************)
(* What is ready stays ready, and nothing else becomes ready but q.        *)
(***************************************************************************)
LEMMA SettlesReady ==
    ASSUME NEW q \in Query, Settles(q)
    PROVE  /\ Ready(q)'
           /\ \A d \in Query \cup {Input} : Ready(d) => Ready(d)' /\ d # q
           /\ \A d \in Query : Ready(d) => memo'[d] = memo[d]
           /\ \A d \in (Query \cup {Input}) \ {q} : Ready(d)' <=> Ready(d)
  BY QueryKinds DEF Settles, Ready

(***************************************************************************)
(* Settling one memo keeps the shape of the table and the order in which   *)
(* memos were verified.                                                    *)
(***************************************************************************)
LEMMA SettlesShape ==
    ASSUME source \in Source, revision \in Nat, MemoInv, NEW q \in Query, Settles(q), Computed(q)
    PROVE  MemoShape' /\ VerifiedInOrder'
<1>1. MemoShape'
  <2>1. ASSUME NEW p \in Query, Known(p)'
        PROVE  /\ DOMAIN memo'[p] = Fields
               /\ memo'[p].verified \in 1..revision'
               /\ memo'[p].changed \in 1..memo'[p].verified
               /\ p # LinkOf => memo'[p].deps = Reads(p)'
    BY <2>1, ReadsFixed DEF MemoShape, MemoInv, Settles, Computed, Known
  <2>2. Known(LinkOf)' => LinkDeps(memo'[LinkOf].deps)
    BY QueryKinds DEF MemoShape, MemoInv, Settles, Computed, Known
  <2>3. Known(ParseOf)' => \E s \in Source : Val(ParseOf)' = s.fns
    <3>1. CASE q = ParseOf
      <4>1. Derived(ParseOf, Input)'
        BY <3>1 DEF Computed, Feeds, ParseOf, LinkOf
      <4>. QED BY <4>1 DEF Derived, Settles
    <3>2. CASE q # ParseOf
      BY <3>2, QueryKinds DEF MemoInv, MemoShape, Settles, Known, Val
    <3>. QED BY <3>1, <3>2
  <2>4. DOMAIN memo' = Query
    BY DEF Settles
  <2>. QED BY <2>1, <2>2, <2>3, <2>4 DEF MemoShape
<1>2. ASSUME NEW p \in Query, memo'[p] # None, NEW i \in DOMAIN memo'[p].deps,
             NEW d, d = memo'[p].deps[i], d # Input
      PROVE  memo'[d] # None /\ memo'[p].verified <= memo'[d].verified
  <2>1. d \in Query
    <3>1. CASE p = LinkOf
      BY <1>1, <1>2, <3>1 DEF MemoShape, LinkDeps, Known
    <3>2. CASE p # LinkOf
      BY <1>1, <1>2, <3>2, ReadsFixed DEF MemoShape, Known
    <3>. QED BY <3>1, <3>2
  <2>2. CASE p = q
    <3>1. Ready(d) /\ memo'[d] = memo[d] /\ memo[d].verified = revision /\ memo[d] # None
      BY <1>2, <2>1, <2>2, SettlesReady DEF Settles, Ready
    <3>. QED BY <2>2, <3>1 DEF Settles
  <2>3. CASE p # q
    <3>1. memo'[p] = memo[p] /\ memo[p] # None /\ memo[d] # None /\ memo[p].verified <= memo[d].verified
      BY <1>2, <2>3 DEF Settles, Known, MemoInv, VerifiedInOrder
    <3>2. memo[p].verified \in 1..revision /\ memo[d].verified \in 1..revision
      BY <2>1, <3>1 DEF MemoInv, MemoShape, Known
    <3>3. CASE d = q
      BY <3>1, <3>2, <3>3 DEF Settles
    <3>4. CASE d # q
      BY <2>1, <3>1, <3>2, <3>4 DEF Settles
    <3>. QED BY <3>3, <3>4
  <2>. QED BY <2>2, <2>3
<1>. QED BY <1>1, <1>2 DEF VerifiedInOrder, Known

(***************************************************************************)
(* Whether a memo is derived from another depends on the two values only.  *)
(***************************************************************************)
LEMMA DerivedFrame ==
    ASSUME NEW p \in Query \ {LinkOf}, NEW d, Feeds(d, p), source' = source,
           memo'[p].val = memo[p].val,
           d # Input => memo'[d].val = memo[d].val
    PROVE  /\ Derived(p, d)' <=> Derived(p, d)
           /\ p[1] \in Codegen => (IrOf(p)' = IrOf(p) /\ IrOf(d)' = IrOf(d))
<1>1. CASE p = ParseOf
  BY <1>1 DEF Derived, Val, ParseOf, Codegen
<1>2. CASE p # ParseOf
  <2>1. d # Input
    BY <1>2, FeedsDown
  <2>. QED BY <1>2, <2>1 DEF Derived, Val, IrOf
<1>. QED BY <1>1, <1>2

(***************************************************************************)
(* What a known memo was computed from is known and was verified no        *)
(* earlier.                                                                *)
(***************************************************************************)
LEMMA KnownDependencies ==
    ASSUME MemoShape, VerifiedInOrder, NEW p \in Query, Known(p)
    PROVE  /\ p # LinkOf => \A d : Feeds(d, p) /\ d # Input =>
                                 Known(d) /\ memo[p].verified <= memo[d].verified
           /\ p = LinkOf => /\ Known(ParseOf) /\ memo[p].verified <= memo[ParseOf].verified
                            /\ \A i \in DOMAIN memo[p].deps :
                                  /\ memo[p].deps[i] \in Query
                                  /\ Known(memo[p].deps[i])
                                  /\ memo[p].verified <= memo[memo[p].deps[i]].verified
<1>1. CASE p # LinkOf
  <2>1. ASSUME NEW d, Feeds(d, p), d # Input
        PROVE  Known(d) /\ memo[p].verified <= memo[d].verified
    <3>1. PICK i \in DOMAIN memo[p].deps : memo[p].deps[i] = d
      BY <1>1, <2>1, ReadsFixed DEF MemoShape
    <3>. QED BY <2>1, <3>1 DEF VerifiedInOrder
  <2>. QED BY <1>1, <2>1
<1>2. CASE p = LinkOf
  <2>1. LinkDeps(memo[p].deps)
    BY <1>2 DEF MemoShape
  <2>2. \A i \in DOMAIN memo[p].deps : memo[p].deps[i] \in Query /\ memo[p].deps[i] # Input
    BY <2>1, QueryKinds DEF LinkDeps
  <2>3. 1 \in DOMAIN memo[p].deps /\ memo[p].deps[1] = ParseOf
    BY <2>1 DEF LinkDeps
  <2>. QED BY <1>2, <2>2, <2>3 DEF VerifiedInOrder
<1>. QED BY <1>1, <1>2

(***************************************************************************)
(* A new value of q is red for everything that has read the old one, so    *)
(* every memo still agrees with what has not changed under it.             *)
(***************************************************************************)
LEMMA SettlesAgrees ==
    ASSUME revision \in Nat, MemoInv, NEW q \in Query, Settles(q), Computed(q), Noticed(q)
    PROVE  Agrees'
<1>1. ASSUME NEW p \in Query \ {LinkOf}, memo'[p] # None, NEW d, Feeds(d, p),
             ~ChangedSince(d, memo[p].verified)'
      PROVE  Derived(p, d)'
  <2>1. CASE p = q
    BY <1>1, <2>1 DEF Computed
  <2>2. CASE p # q /\ d # q
    <3>1. memo'[p] = memo[p] /\ Known(p) /\ (d # Input => memo'[d] = memo[d])
      BY <1>1, <2>2, FeedsDown DEF Settles, Known
    <3>2. ~ChangedSince(d, memo[p].verified)
      BY <1>1, <3>1 DEF ChangedSince, Settles
    <3>3. Derived(p, d)
      BY <1>1, <3>1, <3>2 DEF MemoInv, Agrees
    <3>. QED BY <1>1, <3>1, <3>3, DerivedFrame DEF Settles
  <2>3. CASE p # q /\ d = q
    <3>1. memo'[p] = memo[p] /\ Known(p) /\ q # LinkOf /\ q # Input
      BY <1>1, <2>3, FeedsDown, QueryKinds DEF Settles, Known
    <3>2. Known(q) /\ memo[p].verified <= memo[q].verified
      BY <1>1, <2>3, <3>1, KnownDependencies DEF MemoInv
    <3>3. memo[p].verified \in 1..revision /\ memo[q].verified \in 1..revision
      BY <3>1, <3>2 DEF MemoInv, MemoShape
    <3>4. ~(memo'[q].changed > memo[p].verified)
      BY <1>1, <2>3, <3>1 DEF ChangedSince
    <3>5. memo'[q].val = memo[q].val /\ memo'[q].changed = memo[q].changed
      BY <3>1, <3>2, <3>3, <3>4 DEF Noticed, Settles
    <3>6. Derived(p, d)
      BY <1>1, <2>3, <3>1, <3>4, <3>5 DEF MemoInv, Agrees, ChangedSince
    <3>. QED BY <1>1, <2>3, <3>1, <3>5, <3>6, DerivedFrame DEF Settles
  <2>. QED BY <2>1, <2>2, <2>3
<1>. QED BY <1>1 DEF Agrees, Known

(***************************************************************************)
(* What link made of a module still agrees with it (query/src/lib.rs:      *)
(* 88-97): new code for one of its functions turns link red.               *)
(***************************************************************************)
LEMMA SettlesLinkAgrees ==
    ASSUME source \in Source, revision \in Nat, MemoInv,
           NEW q \in Query, Settles(q), Computed(q), Noticed(q)
    PROVE  LinkAgrees'
<1>. SUFFICES ASSUME memo'[LinkOf] # None, ~ChangedSince(ParseOf, memo[LinkOf].verified)'
              PROVE  /\ memo'[LinkOf].deps = <<ParseOf>> \o CodeOf(memo'[ParseOf].val)
                     /\ DOMAIN memo'[LinkOf].val = DOMAIN memo'[ParseOf].val
                     /\ \A i \in DOMAIN memo'[ParseOf].val :
                           LET e == EmitOf(memo'[ParseOf].val[i].name)
                           IN  ~(memo'[e].changed > memo'[LinkOf].verified)
                                  => memo'[LinkOf].val[i] = memo'[e].val
  <2>. \A f : EmitOf(f) # Input
    BY DEF EmitOf, Input
  <2>. QED BY DEF LinkAgrees, Known, Val, ChangedSince
<1>. ParseOf \in Query /\ LinkOf \in Query /\ ParseOf # LinkOf /\ ParseOf # Input
  BY QueryKinds DEF ParseOf, LinkOf, Input
<1>1. CASE q = LinkOf
  <2>1. LinkDeps(memo'[q].deps) /\ 1 \in DOMAIN memo'[q].deps
    BY <1>1 DEF Computed, LinkDeps
  <2>2. Ready(ParseOf)
    BY <2>1 DEF Settles, LinkDeps
  <2>3. Val(ParseOf) = source.fns /\ memo'[ParseOf] = memo[ParseOf]
    BY <1>1, <2>2, ReadyIsFresh DEF MemoInv, Settles
  <2>4. \A i \in DOMAIN source.fns : EmitOf(source.fns[i].name) \in Query \ {LinkOf}
    BY ModuleReads DEF EmitOf, LinkOf
  <2>5. \A i \in DOMAIN source.fns : memo'[EmitOf(source.fns[i].name)] = memo[EmitOf(source.fns[i].name)]
    BY <1>1, <2>4 DEF Settles
  <2>. QED BY <1>1, <2>3, <2>5 DEF Computed, Val
<1>2. CASE q # LinkOf
  <2>1. memo'[LinkOf] = memo[LinkOf] /\ Known(LinkOf)
    BY <1>2 DEF Settles, Known
  <2>2. \A p \in Query : Known(p) => memo[p].verified \in 1..revision
    BY DEF MemoInv, MemoShape
  <2>3. ASSUME NEW d \in Query, Known(d), memo[LinkOf].verified <= memo[d].verified,
               ~(memo'[d].changed > memo[LinkOf].verified)
        PROVE  memo'[d].val = memo[d].val /\ ~(memo[d].changed > memo[LinkOf].verified)
    <3>1. CASE d # q
      BY <2>3, <3>1 DEF Settles
    <3>2. CASE d = q
      <4>1. ~(memo'[d].changed > memo[d].verified)
        BY <2>1, <2>2, <2>3, <3>2 DEF Settles
      <4>. QED BY <1>2, <2>3, <3>2, <4>1 DEF Noticed
    <3>. QED BY <3>1, <3>2
  <2>4. Known(ParseOf) /\ memo[LinkOf].verified <= memo[ParseOf].verified
    BY <2>1, KnownDependencies DEF MemoInv
  <2>5. memo'[ParseOf].val = memo[ParseOf].val /\ ~ChangedSince(ParseOf, memo[LinkOf].verified)
    BY <2>1, <2>3, <2>4 DEF ChangedSince
  <2>6. PICK s \in Source : Val(ParseOf) = s.fns
    BY <2>4 DEF MemoInv, MemoShape
  <2>7. /\ memo[LinkOf].deps = <<ParseOf>> \o CodeOf(s.fns)
        /\ DOMAIN Val(LinkOf) = DOMAIN s.fns
        /\ \A i \in DOMAIN s.fns :
              LET e == EmitOf(s.fns[i].name)
              IN  ~ChangedSince(e, memo[LinkOf].verified) => Val(LinkOf)[i] = Val(e)
    BY <2>1, <2>5, <2>6 DEF MemoInv, LinkAgrees
  <2>8. ASSUME NEW i \in DOMAIN s.fns, NEW e, e = EmitOf(s.fns[i].name),
               ~(memo'[e].changed > memo[LinkOf].verified)
        PROVE  memo[LinkOf].val[i] = memo'[e].val
    <3>1. i + 1 \in DOMAIN memo[LinkOf].deps /\ memo[LinkOf].deps[i + 1] = e
      BY <2>7, <2>8, ModuleReads
    <3>2. e \in Query /\ Known(e) /\ memo[LinkOf].verified <= memo[e].verified
      BY <2>1, <3>1, KnownDependencies DEF MemoInv
    <3>3. memo'[e].val = memo[e].val /\ ~(memo[e].changed > memo[LinkOf].verified)
      BY <2>3, <2>8, <3>2
    <3>4. e # Input
      BY <2>8 DEF EmitOf, Input
    <3>. QED BY <2>7, <2>8, <3>3, <3>4 DEF ChangedSince, Val
  <2>. QED BY <2>1, <2>5, <2>6, <2>7, <2>8 DEF Val
<1>. QED BY <1>1, <1>2

(***************************************************************************)
(* New IR under a codegen query is IR its memo was not made for, because   *)
(* no edit comes between: it was made for the IR just replaced.            *)
(***************************************************************************)
LEMMA SettlesRed ==
    ASSUME revision \in Nat, MemoInv, OneRevision, status = "running",
           NEW q \in Query, Settles(q), Computed(q), Noticed(q)
    PROVE  RedIsDifferent'
<1>. SUFFICES ASSUME NEW p \in Query \ {LinkOf}, p[1] \in Codegen, memo'[p] # None,
                     NEW d, Feeds(d, p), d # Input,
                     memo'[d].changed > memo'[p].verified
              PROVE  IrOf(p)' # IrOf(d)'
  <2>1. \A p \in Query : p[1] \in Codegen => p # LinkOf /\ p # ParseOf
    BY DEF Codegen, LinkOf, ParseOf
  <2>2. \A p \in Query : \A d : p[1] \in Codegen /\ Feeds(d, p) => d # Input
    BY <2>1, FeedsDown
  <2>. QED BY <2>1, <2>2 DEF RedIsDifferent, Known, ChangedSince
<1>1. CASE p = q
  <2>1. PICK i \in DOMAIN memo'[q].deps : memo'[q].deps[i] = d
    BY <1>1, ReadsFixed DEF Computed
  <2>2. Ready(d) /\ d \in Query
    BY <2>1, FeedsDown DEF Settles
  <2>3. memo'[d] = memo[d] /\ memo[d].changed \in 1..revision
    BY <2>2, SettlesReady DEF Ready, MemoInv, MemoShape, Known
  <2>. QED BY <1>1, <2>3 DEF Settles
<1>2. CASE p # q /\ d # q
  <2>1. memo'[p] = memo[p] /\ memo'[d] = memo[d]
    BY <1>2, FeedsDown DEF Settles
  <2>2. IrOf(p) # IrOf(d)
    BY <2>1 DEF MemoInv, RedIsDifferent, Known, ChangedSince
  <2>. QED BY <2>1, <2>2, DerivedFrame DEF Settles
<1>3. CASE p # q /\ d = q
  <2>1. memo'[p] = memo[p] /\ Known(p) /\ q # LinkOf
    BY <1>3, FeedsDown DEF Settles, Known
  <2>2. Known(q) /\ memo[p].verified <= memo[q].verified
    BY <1>3, <2>1, KnownDependencies DEF MemoInv
  <2>3. /\ memo[p].verified \in 1..revision /\ memo[q].verified \in 1..revision
        /\ memo[q].changed \in 1..memo[q].verified
    BY <2>1, <2>2 DEF MemoInv, MemoShape
  <2>4. memo[p].verified = memo[q].verified
    BY <1>3, <2>1 DEF OneRevision, Settles
  <2>5. ~ChangedSince(q, memo[p].verified)
    BY <1>3, <2>3, <2>4 DEF ChangedSince
  <2>6. Derived(p, q)
    BY <1>3, <2>1, <2>5 DEF MemoInv, Agrees
  <2>7. CASE memo'[q].val = memo[q].val /\ memo'[q].changed = memo[q].changed
    BY <1>3, <2>1, <2>5, <2>7 DEF ChangedSince
  <2>8. CASE IrOf(q)' # IrOf(q)
    <3>1. IrOf(p)' = IrOf(p)
      BY <2>1 DEF IrOf, Val
    <3>2. IrOf(p) = IrOf(q)
      BY <2>6 DEF Derived
    <3>. QED BY <1>3, <2>8, <3>1, <3>2
  <2>9. q[1] \in Codegen \cup {"optimize_ir"}
    BY <1>3 DEF Feeds, Codegen, ParseOf
  <2>. QED BY <2>1, <2>2, <2>7, <2>8, <2>9 DEF Noticed
<1>. QED BY <1>1, <1>2, <1>3

-----------------------------------------------------------------------------
(* The stack of queries                                                     *)

(***************************************************************************)
(* The innermost query and the ones below it.                              *)
(***************************************************************************)
LEMMA StackParts ==
    ASSUME stack \in Seq(Activity), stack # <<>>
    PROVE  /\ Len(stack) \in Nat \ {0}
           /\ DOMAIN stack = 1..Len(stack)
           /\ Len(stack) \in DOMAIN stack
           /\ Top \in Activity
           /\ Below \in Seq(Activity)
           /\ Len(Below) = Len(stack) - 1
           /\ DOMAIN Below = 1..(Len(stack) - 1)
           /\ \A i \in 1..(Len(stack) - 1) : Below[i] = stack[i]
           /\ Below # <<>> <=> Len(stack) > 1
           /\ \A i \in DOMAIN stack : stack[i] \in Activity /\ stack[i].q \in Query
<1>1. Len(stack) \in Nat \ {0} /\ DOMAIN stack = 1..Len(stack)
  BY EmptySeq
<1>2. Below \in Seq(Activity) /\ Len(Below) = Len(stack) - 1
  BY <1>1, SubSeqProperties DEF Below
<1>3. \A i \in 1..(Len(stack) - 1) : Below[i] = stack[i]
  BY <1>1, SubSeqProperties DEF Below
<1>4. \A i \in DOMAIN stack : stack[i] \in Activity
  OBVIOUS
<1>5. \A a \in Activity : a.q \in Query
  BY DEF Activity
<1>. QED BY <1>1, <1>2, <1>3, <1>4, <1>5 DEF Top

(***************************************************************************)
(* Only a query of a rank below the innermost one's may go on top of it.   *)
(***************************************************************************)
LEMMA PushShape ==
    ASSUME StackShape, stack # <<>>, NEW d \in Query, Push(d), Rank(d) < Rank(Top.q),
           d[1] \in PerFn => \/ d = EmitOf(d[2])
                             \/ Top.q[1] \in PerFn /\ Top.q[2] = d[2],
           UNCHANGED <<status, reply>>
    PROVE  /\ StackShape'
           /\ DOMAIN stack' = 1..(Len(stack) + 1)
           /\ \A i \in DOMAIN stack : stack'[i] = stack[i]
           /\ stack'[Len(stack) + 1] = Fetching(d)
<1>1. Fetching(d) \in Activity /\ Fetching(d).q = d
  BY DEF Fetching, Activity
<1>. DEFINE n == Len(stack)
<1>2. n \in Nat \ {0} /\ DOMAIN stack = 1..n /\ Top = stack[n] /\ stack \in Seq(Activity)
  BY StackParts DEF StackShape, Top
<1>3. /\ stack' \in Seq(Activity) /\ DOMAIN stack' = 1..(n + 1)
      /\ \A i \in 1..n : stack'[i] = stack[i]
      /\ stack'[n + 1] = Fetching(d)
  BY <1>1, <1>2, AppendProperties DEF Push
<1>4. \A q \in Query : Rank(q) \in Int
  BY QueryKinds DEF Rank, PerFn, Codegen, ParseOf, LinkOf
<1>5. \A i \in 1..n : stack[i].q \in Query
  BY StackParts DEF StackShape
<1>6. \A i, j \in 1..(n + 1) : i < j => Rank(stack'[j].q) < Rank(stack'[i].q)
  <2>1. \A i, j \in 1..n : i < j => Rank(stack[j].q) < Rank(stack[i].q)
    BY <1>2 DEF StackShape
  <2>2. \A i \in 1..n : Rank(d) < Rank(stack[i].q)
    BY <1>2, <1>4, <1>5, <2>1
  <2>. QED BY <1>1, <1>2, <1>3, <2>1, <2>2
<1>7. ASSUME NEW i \in 1..(n + 1), stack'[i].q[1] \in PerFn
      PROVE  \E j \in 1..i : stack'[j].q = EmitOf(stack'[i].q[2])
  <2>1. \A k \in 1..n : stack[k].q[1] \in PerFn => \E j \in 1..k : stack[j].q = EmitOf(stack[k].q[2])
    BY <1>2 DEF StackShape
  <2>2. CASE i \in 1..n
    BY <1>2, <1>3, <1>7, <2>1, <2>2
  <2>3. CASE i = n + 1 /\ d = EmitOf(d[2])
    BY <1>1, <1>2, <1>3, <2>3
  <2>4. CASE i = n + 1 /\ Top.q[1] \in PerFn /\ Top.q[2] = d[2]
    <3>1. PICK j \in 1..n : stack[j].q = EmitOf(d[2])
      BY <1>2, <2>1, <2>4
    <3>. QED BY <1>1, <1>2, <1>3, <2>4, <3>1
  <2>. QED BY <1>1, <1>2, <1>3, <1>7, <2>2, <2>3, <2>4
<1>8. status' = "running" /\ reply'.q = Input
  BY DEF StackShape
<1>. QED BY <1>2, <1>3, <1>6, <1>7, <1>8 DEF StackShape

(***************************************************************************)
(* Replacing the last element of a sequence.                               *)
(***************************************************************************)
LEMMA ReplaceLast ==
    ASSUME NEW A, NEW s \in Seq(A), NEW n \in Nat \ {0}, Len(s) = n - 1, NEW a \in A
    PROVE  /\ Append(s, a) \in Seq(A)
           /\ DOMAIN Append(s, a) = 1..n
           /\ \A i \in 1..(n - 1) : Append(s, a)[i] = s[i]
           /\ Append(s, a)[n] = a
<1>1. (n - 1) + 1 = n
  OBVIOUS
<1>2. Append(s, a) \in Seq(A) /\ Len(Append(s, a)) = n
  BY <1>1, AppendProperties
<1>. QED BY <1>1, <1>2, AppendProperties

(***************************************************************************)
(* Moving on within the innermost query.                                   *)
(***************************************************************************)
LEMMA BecomeShape ==
    ASSUME StackShape, stack # <<>>, NEW mode \in {"verify", "execute"}, NEW pos \in Nat \ {0},
           Become(mode, pos), UNCHANGED <<status, reply>>
    PROVE  /\ StackShape'
           /\ DOMAIN stack' = DOMAIN stack
           /\ \A i \in DOMAIN stack : i # Len(stack) => stack'[i] = stack[i]
           /\ stack'[Len(stack)] = [q |-> Top.q, mode |-> mode, pos |-> pos]
           /\ \A i \in DOMAIN stack : stack'[i].q = stack[i].q
<1>. DEFINE n == Len(stack)
            a == [q |-> Top.q, mode |-> mode, pos |-> pos]
<1>1. n \in Nat \ {0} /\ DOMAIN stack = 1..n /\ Top = stack[n] /\ Top \in Activity
  BY StackParts DEF StackShape, Top
<1>2. Below \in Seq(Activity) /\ Len(Below) = n - 1 /\ \A i \in 1..(n - 1) : Below[i] = stack[i]
  BY StackParts DEF StackShape
<1>3. a \in Activity /\ a.q = Top.q
  BY <1>1 DEF Activity
<1>4. stack' = Append(Below, a)
  BY DEF Become
<1>. HIDE DEF n, a
<1>5. /\ stack' \in Seq(Activity) /\ DOMAIN stack' = 1..n
      /\ \A i \in 1..(n - 1) : stack'[i] = stack[i]
      /\ stack'[n] = a
  BY <1>1, <1>2, <1>3, <1>4, ReplaceLast
<1>6. \A i \in 1..n : stack'[i].q = stack[i].q
  BY <1>1, <1>3, <1>5
<1>7. /\ \A i, j \in DOMAIN stack' : i < j => Rank(stack'[j].q) < Rank(stack'[i].q)
      /\ \A i \in DOMAIN stack' : stack'[i].q[1] \in PerFn =>
            \E j \in 1..i : stack'[j].q = EmitOf(stack'[i].q[2])
  <2>1. \A i \in 1..n : \A j \in 1..i : stack'[j].q = stack[j].q
    BY <1>1, <1>6
  <2>. QED BY <1>1, <1>5, <1>6, <2>1 DEF StackShape
<1>8. status' = "running" /\ reply'.q = Input
  BY DEF StackShape
<1>9. \A i \in DOMAIN stack : i # n => stack'[i] = stack[i]
  BY <1>1, <1>5
<1>. QED BY <1>1, <1>5, <1>6, <1>7, <1>8, <1>9 DEF StackShape, n, a

(***************************************************************************)
(* Returning from the innermost query.                                     *)
(***************************************************************************)
LEMMA PopShape ==
    ASSUME StackShape, stack # <<>>, NEW val, Return(val), UNCHANGED status
    PROVE  /\ StackShape'
           /\ DOMAIN stack' = 1..(Len(stack) - 1)
           /\ \A i \in DOMAIN stack' : i \in DOMAIN stack /\ i < Len(stack) /\ stack'[i] = stack[i]
           /\ stack' = <<>> <=> Len(stack) = 1
           /\ stack' = <<>> => reply' = [q |-> Top.q, val |-> val]
           /\ stack' # <<>> => reply' = reply
<1>1. /\ Len(stack) \in Nat \ {0} /\ DOMAIN stack = 1..Len(stack)
      /\ stack' \in Seq(Activity)
      /\ DOMAIN stack' = 1..(Len(stack) - 1)
      /\ \A i \in 1..(Len(stack) - 1) : stack'[i] = stack[i]
      /\ stack' # <<>> <=> Len(stack) > 1
  BY StackParts DEF StackShape, Return
<1>2. /\ stack' # <<>> => reply' = reply
      /\ stack' = <<>> => reply' = [q |-> Top.q, val |-> val]
  BY DEF Return
<1>3. \A i \in DOMAIN stack' : i \in DOMAIN stack /\ i < Len(stack) /\ stack'[i] = stack[i]
  BY <1>1
<1>4. /\ \A i, j \in DOMAIN stack' : i < j => Rank(stack'[j].q) < Rank(stack'[i].q)
      /\ \A i \in DOMAIN stack' : stack'[i].q[1] \in PerFn =>
            \E j \in 1..i : stack'[j].q = EmitOf(stack'[i].q[2])
  <2>1. \A i \in DOMAIN stack' : \A j \in 1..i : stack'[j] = stack[j]
    BY <1>1
  <2>. QED BY <1>3, <2>1 DEF StackShape
<1>5. stack' # <<>> => status' = "running" /\ reply'.q = Input
  BY <1>2 DEF StackShape
<1>6. StackShape'
  BY <1>1, <1>4, <1>5 DEF StackShape
<1>7. stack' = <<>> <=> Len(stack) = 1
  BY <1>1
<1>. QED BY <1>1, <1>2, <1>3, <1>6, <1>7

-----------------------------------------------------------------------------
(* What a query under way may ask for                                       *)

\* A query that q may put on the stack.
Under(d, q) ==
    /\ d \in Query
    /\ Rank(d) < Rank(q)
    /\ d[1] \in PerFn => \/ d = EmitOf(d[2])
                         \/ q[1] \in PerFn /\ q[2] = d[2]

(***************************************************************************)
(* What link reads, before and after a step.                               *)
(***************************************************************************)
LEMMA ReadsOfLink ==
    ASSUME NEW q, q = LinkOf
    PROVE  Reads(q) = LinkReads /\ Reads(q)' = LinkReads'
<1>1. Reads(q) = LinkReads
  BY DEF Reads, LinkOf, ParseOf
<1>2. Reads(q)' = LinkReads'
  BY DEF Reads, LinkOf, ParseOf
<1>. QED BY <1>1, <1>2

(***************************************************************************)
(* Link reads the module and nothing else until the module is ready        *)
(* (query/src/lib.rs:88-97).                                               *)
(***************************************************************************)
LEMMA LinkReadsKind ==
    MemoShape => /\ LinkDeps(LinkReads)
                 /\ DOMAIN LinkReads = 1..Len(LinkReads)
                 /\ Ready(ParseOf) => LinkReads = <<ParseOf>> \o CodeOf(Val(ParseOf))
                 /\ ~Ready(ParseOf) => Len(LinkReads) = 1
<1>. SUFFICES ASSUME MemoShape
              PROVE  /\ LinkDeps(LinkReads)
                     /\ DOMAIN LinkReads = 1..Len(LinkReads)
                     /\ Ready(ParseOf) => LinkReads = <<ParseOf>> \o CodeOf(Val(ParseOf))
                     /\ ~Ready(ParseOf) => Len(LinkReads) = 1
  OBVIOUS
<1>1. CASE Ready(ParseOf)
  <2>1. PICK s \in Source : Val(ParseOf) = s.fns
    BY <1>1 DEF MemoShape, Ready, Known, ParseOf, Input
  <2>. QED BY <1>1, <2>1, ModuleReads DEF LinkReads
<1>2. CASE ~Ready(ParseOf)
  <2>1. LinkReads = <<ParseOf>>
    BY <1>2, QueryKinds DEF LinkReads
  <2>. QED BY <1>2, <2>1, QueryKinds DEF LinkDeps
<1>. QED BY <1>1, <1>2

(***************************************************************************)
(* The queries link depends on are under it.                               *)
(***************************************************************************)
LEMMA LinkDepsUnder ==
    ASSUME NEW deps, LinkDeps(deps), NEW i \in DOMAIN deps
    PROVE  /\ DOMAIN deps = 1..Len(deps)
           /\ Under(deps[i], LinkOf)
           /\ deps[i] # Input
           /\ deps[i] = ParseOf \/ \E f \in Fn : deps[i] = EmitOf(f)
<1>1. DOMAIN deps = 1..Len(deps) /\ deps[i] \in Query
  BY DEF LinkDeps
<1>2. deps[i] = ParseOf \/ \E f \in Fn : deps[i] = EmitOf(f)
  BY <1>1 DEF LinkDeps
<1>3. Under(deps[i], LinkOf)
  BY <1>1, <1>2 DEF Under, Rank, ParseOf, EmitOf, LinkOf, PerFn, Codegen
<1>. QED BY <1>1, <1>2, <1>3, QueryKinds

(***************************************************************************)
(* What a memo was computed from, and what a query under way reads, is the *)
(* text or a query under it.                                               *)
(***************************************************************************)
LEMMA DependenciesUnder ==
    ASSUME MemoShape, NEW q \in Query
    PROVE  /\ DOMAIN Reads(q) = 1..Len(Reads(q)) /\ Len(Reads(q)) \in Nat
           /\ \A i \in DOMAIN Reads(q) : Reads(q)[i] = Input \/ Under(Reads(q)[i], q)
           /\ Known(q) =>
                 /\ DOMAIN memo[q].deps = 1..Len(memo[q].deps) /\ Len(memo[q].deps) \in Nat
                 /\ \A i \in DOMAIN memo[q].deps : memo[q].deps[i] = Input \/ Under(memo[q].deps[i], q)
<1>1. CASE q # LinkOf
  <2>1. ASSUME NEW d, Feeds(d, q)
        PROVE  d = Input \/ Under(d, q)
    <3>1. d[1] \in PerFn => q[1] \in PerFn /\ q[2] = d[2]
      BY <2>1 DEF Feeds, PerFn, Codegen, ParseOf, Input
    <3>. QED BY <1>1, <2>1, <3>1, FeedsDown DEF Under
  <2>. QED BY <1>1, <2>1, ReadsFixed DEF MemoShape
<1>2. CASE q = LinkOf
  <2>1. Reads(q) = LinkReads /\ LinkDeps(LinkReads)
    BY <1>2, ReadsOfLink, LinkReadsKind
  <2>2. Known(q) => LinkDeps(memo[q].deps)
    BY <1>2 DEF MemoShape
  <2>. QED BY <1>2, <2>1, <2>2, LinkDepsUnder DEF LinkDeps
<1>. QED BY <1>1, <1>2

-----------------------------------------------------------------------------
(* A query returns                                                          *)

\* The memo of q is good, and no good memo has changed.
Answers(q) ==
    /\ UNCHANGED <<source, revision>>
    /\ Ready(q)'
    /\ \A p \in Query \ {q} : memo'[p] = memo[p]
    /\ Ready(q) => memo'[q] = memo[q]

(***************************************************************************)
(* A good memo stays, and only the memo of q may become good.              *)
(***************************************************************************)
LEMMA AnswersReady ==
    ASSUME NEW q \in Query, Answers(q)
    PROVE  /\ \A d \in Query \cup {Input} : Ready(d) => Ready(d)'
           /\ \A d \in Query : Ready(d) => memo'[d] = memo[d]
           /\ \A d \in Query \ {q} : Ready(d)' <=> Ready(d)
           /\ \A d \in Query \cup {Input} : \A rev :
                 Ready(d) => (ChangedSince(d, rev)' <=> ChangedSince(d, rev))
<1>1. \A d \in Query : Ready(d) => memo'[d] = memo[d]
  BY DEF Answers
<1>2. /\ \A d \in Query \cup {Input} : Ready(d) => Ready(d)'
      /\ \A d \in Query \ {q} : Ready(d)' <=> Ready(d)
  BY <1>1, QueryKinds DEF Answers, Ready
<1>. QED BY <1>1, <1>2 DEF ChangedSince, Answers

(***************************************************************************)
(* What the queries further out have found so far stays found.             *)
(***************************************************************************)
LEMMA WalkedKeeps ==
    ASSUME MemoShape, MemoShape', NEW q \in Query, Answers(q),
           NEW a \in Activity, a.q # q, Walked(a)
    PROVE  Walked(a)'
<1>1. a.q \in Query /\ a.mode \in {"fetch", "verify", "execute"} /\ a.pos \in Nat \ {0}
  BY DEF Activity
<1>2. memo'[a.q] = memo[a.q] /\ (Known(a.q)' <=> Known(a.q)) /\ (Ready(a.q)' <=> Ready(a.q))
  BY <1>1, AnswersReady DEF Answers, Known
<1>3. \A i \in DOMAIN memo[a.q].deps : Known(a.q) =>
          memo[a.q].deps[i] \in Query \cup {Input}
  BY <1>1, DependenciesUnder DEF Under
<1>4. ASSUME a.mode = "verify"
      PROVE  /\ Known(a.q)'
             /\ \A j \in DOMAIN memo'[a.q].deps : j < a.pos =>
                   /\ Ready(memo[a.q].deps[j])'
                   /\ ~ChangedSince(memo[a.q].deps[j], memo[a.q].verified)'
  <2>1. Known(a.q)
    BY <1>4 DEF Walked
  <2>2. ASSUME NEW j \in DOMAIN memo[a.q].deps, j < a.pos, NEW d, d = memo[a.q].deps[j],
               NEW rev, rev = memo[a.q].verified
        PROVE  Ready(d)' /\ ~ChangedSince(d, rev)'
    <3>1. d \in Query \cup {Input} /\ Ready(d) /\ ~ChangedSince(d, rev)
      BY <1>3, <1>4, <2>1, <2>2 DEF Walked
    <3>. QED BY <3>1, AnswersReady
  <2>. QED BY <1>2, <2>1, <2>2
<1>5. ASSUME a.mode = "execute", Known(a.q)'
      PROVE  \E j \in DOMAIN memo'[a.q].deps :
                   /\ Ready(memo[a.q].deps[j])'
                   /\ ChangedSince(memo[a.q].deps[j], memo[a.q].verified)'
  <2>1. Known(a.q)
    BY <1>2, <1>5
  <2>2. PICK j \in DOMAIN memo[a.q].deps :
            Ready(memo[a.q].deps[j]) /\ ChangedSince(memo[a.q].deps[j], memo[a.q].verified)
    BY <1>5, <2>1 DEF Walked
  <2>3. ASSUME NEW d, d = memo[a.q].deps[j], NEW rev, rev = memo[a.q].verified
        PROVE  Ready(d)' /\ ChangedSince(d, rev)'
    <3>1. d \in Query \cup {Input} /\ Ready(d) /\ ChangedSince(d, rev)
      BY <1>3, <2>1, <2>2, <2>3
    <3>. QED BY <3>1, AnswersReady
  <2>. QED BY <1>2, <2>2, <2>3
<1>6. ASSUME a.mode = "execute", NEW j \in DOMAIN Reads(a.q)', j < a.pos,
             NEW d, d = Reads(a.q)'[j]
      PROVE  Ready(d)'
  <2>1. CASE a.q # LinkOf
    <3>1. Reads(a.q)' = Reads(a.q) /\ Reads(a.q)[j] \in Query \cup {Input}
      BY <1>1, <1>6, <2>1, ReadsFixed
    <3>2. Ready(d)
      BY <1>6, <3>1 DEF Walked
    <3>. QED BY <1>6, <3>1, <3>2, AnswersReady
  <2>2. CASE a.q = LinkOf
    <3>1. /\ Reads(a.q) = LinkReads /\ Reads(a.q)' = LinkReads'
          /\ LinkDeps(LinkReads) /\ DOMAIN LinkReads = 1..Len(LinkReads)
      BY <2>2, ReadsOfLink, LinkReadsKind
    <3>2. (LinkDeps(LinkReads) /\ DOMAIN LinkReads = 1..Len(LinkReads))'
      BY LinkReadsKind, PTL
    <3>3. 1 \in DOMAIN LinkReads /\ LinkReads[1] = ParseOf /\ 1 < a.pos
      BY <1>1, <1>6, <3>1, <3>2 DEF LinkDeps
    <3>4. Ready(ParseOf)
      BY <1>6, <3>1, <3>3 DEF Walked
    <3>5. Ready(ParseOf)' /\ Val(ParseOf)' = Val(ParseOf)
      BY <3>4, AnswersReady, QueryKinds DEF Val
    <3>6. LinkReads' = LinkReads
      BY <3>4, <3>5 DEF LinkReads, CodeOf
    <3>7. Ready(d) /\ d \in Query
      BY <1>6, <3>1, <3>6, LinkDepsUnder DEF Walked, Under
    <3>. QED BY <3>7, AnswersReady
  <2>. QED BY <2>1, <2>2
<1>7. a.mode # "fetch" => ~Ready(a.q)'
  BY <1>2 DEF Walked
<1>. QED BY <1>2, <1>4, <1>5, <1>6, <1>7 DEF Walked

(***************************************************************************)
(* When the memo of a codegen query is good, so are the ones it hangs on,  *)
(* down to the optimised IR.                                               *)
(***************************************************************************)
LEMMA ReadyChain ==
    revision \in Nat /\ MemoInv =>
        /\ \A p \in Query : p[1] \in Codegen /\ Ready(p) =>
              \A d : Feeds(d, p) => /\ d \in Query
                                    /\ Ready(d)
                                    /\ memo[d].verified = memo[p].verified
        /\ \A f \in Fn : Ready(EmitOf(f)) => \A s \in Codegen : Ready(<<s, f>>)
<1>. SUFFICES ASSUME revision \in Nat, MemoInv
              PROVE  /\ \A p \in Query : p[1] \in Codegen /\ Ready(p) =>
                          \A d : Feeds(d, p) => /\ d \in Query
                                                /\ Ready(d)
                                                /\ memo[d].verified = memo[p].verified
                     /\ \A f \in Fn : Ready(EmitOf(f)) => \A s \in Codegen : Ready(<<s, f>>)
  OBVIOUS
<1>1. ASSUME NEW p \in Query, p[1] \in Codegen, Ready(p), NEW d, Feeds(d, p)
      PROVE  d \in Query /\ Ready(d) /\ memo[d].verified = memo[p].verified
  <2>1. p # LinkOf /\ p # ParseOf /\ p # Input
    BY <1>1, QueryKinds DEF Codegen, LinkOf, ParseOf
  <2>2. d \in Query /\ d # Input /\ Ready(d)
    BY <1>1, <2>1, FeedsDown, ReadyDependencies DEF MemoInv
  <2>. QED BY <1>1, <2>1, <2>2 DEF Ready
<1>2. ASSUME NEW f \in Fn, Ready(EmitOf(f)), NEW s \in Codegen
      PROVE  Ready(<<s, f>>)
  <2>1. \A c \in Codegen : <<c, f>> \in Query
    BY QueryKinds DEF PerFn
  <2>2. /\ Feeds(<<"schedule", f>>, <<"emit", f>>)
        /\ Feeds(<<"select_instructions", f>>, <<"schedule", f>>)
        /\ Feeds(<<"allocate_registers", f>>, <<"select_instructions", f>>)
    BY DEF Feeds
  <2>3. Ready(<<"schedule", f>>)
    BY <1>1, <1>2, <2>1, <2>2 DEF EmitOf, Codegen
  <2>4. Ready(<<"select_instructions", f>>)
    BY <1>1, <2>1, <2>2, <2>3 DEF Codegen
  <2>5. Ready(<<"allocate_registers", f>>)
    BY <1>1, <2>1, <2>2, <2>4 DEF Codegen
  <2>. QED BY <1>2, <2>3, <2>4, <2>5 DEF EmitOf, Codegen
<1>. QED BY <1>1, <1>2

(***************************************************************************)
(* When the code of a function is handed out, every codegen memo of it is  *)
(* of this revision; until then its request is under way.                  *)
(***************************************************************************)
LEMMA ReturnOneRevision ==
    ASSUME IInv, MemoInv', stack # <<>>, NEW q, q = Top.q, Answers(q), UNCHANGED status,
           Return(memo'[q].val)
    PROVE  OneRevision'
<1>1. status = "running" /\ StackShape /\ revision' = revision /\ revision' \in Nat
  BY DEF IInv, StackShape, Answers
<1>2. /\ q \in Query
      /\ Len(stack) \in Nat \ {0} /\ DOMAIN stack = 1..Len(stack) /\ q = stack[Len(stack)].q
      /\ DOMAIN stack' = 1..(Len(stack) - 1)
      /\ \A i \in 1..(Len(stack) - 1) : stack'[i] = stack[i]
  BY <1>1, StackParts, PopShape DEF StackShape, Top, Activity
<1>3. (/\ \A p \in Query : p[1] \in Codegen /\ Ready(p) =>
             \A d : Feeds(d, p) => /\ d \in Query
                                   /\ Ready(d)
                                   /\ memo[d].verified = memo[p].verified
       /\ \A f \in Fn : Ready(EmitOf(f)) => \A s \in Codegen : Ready(<<s, f>>))'
  <2>1. (revision \in Nat /\ MemoInv)'
    BY <1>1
  <2>. QED BY <2>1, ReadyChain, PTL
<1>4. ASSUME NEW p \in Query, p[1] \in Codegen, memo'[p] # None, NEW d, Feeds(d, p)
      PROVE  \/ memo'[p].verified = memo'[d].verified
             \/ Ready(d)' /\ \E i \in DOMAIN stack' : stack'[i].q = EmitOf(p[2])
  <2>1. p # LinkOf /\ p # ParseOf /\ p[2] \in Fn /\ p = <<p[1], p[2]>>
    BY <1>4, QueryKinds DEF Codegen, LinkOf, ParseOf
  <2>2. d \in Query /\ d # LinkOf /\ d # Input /\ d # p
    BY <1>4, <2>1, FeedsDown
  <2>3. CASE Ready(p)'
    BY <1>3, <1>4, <2>3
  <2>4. CASE ~Ready(p)'
    <3>1. p # q /\ memo'[p] = memo[p] /\ Known(p)
      BY <1>4, <2>4 DEF Answers, Known
    <3>2. \/ memo[p].verified = memo[d].verified
          \/ Ready(d) /\ \E i \in DOMAIN stack : stack[i].q = EmitOf(p[2])
      BY <1>1, <1>4, <3>1 DEF IInv, OneRevision
    <3>3. CASE Ready(d) /\ \E i \in DOMAIN stack : stack[i].q = EmitOf(p[2])
      <4>1. PICK i \in DOMAIN stack : stack[i].q = EmitOf(p[2])
        BY <3>3
      <4>2. Ready(d)'
        BY <1>2, <2>2, <3>3, AnswersReady
      <4>3. i # Len(stack)
        <5>1. CASE i = Len(stack)
          <6>1. Ready(EmitOf(p[2]))'
            BY <1>2, <4>1, <5>1 DEF Answers
          <6>2. Ready(<<p[1], p[2]>>)'
            BY <1>3, <1>4, <2>1, <6>1
          <6>. QED BY <2>1, <2>4, <6>2
        <5>. QED BY <5>1
      <4>4. i \in 1..(Len(stack) - 1)
        BY <1>2, <4>1, <4>3
      <4>. QED BY <1>2, <4>1, <4>2, <4>4
    <3>4. CASE memo[p].verified = memo[d].verified /\ (d # q \/ Ready(d))
      BY <2>2, <3>1, <3>4 DEF Answers
    <3>5. CASE d = q
      <4>1. q[1] \in PerFn /\ q[2] = p[2] /\ q[1] # "emit"
        BY <1>4, <2>1, <3>5 DEF Feeds, PerFn, Codegen, ParseOf
      <4>2. PICK j \in DOMAIN stack : stack[j].q = EmitOf(p[2])
        <5>1. Len(stack) \in DOMAIN stack
          BY <1>2
        <5>2. \E j \in 1..Len(stack) : stack[j].q = EmitOf(p[2])
          BY <1>1, <1>2, <4>1, <5>1 DEF StackShape
        <5>. QED BY <1>2, <5>2
      <4>3. j # Len(stack)
        <5>1. q # EmitOf(p[2])
          BY <4>1 DEF EmitOf
        <5>. QED BY <1>2, <4>2, <5>1
      <4>4. j \in 1..(Len(stack) - 1)
        BY <1>2, <4>2, <4>3
      <4>. QED BY <1>2, <3>5, <4>2, <4>4 DEF Answers
    <3>. QED BY <3>2, <3>3, <3>4, <3>5
  <2>. QED BY <2>3, <2>4
<1>. QED BY <1>4 DEF OneRevision, Known

(***************************************************************************)
(* A query that returns with a good memo keeps the invariant.              *)
(***************************************************************************)
LEMMA ReturnKeeps ==
    ASSUME IInv, MemoInv', stack # <<>>, NEW q, q = Top.q, Answers(q), UNCHANGED status,
           Return(memo'[q].val)
    PROVE  IInv'
<1>1. /\ q \in Query
      /\ StackShape'
      /\ Len(stack) \in Nat \ {0} /\ DOMAIN stack = 1..Len(stack)
      /\ DOMAIN stack' = 1..(Len(stack) - 1)
      /\ \A i \in DOMAIN stack' : i \in DOMAIN stack /\ i < Len(stack) /\ stack'[i] = stack[i]
      /\ stack' = <<>> <=> Len(stack) = 1
      /\ stack' = <<>> => reply' = [q |-> q, val |-> memo'[q].val]
      /\ stack' # <<>> => reply' = reply
  BY StackParts, PopShape DEF IInv, StackShape, Activity
<1>2. Walks'
  <2>1. ASSUME NEW i \in DOMAIN stack', NEW a, a = stack[i]
        PROVE  stack'[i] = a /\ Walked(a)'
    <3>1. a \in Activity /\ Walked(a) /\ stack'[i] = a
      BY <1>1, <2>1, StackParts DEF IInv, StackShape, Walks
    <3>2. Len(stack) \in DOMAIN stack /\ i < Len(stack) /\ i \in DOMAIN stack
      BY <1>1, <2>1
    <3>3. Rank(q) < Rank(a.q) /\ Rank(q) \in Int
      BY <1>1, <2>1, <3>2, RankInt DEF IInv, StackShape, Top
    <3>4. a.q # q
      BY <3>3
    <3>. QED BY <1>1, <3>1, <3>4, WalkedKeeps DEF IInv, MemoInv
  <2>. QED BY <2>1 DEF Walks
<1>3. LinkAsks'
  <2>1. ASSUME stack' # <<>>, stack'[1].q = LinkOf,
               NEW i \in DOMAIN stack', NEW f \in Fn, stack'[i].q = EmitOf(f)
        PROVE  (Ready(ParseOf) /\ Named(Val(ParseOf), f) # {})'
    <3>1. 1 \in DOMAIN stack'
      BY <1>1, <2>1
    <3>2. Ready(ParseOf) /\ Named(Val(ParseOf), f) # {}
      BY <1>1, <2>1, <3>1 DEF IInv, LinkAsks
    <3>3. Ready(ParseOf)' /\ Val(ParseOf)' = Val(ParseOf)
      BY <1>1, <3>2, AnswersReady, QueryKinds DEF Val
    <3>. QED BY <3>2, <3>3 DEF Named
  <2>. QED BY <2>1 DEF LinkAsks
<1>4. ReplyIsMemo'
  <2>1. CASE stack' = <<>>
    BY <1>1, <2>1 DEF ReplyIsMemo, Answers, Val
  <2>2. CASE stack' # <<>>
    BY <1>1, <2>2 DEF ReplyIsMemo, IInv, StackShape
  <2>. QED BY <2>1, <2>2
<1>5. source' \in Source /\ revision' \in 1..MaxRevision /\ status' \in {"running", "panicked"}
  BY DEF IInv, Answers
<1>. QED BY <1>1, <1>2, <1>3, <1>4, <1>5, ReturnOneRevision DEF IInv, MemoInv

-----------------------------------------------------------------------------
(* The memos stay as they are                                               *)

(***************************************************************************)
(* What is said of the memos depends on them, the text and the revision.   *)
(***************************************************************************)
LEMMA MemoFrame ==
    ASSUME UNCHANGED <<source, revision, memo>>
    PROVE  /\ MemoInv' <=> MemoInv
           /\ \A a : Walked(a)' <=> Walked(a)
           /\ \A d : Ready(d)' <=> Ready(d)
           /\ Val(ParseOf)' = Val(ParseOf)
<1>1. \A d : (Ready(d)' <=> Ready(d)) /\ Val(d)' = Val(d) /\ (Known(d)' <=> Known(d)) /\ IrOf(d)' = IrOf(d)
  BY DEF Ready, Val, Known, IrOf
<1>2. \A d, rev : ChangedSince(d, rev)' <=> ChangedSince(d, rev)
  BY DEF ChangedSince
<1>3. LinkReads' = LinkReads
  BY <1>1 DEF LinkReads, CodeOf
<1>4. \A q : Reads(q)' = Reads(q)
  BY <1>3 DEF Reads, FnReads, FnIrReads
<1>5. \A q, d : Derived(q, d)' <=> Derived(q, d)
  BY DEF Derived, Val, IrOf
<1>6. (MemoShape' <=> MemoShape) /\ (VerifiedInOrder' <=> VerifiedInOrder)
  BY <1>1, <1>4 DEF MemoShape, VerifiedInOrder, Known
<1>7. Agrees' <=> Agrees
  BY <1>1, <1>2, <1>5 DEF Agrees
<1>8. LinkAgrees' <=> LinkAgrees
  BY DEF LinkAgrees, Known, ChangedSince, Val, CodeOf
<1>9. RedIsDifferent' <=> RedIsDifferent
  BY <1>1, <1>2 DEF RedIsDifferent
<1>10. \A a : Walked(a)' <=> Walked(a)
  BY <1>1, <1>2, <1>4 DEF Walked
<1>. QED BY <1>1, <1>6, <1>7, <1>8, <1>9, <1>10 DEF MemoInv

(***************************************************************************)
(* A query that moves on in its walk, having found what the walk says.     *)
(***************************************************************************)
LEMMA BecomeKeeps ==
    ASSUME IInv, stack # <<>>, NEW mode \in {"verify", "execute"}, NEW pos \in Nat \ {0},
           Become(mode, pos), UNCHANGED <<source, revision, memo, reply, status>>,
           Walked([q |-> Top.q, mode |-> mode, pos |-> pos])
    PROVE  IInv'
<1>1. /\ StackShape'
      /\ Len(stack) \in Nat \ {0} /\ DOMAIN stack = 1..Len(stack)
      /\ DOMAIN stack' = DOMAIN stack
      /\ \A i \in DOMAIN stack : i # Len(stack) => stack'[i] = stack[i]
      /\ stack'[Len(stack)] = [q |-> Top.q, mode |-> mode, pos |-> pos]
      /\ \A i \in DOMAIN stack : stack'[i].q = stack[i].q
      /\ stack' # <<>>
  <2>1. StackShape
    BY DEF IInv
  <2>2. Len(stack) \in Nat \ {0} /\ DOMAIN stack = 1..Len(stack)
    BY <2>1, StackParts DEF StackShape
  <2>3. /\ StackShape'
        /\ DOMAIN stack' = DOMAIN stack
        /\ \A i \in DOMAIN stack : i # Len(stack) => stack'[i] = stack[i]
        /\ stack'[Len(stack)] = [q |-> Top.q, mode |-> mode, pos |-> pos]
        /\ \A i \in DOMAIN stack : stack'[i].q = stack[i].q
    BY <2>1, BecomeShape
  <2>4. 1 \in DOMAIN stack'
    BY <2>2, <2>3
  <2>. QED BY <2>2, <2>3, <2>4
<1>2. Walks'
  <2>1. \A a : Walked(a)' <=> Walked(a)
    BY MemoFrame
  <2>2. ASSUME NEW i \in DOMAIN stack', NEW a, a = stack'[i]
        PROVE  Walked(a)'
    BY <1>1, <2>1, <2>2 DEF IInv, Walks
  <2>. QED BY <2>2 DEF Walks
<1>3. LinkAsks'
  <2>1. 1 \in DOMAIN stack
    BY <1>1
  <2>2. \A f \in Fn : Named(Val(ParseOf), f)' = Named(Val(ParseOf), f)
    BY MemoFrame DEF Named
  <2>. QED BY <1>1, <2>1, <2>2, MemoFrame DEF LinkAsks, IInv
<1>4. OneRevision'
  BY <1>1, MemoFrame DEF IInv, OneRevision, Known
<1>5. ReplyIsMemo'
  BY <1>1 DEF StackShape, ReplyIsMemo
<1>6. MemoInv'
  BY MemoFrame DEF IInv, MemoInv
<1>7. source' \in Source /\ revision' \in 1..MaxRevision /\ status' \in {"running", "panicked"}
  BY DEF IInv
<1>. QED BY <1>1, <1>2, <1>3, <1>4, <1>5, <1>6, <1>7 DEF IInv, MemoInv

(***************************************************************************)
(* A query that asks for one under it; link for code of the module only.   *)
(***************************************************************************)
LEMMA PushKeeps ==
    ASSUME IInv, stack # <<>>, NEW d, Under(d, Top.q), Push(d),
           UNCHANGED <<source, revision, memo, reply, status>>,
           \A f \in Fn : Top.q = LinkOf /\ d = EmitOf(f)
                            => Ready(ParseOf) /\ Named(Val(ParseOf), f) # {}
    PROVE  IInv'
<1>. DEFINE n == Len(stack)
<1>1. StackShape /\ n \in Nat \ {0} /\ DOMAIN stack = 1..n /\ Top.q \in Query /\ Top = stack[n]
  BY StackParts DEF IInv, StackShape, Top
<1>2. /\ StackShape'
      /\ DOMAIN stack' = 1..(n + 1)
      /\ \A i \in DOMAIN stack : stack'[i] = stack[i]
      /\ stack'[n + 1] = Fetching(d)
  BY <1>1, PushShape DEF Under
<1>3. stack' # <<>> /\ Fetching(d).q = d /\ Fetching(d).mode = "fetch"
  <2>1. 1 \in DOMAIN stack'
    BY <1>1, <1>2
  <2>. QED BY <2>1 DEF Fetching
<1>4. Walks'
  <2>1. \A a : Walked(a)' <=> Walked(a)
    BY MemoFrame
  <2>2. Walked(Fetching(d))
    BY <1>3 DEF Walked
  <2>3. ASSUME NEW i \in DOMAIN stack', NEW a, a = stack'[i]
        PROVE  Walked(a)'
    BY <1>1, <1>2, <2>1, <2>2, <2>3 DEF IInv, Walks
  <2>. QED BY <2>3 DEF Walks
<1>5. LinkAsks'
  <2>1. ASSUME NEW i \in 1..(n + 1), NEW f \in Fn, stack'[i].q = EmitOf(f), stack'[1].q = LinkOf
        PROVE  Ready(ParseOf) /\ Named(Val(ParseOf), f) # {}
    <3>1. 1 \in DOMAIN stack /\ stack[1].q = LinkOf
      BY <1>1, <1>2, <2>1
    <3>2. CASE i \in 1..n
      BY <1>1, <1>2, <2>1, <3>1, <3>2 DEF IInv, LinkAsks
    <3>3. CASE i = n + 1
      <4>1. d = EmitOf(f)
        BY <1>2, <1>3, <2>1, <3>3
      <4>2. Rank(d) = 7 /\ Rank(LinkOf) = 8 /\ Rank(d) < Rank(Top.q)
        BY <4>1 DEF Under, Rank, EmitOf, LinkOf
      <4>3. n > 1 => Rank(Top.q) < 8
        BY <1>1, <3>1, <4>2 DEF StackShape
      <4>4. n = 1
        BY <1>1, <4>2, <4>3, RankInt
      <4>. QED BY <1>1, <3>1, <4>1, <4>4
    <3>. QED BY <1>1, <3>2, <3>3
  <2>2. \A f \in Fn : Named(Val(ParseOf), f)' = Named(Val(ParseOf), f)
    BY MemoFrame DEF Named
  <2>. QED BY <1>2, <2>1, <2>2, MemoFrame DEF LinkAsks
<1>6. OneRevision'
  <2>1. \A i \in DOMAIN stack : i \in DOMAIN stack' /\ stack'[i].q = stack[i].q
    BY <1>1, <1>2
  <2>. QED BY <2>1, MemoFrame DEF IInv, OneRevision, Known
<1>7. ReplyIsMemo'
  BY <1>2, <1>3 DEF StackShape, ReplyIsMemo
<1>8. MemoInv'
  BY MemoFrame DEF IInv, MemoInv
<1>9. source' \in Source /\ revision' \in 1..MaxRevision /\ status' \in {"running", "panicked"}
  BY DEF IInv
<1>. QED BY <1>2, <1>4, <1>5, <1>6, <1>7, <1>8, <1>9 DEF IInv, MemoInv

-----------------------------------------------------------------------------
(* Every action keeps the invariant                                         *)

(***************************************************************************)
(* The innermost query and what is known of its walk.                      *)
(***************************************************************************)
LEMMA TopFacts ==
    ASSUME IInv, stack # <<>>
    PROVE  /\ Top \in Activity /\ Top.q \in Query /\ Top.q # Input /\ Top.pos \in Nat \ {0}
           /\ Walked(Top)
           /\ status = "running"
           /\ revision \in Nat \ {0}
           /\ MemoInv
<1>1. Top \in Activity /\ Len(stack) \in DOMAIN stack
  BY StackParts DEF IInv, StackShape
<1>2. Walked(Top)
  BY <1>1 DEF IInv, Walks, Top
<1>3. Top.q \in Query /\ Top.pos \in Nat \ {0}
  BY <1>1 DEF Activity
<1>4. revision \in Nat \ {0}
  BY RevisionAssumption DEF IInv
<1>. QED BY <1>1, <1>2, <1>3, <1>4, QueryKinds DEF IInv, StackShape, MemoInv

(***************************************************************************)
(* A memo that is already good answers as it is.                           *)
(***************************************************************************)
LEMMA FetchKeeps == ASSUME IInv, Fetch PROVE IInv'
<1>1. stack # <<>> /\ Top.mode = "fetch" /\ UNCHANGED <<source, revision, status>>
  BY DEF Fetch, Running
<1>. PICK q : q = Top.q
  OBVIOUS
<1>2. q \in Query /\ q # Input /\ MemoShape
  BY <1>1, TopFacts DEF MemoInv
<1>3. CASE Ready(q) /\ Return(Val(q)) /\ UNCHANGED memo
  <2>1. Answers(q)
    BY <1>1, <1>3, MemoFrame DEF Answers
  <2>2. MemoInv' /\ memo'[q].val = Val(q)
    BY <1>1, <1>3, MemoFrame, TopFacts DEF Val
  <2>. QED BY <1>1, <1>3, <2>1, <2>2, ReturnKeeps
<1>4. CASE ~Ready(q) /\ memo[q] # None /\ Become("verify", 1) /\ UNCHANGED <<memo, reply>>
  <2>1. DOMAIN memo[q].deps = 1..Len(memo[q].deps)
    BY <1>2, <1>4, DependenciesUnder DEF Known
  <2>2. Walked([q |-> q, mode |-> "verify", pos |-> 1])
    BY <1>4, <2>1 DEF Walked, Known
  <2>. QED BY <1>1, <1>4, <2>2, BecomeKeeps
<1>5. CASE memo[q] = None /\ Execute
  <2>1. DOMAIN Reads(q) = 1..Len(Reads(q))
    BY <1>2, DependenciesUnder
  <2>2. Walked([q |-> q, mode |-> "execute", pos |-> 1])
    BY <1>2, <1>5, <2>1 DEF Walked, Known, Ready
  <2>. QED BY <1>1, <1>5, <2>2, BecomeKeeps DEF Execute
<1>. QED BY <1>3, <1>4, <1>5 DEF Fetch

(***************************************************************************)
(* The code link asks for is that of a function of the module it has read. *)
(***************************************************************************)
LEMMA LinkAsksOfModule ==
    ASSUME MemoShape, Ready(ParseOf), NEW deps, deps = <<ParseOf>> \o CodeOf(Val(ParseOf)),
           NEW i \in DOMAIN deps, NEW f \in Fn, deps[i] = EmitOf(f)
    PROVE  Named(Val(ParseOf), f) # {}
<1>1. PICK s \in Source : Val(ParseOf) = s.fns
  BY QueryKinds DEF MemoShape, Ready, Known
<1>2. i # 1
  BY <1>1, ModuleReads DEF ParseOf, EmitOf
<1>3. i - 1 \in DOMAIN s.fns /\ (i - 1) + 1 = i
  BY <1>1, <1>2, ModuleReads
<1>4. deps[i] = EmitOf(s.fns[i - 1].name)
  BY <1>1, <1>3, ModuleReads
<1>5. s.fns[i - 1].name = f
  BY <1>4 DEF EmitOf
<1>. QED BY <1>1, <1>3, <1>5 DEF Named

(***************************************************************************)
(* A memo none of whose dependencies has changed is good as it is.         *)
(***************************************************************************)
LEMMA GreenSettles ==
    ASSUME IInv, stack # <<>>, NEW q, q = Top.q, Top.mode = "verify", Top.pos > Len(memo[q].deps),
           UNCHANGED <<source, revision>>,
           memo' = [memo EXCEPT ![q].verified = revision]
    PROVE  Settles(q) /\ Computed(q) /\ Noticed(q) /\ memo'[q].val = Val(q)
<1>1. q \in Query /\ q # Input /\ ~Ready(q) /\ Known(q) /\ MemoInv /\ MemoShape /\ revision \in Nat \ {0}
  BY TopFacts DEF Walked, MemoInv
<1>2. /\ DOMAIN memo' = Query
      /\ \A p \in Query \ {q} : memo'[p] = memo[p]
      /\ DOMAIN memo'[q] = Fields
      /\ memo'[q].verified = revision
      /\ memo'[q].val = memo[q].val
      /\ memo'[q].deps = memo[q].deps
      /\ memo'[q].changed = memo[q].changed
  <2>1. memo'[q] = [memo[q] EXCEPT !.verified = revision] /\ DOMAIN memo' = Query
    BY <1>1 DEF MemoShape
  <2>2. DOMAIN memo[q] = Fields
    BY <1>1 DEF MemoShape
  <2>. QED BY <1>1, <2>1, <2>2 DEF MemoShape, Fields
<1>3. memo'[q] # None
  <2>1. "none" \notin DOMAIN memo'[q] /\ "none" \in DOMAIN None
    BY <1>2 DEF Fields, None
  <2>. QED BY <2>1
<1>4. \A j \in DOMAIN memo[q].deps : /\ Ready(memo[q].deps[j])
                                     /\ ~ChangedSince(memo[q].deps[j], memo[q].verified)
  <2>1. DOMAIN memo[q].deps = 1..Len(memo[q].deps) /\ Len(memo[q].deps) \in Nat /\ Top.pos \in Nat
    BY <1>1, DependenciesUnder, TopFacts
  <2>2. \A j \in DOMAIN memo[q].deps : j < Top.pos
    BY <2>1
  <2>. QED BY <2>2, TopFacts DEF Walked
<1>5. Settles(q)
  <2>1. memo[q].changed \in 1..revision
    BY <1>1 DEF MemoShape
  <2>. QED BY <1>1, <1>2, <1>3, <1>4, <2>1 DEF Settles
<1>6. Noticed(q)
  BY <1>2 DEF Noticed
<1>7. ASSUME q # LinkOf, NEW d, Feeds(d, q)
      PROVE  Derived(q, d)'
  <2>1. PICK j \in DOMAIN memo[q].deps : memo[q].deps[j] = d
    BY <1>1, <1>7, ReadsFixed DEF MemoShape
  <2>2. Derived(q, d)
    BY <1>1, <1>4, <1>7, <2>1 DEF MemoInv, Agrees
  <2>3. d # Input => memo'[d].val = memo[d].val
    BY <1>1, <1>2, <1>7, FeedsDown
  <2>. QED BY <1>1, <1>2, <1>7, <2>2, <2>3, DerivedFrame
<1>8. ASSUME q = LinkOf
      PROVE  /\ LinkDeps(memo[q].deps)
             /\ memo[q].deps = <<ParseOf>> \o CodeOf(Val(ParseOf))
             /\ DOMAIN memo[q].val = DOMAIN Val(ParseOf)
             /\ \A i \in DOMAIN Val(ParseOf) :
                   memo[q].val[i] = Val(EmitOf(Val(ParseOf)[i].name))
  <2>1. LinkDeps(memo[q].deps)
    BY <1>1, <1>8 DEF MemoShape
  <2>2. 1 \in DOMAIN memo[q].deps /\ memo[q].deps[1] = ParseOf
    BY <2>1 DEF LinkDeps
  <2>3. /\ memo[q].deps = <<ParseOf>> \o CodeOf(Val(ParseOf))
        /\ DOMAIN Val(q) = DOMAIN Val(ParseOf)
        /\ \A i \in DOMAIN Val(ParseOf) :
              LET e == EmitOf(Val(ParseOf)[i].name)
              IN  ~ChangedSince(e, memo[q].verified) => Val(q)[i] = Val(e)
    BY <1>1, <1>4, <1>8, <2>2 DEF MemoInv, LinkAgrees
  <2>4. PICK s \in Source : Val(ParseOf) = s.fns
    <3>1. Ready(ParseOf)
      BY <1>4, <2>2
    <3>2. Known(ParseOf)
      BY <3>1, QueryKinds DEF Ready, Known
    <3>. QED BY <1>1, <3>2 DEF MemoShape
  <2>5. ASSUME NEW i \in DOMAIN Val(ParseOf)
        PROVE  ~ChangedSince(EmitOf(Val(ParseOf)[i].name), memo[q].verified)
    <3>1. i + 1 \in DOMAIN memo[q].deps /\ memo[q].deps[i + 1] = EmitOf(Val(ParseOf)[i].name)
      BY <2>3, <2>4, <2>5, ModuleReads
    <3>. QED BY <1>4, <3>1
  <2>. QED BY <2>1, <2>3, <2>5 DEF Val
<1>9. Computed(q)
  BY <1>1, <1>2, <1>7, <1>8 DEF Computed, MemoShape
<1>. QED BY <1>2, <1>5, <1>6, <1>9 DEF Val

(***************************************************************************)
(* A settled memo is handed to the query that asked for it.                *)
(***************************************************************************)
LEMMA SettledKeeps ==
    ASSUME IInv, stack # <<>>, NEW q, q = Top.q, Settles(q), Computed(q), Noticed(q),
           UNCHANGED status, Return(memo'[q].val)
    PROVE  IInv'
<1>1. q \in Query /\ MemoInv /\ revision \in Nat /\ status = "running" /\ source \in Source /\ OneRevision
  BY TopFacts DEF IInv
<1>2. MemoInv'
  BY <1>1, SettlesShape, SettlesAgrees, SettlesLinkAgrees, SettlesRed DEF MemoInv
<1>3. Answers(q)
  BY <1>1, SettlesReady DEF Answers, Settles
<1>. QED BY <1>2, <1>3, ReturnKeeps

(***************************************************************************)
(* Verification goes on while dependencies are green, asks for the first   *)
(* one that has not been verified, and runs the query at a red one.        *)
(***************************************************************************)
LEMMA VerifyKeeps == ASSUME IInv, Verify PROVE IInv'
<1>1. stack # <<>> /\ Top.mode = "verify" /\ UNCHANGED <<source, revision, status>>
  BY DEF Verify, Running
<1>. PICK q : q = Top.q
  OBVIOUS
<1>2. /\ q \in Query /\ MemoInv /\ MemoShape /\ Known(q) /\ ~Ready(q)
      /\ Top.pos \in Nat \ {0}
      /\ DOMAIN memo[q].deps = 1..Len(memo[q].deps) /\ Len(memo[q].deps) \in Nat
      /\ \A i \in DOMAIN memo[q].deps : memo[q].deps[i] = Input \/ Under(memo[q].deps[i], q)
      /\ \A j \in DOMAIN memo[q].deps : j < Top.pos =>
            Ready(memo[q].deps[j]) /\ ~ChangedSince(memo[q].deps[j], memo[q].verified)
  <2>1. q \in Query /\ MemoInv /\ MemoShape /\ Known(q) /\ ~Ready(q) /\ Top.pos \in Nat \ {0}
    BY <1>1, TopFacts DEF Walked, MemoInv
  <2>2. \A j \in DOMAIN memo[q].deps : j < Top.pos =>
            Ready(memo[q].deps[j]) /\ ~ChangedSince(memo[q].deps[j], memo[q].verified)
    BY <1>1, TopFacts DEF Walked
  <2>. QED BY <2>1, <2>2, DependenciesUnder
<1>3. CASE Top.pos > Len(memo[q].deps)
  <2>1. memo' = [memo EXCEPT ![q].verified = revision] /\ Return(Val(q))
    BY <1>3 DEF Verify
  <2>2. Settles(q) /\ Computed(q) /\ Noticed(q) /\ memo'[q].val = Val(q)
    BY <1>1, <1>3, <2>1, GreenSettles
  <2>. QED BY <1>1, <2>1, <2>2, SettledKeeps
<1>4. CASE ~(Top.pos > Len(memo[q].deps))
  <2>. DEFINE d == memo[q].deps[Top.pos]
  <2>1. Top.pos \in DOMAIN memo[q].deps
    BY <1>2, <1>4
  <2>2. CASE ~Ready(d) /\ Push(d) /\ UNCHANGED <<memo, reply>>
    <3>1. Under(d, q)
      BY <1>2, <2>1, <2>2 DEF Ready
    <3>2. ASSUME NEW f \in Fn, q = LinkOf, d = EmitOf(f)
          PROVE  Ready(ParseOf) /\ Named(Val(ParseOf), f) # {}
      <4>1. LinkDeps(memo[q].deps)
        BY <1>2, <3>2 DEF MemoShape
      <4>2. 1 \in DOMAIN memo[q].deps /\ memo[q].deps[1] = ParseOf /\ Top.pos # 1
        BY <3>2, <4>1 DEF LinkDeps, ParseOf, EmitOf
      <4>3. Ready(ParseOf) /\ ~ChangedSince(ParseOf, memo[q].verified)
        BY <1>2, <4>2
      <4>4. memo[q].deps = <<ParseOf>> \o CodeOf(Val(ParseOf))
        BY <1>2, <3>2, <4>3 DEF MemoInv, LinkAgrees
      <4>. QED BY <1>2, <2>1, <3>2, <4>3, <4>4, LinkAsksOfModule
    <3>. QED BY <1>1, <2>2, <3>1, <3>2, PushKeeps
  <2>3. CASE Ready(d) /\ ChangedSince(d, memo[q].verified) /\ Execute
    <3>1. DOMAIN Reads(q) = 1..Len(Reads(q))
      BY <1>2, DependenciesUnder
    <3>2. Walked([q |-> q, mode |-> "execute", pos |-> 1])
      BY <1>2, <2>1, <2>3, <3>1 DEF Walked
    <3>. QED BY <1>1, <2>3, <3>2, BecomeKeeps DEF Execute
  <2>4. CASE Ready(d) /\ ~ChangedSince(d, memo[q].verified) /\ NextDependency /\ UNCHANGED <<memo, reply>>
    <3>1. \A j \in DOMAIN memo[q].deps : j < Top.pos + 1 => j < Top.pos \/ j = Top.pos
      BY <1>2
    <3>2. Walked([q |-> q, mode |-> "verify", pos |-> Top.pos + 1])
      BY <1>2, <2>4, <3>1 DEF Walked
    <3>3. Top.pos + 1 \in Nat \ {0}
      BY <1>2
    <3>. QED BY <1>1, <2>4, <3>2, <3>3, BecomeKeeps DEF NextDependency
  <2>. QED BY <1>1, <1>4, <2>2, <2>3, <2>4 DEF Verify
<1>. QED BY <1>3, <1>4

(***************************************************************************)
(* A query that runs reads what is ready and asks for what is not.         *)
(***************************************************************************)
LEMMA ReadKeeps == ASSUME IInv, Read PROVE IInv'
<1>1. /\ stack # <<>> /\ Top.mode = "execute" /\ UNCHANGED <<source, revision, memo, reply, status>>
      /\ Top.pos <= Len(Reads(Top.q))
  BY DEF Read, Running
<1>. PICK q : q = Top.q
  OBVIOUS
<1>2. /\ q \in Query /\ MemoInv /\ MemoShape /\ Walked(Top)
      /\ Top.pos \in Nat \ {0}
      /\ DOMAIN Reads(q) = 1..Len(Reads(q)) /\ Len(Reads(q)) \in Nat
      /\ \A i \in DOMAIN Reads(q) : Reads(q)[i] = Input \/ Under(Reads(q)[i], q)
      /\ \A j \in DOMAIN Reads(q) : j < Top.pos => Ready(Reads(q)[j])
  <2>1. q \in Query /\ MemoInv /\ MemoShape /\ Walked(Top) /\ Top.pos \in Nat \ {0}
    BY <1>1, TopFacts DEF MemoInv
  <2>2. \A j \in DOMAIN Reads(q) : j < Top.pos => Ready(Reads(q)[j])
    BY <1>1, <2>1 DEF Walked
  <2>. QED BY <2>1, <2>2, DependenciesUnder
<1>. DEFINE d == Reads(q)[Top.pos]
<1>3. Top.pos \in DOMAIN Reads(q)
  BY <1>1, <1>2
<1>4. CASE Ready(d)
  <2>1. \A j \in DOMAIN Reads(q) : j < Top.pos + 1 => j < Top.pos \/ j = Top.pos
    BY <1>2
  <2>2. Walked([q |-> q, mode |-> "execute", pos |-> Top.pos + 1])
    BY <1>1, <1>2, <1>4, <2>1 DEF Walked
  <2>3. Top.pos + 1 \in Nat \ {0} /\ Become("execute", Top.pos + 1)
    BY <1>2, <1>4 DEF Read
  <2>. QED BY <1>1, <2>2, <2>3, BecomeKeeps
<1>5. CASE ~Ready(d)
  <2>1. Under(d, q) /\ Push(d)
    BY <1>2, <1>3, <1>5 DEF Ready, Read
  <2>2. ASSUME NEW f \in Fn, q = LinkOf, d = EmitOf(f)
        PROVE  Ready(ParseOf) /\ Named(Val(ParseOf), f) # {}
    <3>1. Reads(q) = LinkReads /\ LinkDeps(LinkReads)
      BY <1>2, <2>2, ReadsOfLink, LinkReadsKind
    <3>2. 1 \in DOMAIN Reads(q) /\ Reads(q)[1] = ParseOf /\ Top.pos # 1
      BY <1>2, <2>2, <3>1 DEF LinkDeps, ParseOf, EmitOf
    <3>3. Ready(ParseOf)
      BY <1>2, <3>2
    <3>4. Reads(q) = <<ParseOf>> \o CodeOf(Val(ParseOf))
      BY <1>2, <3>1, <3>3, LinkReadsKind
    <3>. QED BY <1>2, <1>3, <2>2, <3>3, <3>4, LinkAsksOfModule
  <2>. QED BY <1>1, <2>1, <2>2, PushKeeps
<1>. QED BY <1>4, <1>5

(***************************************************************************)
(* The revision a new value counts as changed in: the latest of those its  *)
(* dependencies changed in.                                                *)
(***************************************************************************)
LEMMA LatestChange ==
    ASSUME MemoShape, revision \in Nat \ {0}, NEW q \in Query,
           \A i \in DOMAIN Reads(q) : Ready(Reads(q)[i]),
           NEW latest,
           latest = Max({IF Reads(q)[i] = Input THEN revision ELSE memo[Reads(q)[i]].changed : i \in DOMAIN Reads(q)})
    PROVE  /\ latest \in 1..revision
           /\ \A i \in DOMAIN Reads(q) : \A rev \in Nat :
                 ChangedSince(Reads(q)[i], rev) => latest > rev
<1>. DEFINE At(i) == IF Reads(q)[i] = Input THEN revision ELSE memo[Reads(q)[i]].changed
            S == {At(i) : i \in DOMAIN Reads(q)}
<1>1. ASSUME NEW i \in DOMAIN Reads(q)
      PROVE  At(i) \in 1..revision
  <2>1. CASE Reads(q)[i] = Input
    BY <2>1
  <2>2. CASE Reads(q)[i] # Input
    <3>1. Reads(q)[i] \in Query
      BY <2>2, DependenciesUnder DEF Under
    <3>2. memo[Reads(q)[i]].verified = revision /\ Known(Reads(q)[i])
      BY <2>2 DEF Ready, Known
    <3>. QED BY <2>2, <3>1, <3>2 DEF MemoShape
  <2>. QED BY <2>1, <2>2
<1>2. S \in SUBSET (0..revision) /\ S # {}
  <2>1. 1 \in DOMAIN Reads(q)
    <3>1. CASE q = LinkOf
      <4>1. Reads(q) = LinkReads /\ LinkDeps(LinkReads) /\ DOMAIN LinkReads = 1..Len(LinkReads)
        BY <3>1, ReadsOfLink, LinkReadsKind
      <4>2. 1 \in DOMAIN LinkReads
        BY <4>1 DEF LinkDeps
      <4>. QED BY <4>1, <4>2
    <3>2. CASE q # LinkOf
      BY <3>2, ReadsFixed
    <3>. QED BY <3>1, <3>2
  <2>2. At(1) \in S
    BY <2>1
  <2>. QED BY <1>1, <2>2
<1>3. Max(S) \in S /\ \A y \in S : Max(S) >= y
  BY <1>2, MaxExists
<1>4. latest \in 1..revision
  BY <1>1, <1>3
<1>5. ASSUME NEW i \in DOMAIN Reads(q), NEW rev \in Nat, ChangedSince(Reads(q)[i], rev)
      PROVE  latest > rev
  <2>1. At(i) \in S /\ At(i) \in 1..revision /\ latest >= At(i)
    BY <1>1, <1>3
  <2>2. At(i) > rev
    BY <1>5 DEF ChangedSince
  <2>. QED BY <1>4, <2>1, <2>2
<1>. QED BY <1>4, <1>5

(***************************************************************************)
(* The value a query has computed is made from the memos it has read       *)
(* (query/src/lib.rs:21-97).                                               *)
(***************************************************************************)
LEMMA ResultDerived ==
    ASSUME revision \in Nat, MemoInv, NEW q \in Query \ {LinkOf}, NEW d, Feeds(d, q),
           \A e : Feeds(e, q) => Ready(e),
           ~Panics(q), memo'[q].val \in Results(q), UNCHANGED source,
           \A p \in Query \ {q} : memo'[p] = memo[p]
    PROVE  Derived(q, d)'
<1>. DEFINE val == memo'[q].val
<1>1. CASE q = ParseOf
  BY <1>1 DEF Results, Panics, Derived, Val, ParseOf, Codegen
<1>2. CASE q # ParseOf
  <2>1. d \in Query \ {q} /\ memo'[d] = memo[d] /\ q # LinkOf
    BY <1>2, FeedsDown
  <2>2. CASE q[1] = "fn_ir"
    BY <1>2, <2>1, <2>2 DEF Results, Panics, Derived, Val, Feeds, ParseOf, Codegen, Named
  <2>3. CASE q[1] = "optimize_ir"
    BY <1>2, <2>1, <2>3 DEF Results, Derived, Val, Feeds, Codegen, ParseOf
  <2>4. CASE q[1] = "allocate_registers"
    <3>1. d = <<"optimize_ir", q[2]>>
      BY <1>2, <2>4 DEF Feeds
    <3>2. val.ir = Val(d)
      BY <1>2, <2>1, <2>4, <3>1 DEF Results
    <3>. QED BY <1>2, <2>1, <2>4, <3>1, <3>2 DEF Derived, IrOf, Val, Codegen
  <2>5. CASE q[1] \in {"select_instructions", "schedule", "emit"}
    <3>. DEFINE l == Last(Reads(q))
    <3>1. /\ Feeds(l, q) /\ l[1] \in Codegen /\ l \in Query \ {q}
          /\ q[1] = "select_instructions" => l = <<"allocate_registers", q[2]>>
      BY <1>2, <2>1, <2>5, ReadsFixed, FeedsDown
    <3>2. val = Val(l)
      BY <1>2, <2>1, <2>5 DEF Results
    <3>3. CASE d = l
      BY <1>2, <2>1, <2>5, <3>1, <3>2, <3>3 DEF Derived, IrOf, Val, Codegen
    <3>4. CASE d # l
      <4>1. q[1] = "select_instructions" /\ d = <<"optimize_ir", q[2]>> /\ l = <<"allocate_registers", q[2]>>
        BY <1>2, <2>5, <3>1, <3>4 DEF Feeds
      <4>2. Feeds(d, l) /\ l # LinkOf /\ Ready(l)
        BY <3>1, <4>1 DEF Feeds, LinkOf
      <4>3. Derived(l, d)
        BY <3>1, <4>2, ReadyDependencies DEF MemoInv
      <4>4. val.ir = Val(d)
        BY <3>2, <4>1, <4>3 DEF Derived, IrOf, Codegen
      <4>. QED BY <1>2, <2>1, <4>1, <4>4 DEF Derived, IrOf, Val, Codegen
    <3>. QED BY <3>3, <3>4
  <2>. QED BY <1>2, <2>1, <2>2, <2>3, <2>4, <2>5, QueryKinds DEF PerFn, Codegen
<1>. QED BY <1>1, <1>2

(***************************************************************************)
(* A query that has run settles its memo.  When its value is a new one, it *)
(* counts as changed after everything that had read the old one, and if it *)
(* is a codegen query its IR is a new one too: it ran because the IR was.  *)
(***************************************************************************)
LEMMA FinishSettles ==
    ASSUME IInv, Finish, NEW q, q = Top.q
    PROVE  /\ stack # <<>> /\ UNCHANGED status
           /\ Settles(q) /\ Computed(q) /\ Noticed(q)
           /\ Return(memo'[q].val)
<1>1. stack # <<>> /\ Top.mode = "execute" /\ UNCHANGED <<source, revision, status>>
      /\ Top.pos > Len(Reads(q)) /\ ~Panics(q)
  BY DEF Finish, Running
<1>2. /\ q \in Query /\ q # Input /\ MemoInv /\ MemoShape /\ ~Ready(q)
      /\ revision \in Nat \ {0}
      /\ \A i \in DOMAIN Reads(q) : Ready(Reads(q)[i])
      /\ Known(q) => \E j \in DOMAIN memo[q].deps : ChangedSince(memo[q].deps[j], memo[q].verified)
  <2>1. q \in Query /\ q # Input /\ MemoInv /\ MemoShape /\ Walked(Top) /\ Top.pos \in Nat /\ revision \in Nat \ {0}
    BY <1>1, TopFacts DEF MemoInv
  <2>2. DOMAIN Reads(q) = 1..Len(Reads(q)) /\ Len(Reads(q)) \in Nat
    BY <2>1, DependenciesUnder
  <2>3. \A i \in DOMAIN Reads(q) : i < Top.pos
    BY <1>1, <2>1, <2>2
  <2>. QED BY <1>1, <2>1, <2>3 DEF Walked
<1>. PICK latest :
         latest = Max({IF Reads(q)[i] = Input THEN revision ELSE memo[Reads(q)[i]].changed : i \in DOMAIN Reads(q)})
  OBVIOUS
<1>3. PICK val \in Results(q) :
         /\ memo' = [memo EXCEPT ![q] =
                       [val |-> val, deps |-> Reads(q), verified |-> revision,
                        changed |-> IF memo[q] # None /\ memo[q].val = val THEN memo[q].changed ELSE latest]]
         /\ Return(val)
  BY DEF Finish
<1>4. /\ latest \in 1..revision
      /\ \A i \in DOMAIN Reads(q) : \A rev \in Nat : ChangedSince(Reads(q)[i], rev) => latest > rev
  BY <1>2, <1>3, LatestChange
<1>5. /\ DOMAIN memo' = Query
      /\ \A p \in Query \ {q} : memo'[p] = memo[p]
      /\ DOMAIN memo'[q] = Fields
      /\ memo'[q].val = val
      /\ memo'[q].deps = Reads(q)
      /\ memo'[q].verified = revision
      /\ memo'[q].changed = IF Known(q) /\ memo[q].val = val THEN memo[q].changed ELSE latest
  BY <1>2, <1>3 DEF MemoShape, Fields, Known
<1>6. memo'[q] # None
  <2>1. "none" \notin DOMAIN memo'[q] /\ "none" \in DOMAIN None
    BY <1>5 DEF Fields, None
  <2>. QED BY <2>1
<1>7. memo'[q].changed \in 1..revision
  <2>1. Known(q) => memo[q].changed \in 1..revision
    BY <1>2 DEF MemoShape
  <2>. QED BY <1>4, <1>5, <2>1
<1>8. Settles(q)
  BY <1>1, <1>2, <1>5, <1>6, <1>7 DEF Settles
<1>9. ASSUME q # LinkOf, NEW d, Feeds(d, q)
      PROVE  Derived(q, d)'
  <2>1. \A e : Feeds(e, q) => Ready(e)
    BY <1>2, <1>9, ReadsFixed
  <2>. QED BY <1>1, <1>2, <1>3, <1>5, <1>9, <2>1, ResultDerived
<1>10. ASSUME q = LinkOf
       PROVE  /\ LinkDeps(memo'[q].deps)
              /\ memo'[q].deps = <<ParseOf>> \o CodeOf(Val(ParseOf))
              /\ DOMAIN memo'[q].val = DOMAIN Val(ParseOf)
              /\ \A i \in DOMAIN Val(ParseOf) :
                    memo'[q].val[i] = Val(EmitOf(Val(ParseOf)[i].name))
  <2>1. Reads(q) = LinkReads /\ LinkDeps(LinkReads) /\ DOMAIN LinkReads = 1..Len(LinkReads)
    BY <1>2, <1>10, ReadsOfLink, LinkReadsKind
  <2>2. 1 \in DOMAIN LinkReads /\ LinkReads[1] = ParseOf
    BY <2>1 DEF LinkDeps
  <2>3. Ready(ParseOf)
    BY <1>2, <2>1, <2>2
  <2>4. LinkReads = <<ParseOf>> \o CodeOf(Val(ParseOf))
    BY <1>2, <2>3, LinkReadsKind
  <2>5. Results(q) = Linked(Val(ParseOf))
    BY <1>10 DEF Results, LinkOf, ParseOf
  <2>6. val = [i \in DOMAIN Val(ParseOf) |-> Val(EmitOf(Val(ParseOf)[i].name))]
    BY <1>3, <2>5 DEF Linked
  <2>. QED BY <1>5, <2>1, <2>4, <2>6
<1>11. Computed(q)
  BY <1>5, <1>9, <1>10 DEF Computed
<1>12. Noticed(q)
  <2>1. CASE Known(q) /\ memo[q].val = val
    BY <1>5, <2>1 DEF Noticed
  <2>2. CASE Known(q) /\ memo[q].val # val /\ q # LinkOf
    <3>1. PICK j \in DOMAIN Reads(q) : ChangedSince(Reads(q)[j], memo[q].verified)
      BY <1>2, <2>2 DEF MemoShape
    <3>2. Feeds(Reads(q)[j], q)
      BY <1>2, <2>2, <3>1, ReadsFixed
    <3>3. memo[q].verified \in Nat
      BY <1>2, <2>2 DEF MemoShape
    <3>4. memo'[q].changed > memo[q].verified
      BY <1>4, <1>5, <2>2, <3>1, <3>3
    <3>5. CASE q[1] = "optimize_ir"
      BY <1>5, <2>2, <3>4, <3>5 DEF Noticed, IrOf, Val
    <3>6. CASE q[1] \in Codegen
      <4>. DEFINE d == Reads(q)[j]
      <4>1. IrOf(q) # IrOf(d)
        BY <1>2, <2>2, <3>1, <3>2, <3>6 DEF MemoInv, RedIsDifferent
      <4>. HIDE DEF d
      <4>3. PICK e : e = d
        OBVIOUS
      <4>4. q # ParseOf /\ Feeds(e, q)
        BY <3>2, <3>6, <4>3 DEF Codegen, ParseOf, d
      <4>5. memo'[e] = memo[e]
        BY <1>2, <1>5, <2>2, <4>4, FeedsDown
      <4>6. IrOf(e)' = IrOf(e)
        BY <4>5 DEF IrOf, Val
      <4>7. IrOf(q)' = IrOf(e)'
        BY <1>9, <2>2, <3>6, <4>4 DEF Derived
      <4>. QED BY <3>4, <4>1, <4>3, <4>6, <4>7 DEF Noticed
    <3>7. CASE q[1] \notin Codegen \cup {"optimize_ir"}
      BY <3>4, <3>7 DEF Noticed
    <3>. QED BY <3>5, <3>6, <3>7
  <2>3. CASE ~Known(q) \/ q = LinkOf
    BY <2>3 DEF Noticed
  <2>. QED BY <2>1, <2>2, <2>3
<1>. QED BY <1>1, <1>3, <1>5, <1>8, <1>11, <1>12

(***************************************************************************)
(* A query that has run hands its value to the one that asked for it.      *)
(***************************************************************************)
LEMMA FinishKeeps == ASSUME IInv, Finish PROVE IInv'
<1>. PICK q : q = Top.q
  OBVIOUS
<1>. QED BY FinishSettles, SettledKeeps

(***************************************************************************)
(* A panic takes the stack down and leaves every memo as it is.            *)
(***************************************************************************)
LEMMA PanicKeeps == ASSUME IInv, Panic PROVE IInv'
<1>1. stack # <<>> /\ stack' = <<>> /\ status' = "panicked" /\ UNCHANGED <<source, revision, memo, reply>>
  BY DEF Panic, Running
<1>2. MemoInv'
  BY <1>1, MemoFrame DEF IInv, MemoInv
<1>3. reply.q = Input /\ reply' = reply
  BY <1>1 DEF IInv, StackShape
<1>4. StackShape' /\ Walks' /\ LinkAsks' /\ OneRevision' /\ ReplyIsMemo'
  BY <1>1, <1>3 DEF StackShape, Walks, LinkAsks, OneRevision, ReplyIsMemo
<1>5. source' \in Source /\ revision' \in 1..MaxRevision /\ status' \in {"running", "panicked"}
  BY <1>1 DEF IInv
<1>. QED BY <1>2, <1>4, <1>5 DEF IInv, MemoInv

(***************************************************************************)
(* An edit makes the text younger than every memo and touches none         *)
(* (query/src/lib.rs:105-115).                                             *)
(***************************************************************************)
LEMMA UpdateSourceKeeps == ASSUME IInv, UpdateSource PROVE IInv'
<1>1. /\ status = "running" /\ stack = <<>> /\ source' \in Source
      /\ revision' = revision + 1 /\ reply' = NoReply /\ UNCHANGED <<memo, stack, status>>
      /\ revision \in 1..MaxRevision /\ revision' \in 1..MaxRevision
  BY RevisionAssumption DEF UpdateSource, Idle, IInv
<1>2. MemoShape'
  <2>1. \A q \in Query \ {LinkOf} : Reads(q)' = Reads(q)
    BY ReadsFixed
  <2>. QED BY <1>1, <2>1 DEF IInv, MemoShape, Known, Val
<1>3. VerifiedInOrder'
  BY <1>1 DEF IInv, VerifiedInOrder, Known
<1>4. Agrees'
  <2>1. ASSUME NEW q \in Query \ {LinkOf}, memo[q] # None, NEW d, Feeds(d, q),
               ~ChangedSince(d, memo[q].verified)'
        PROVE  Derived(q, d)'
    <3>1. memo[q].verified \in 1..revision
      BY <2>1 DEF IInv, MemoShape, Known
    <3>2. d # Input
      BY <1>1, <2>1, <3>1 DEF ChangedSince
    <3>3. q # ParseOf /\ ~ChangedSince(d, memo[q].verified)
      BY <1>1, <2>1, <3>2, FeedsDown DEF ChangedSince
    <3>4. Derived(q, d)
      BY <2>1, <3>3 DEF IInv, Agrees, Known
    <3>. QED BY <1>1, <3>3, <3>4 DEF Derived, Val, IrOf
  <2>. QED BY <1>1, <2>1 DEF Agrees, Known
<1>5. LinkAgrees'
  <2>1. ParseOf # Input /\ \A f : EmitOf(f) # Input
    BY DEF ParseOf, EmitOf, Input
  <2>. QED BY <1>1, <2>1 DEF IInv, LinkAgrees, Known, Val, ChangedSince, CodeOf
<1>6. RedIsDifferent'
  <2>1. \A q \in Query : \A d : q[1] \in Codegen /\ Feeds(d, q) => d # Input
    BY DEF Feeds, Codegen, ParseOf, Input
  <2>. QED BY <1>1, <2>1 DEF IInv, RedIsDifferent, Known, ChangedSince, IrOf, Val
<1>7. OneRevision'
  BY <1>1 DEF IInv, OneRevision, Known
<1>8. StackShape' /\ Walks' /\ LinkAsks' /\ ReplyIsMemo'
  BY <1>1 DEF IInv, StackShape, Walks, LinkAsks, ReplyIsMemo, NoReply
<1>. QED BY <1>1, <1>2, <1>3, <1>4, <1>5, <1>6, <1>7, <1>8 DEF IInv

(***************************************************************************)
(* A request starts with one query on the stack.                           *)
(***************************************************************************)
LEMMA RequestKeeps ==
    ASSUME IInv, Idle, NEW d, d = LinkOf \/ \E f \in Fn : d = EmitOf(f), Push(d),
           reply' = NoReply, UNCHANGED <<source, revision, memo, status>>
    PROVE  IInv'
<1>1. status = "running" /\ stack = <<>> /\ d \in Query
  BY QueryKinds DEF Idle, EmitOf, PerFn, Codegen
<1>2. Fetching(d) \in Activity /\ Fetching(d).q = d /\ Fetching(d).mode = "fetch"
  BY <1>1 DEF Fetching, Activity
<1>3. stack' = <<Fetching(d)>>
  BY <1>1 DEF Push
<1>4. /\ stack' \in Seq(Activity) /\ DOMAIN stack' = {1} /\ stack'[1] = Fetching(d) /\ stack' # <<>>
  BY <1>2, <1>3
<1>5. d[1] \in PerFn => d = EmitOf(d[2])
  BY DEF LinkOf, EmitOf, PerFn, Codegen
<1>6. StackShape'
  <2>1. \A i \in DOMAIN stack' : i = 1 /\ stack'[i].q = d
    BY <1>2, <1>4
  <2>2. \A i, j \in DOMAIN stack' : ~(i < j)
    BY <2>1
  <2>3. \A i \in DOMAIN stack' : 1 \in 1..i
    BY <2>1
  <2>4. reply'.q = Input /\ status' = "running"
    BY <1>1 DEF NoReply
  <2>. QED BY <1>4, <1>5, <2>1, <2>2, <2>3, <2>4 DEF StackShape
<1>7. Walks'
  BY <1>2, <1>4 DEF Walks, Walked
<1>8. LinkAsks'
  BY <1>2, <1>4 DEF LinkAsks, LinkOf, EmitOf
<1>9. OneRevision'
  BY <1>1 DEF IInv, OneRevision, Known
<1>10. ReplyIsMemo'
  BY DEF ReplyIsMemo, NoReply
<1>11. MemoInv'
  BY MemoFrame DEF IInv, MemoInv
<1>12. source' \in Source /\ revision' \in 1..MaxRevision /\ status' \in {"running", "panicked"}
  BY DEF IInv
<1>. QED BY <1>6, <1>7, <1>8, <1>9, <1>10, <1>11, <1>12 DEF IInv, MemoInv

-----------------------------------------------------------------------------
(* The invariant                                                            *)

(***************************************************************************)
(* A session starts with a text and nothing computed                       *)
(* (query/src/lib.rs:105-110).                                             *)
(***************************************************************************)
LEMMA InitIInv == Init => IInv
<1>. SUFFICES ASSUME Init PROVE IInv
  OBVIOUS
<1>1. /\ source \in Source /\ revision = 1 /\ status = "running" /\ stack = <<>> /\ reply = NoReply
      /\ DOMAIN memo = Query /\ \A q \in Query : memo[q] = None
  BY DEF Init
<1>2. revision \in 1..MaxRevision
  BY <1>1, RevisionAssumption
<1>3. MemoShape
  BY <1>1, QueryKinds DEF MemoShape, Known
<1>4. VerifiedInOrder /\ Agrees /\ RedIsDifferent /\ OneRevision
  BY <1>1 DEF VerifiedInOrder, Agrees, RedIsDifferent, OneRevision, Known
<1>5. LinkAgrees
  BY <1>1, QueryKinds DEF LinkAgrees, Known
<1>6. StackShape /\ Walks /\ LinkAsks /\ ReplyIsMemo
  BY <1>1 DEF StackShape, Walks, LinkAsks, ReplyIsMemo, NoReply
<1>. QED BY <1>1, <1>2, <1>3, <1>4, <1>5, <1>6 DEF IInv

(***************************************************************************)
(* Every step of the session and of the evaluation keeps the invariant.    *)
(***************************************************************************)
LEMMA StepIInv == IInv /\ [Next]_vars => IInv'
<1>. SUFFICES ASSUME IInv, [Next]_vars PROVE IInv'
  OBVIOUS
<1>1. CASE UpdateSource
  BY <1>1, UpdateSourceKeeps
<1>2. ASSUME NEW f \in Fn, CompileFn(f)
      PROVE  IInv'
  <2>. PICK d : d = EmitOf(f)
    OBVIOUS
  <2>. QED BY <1>2, RequestKeeps DEF CompileFn
<1>3. CASE CompileModule
  <2>. PICK d : d = LinkOf
    OBVIOUS
  <2>. QED BY <1>3, RequestKeeps DEF CompileModule
<1>4. CASE Evaluate
  BY <1>4, FetchKeeps, VerifyKeeps, ReadKeeps, FinishKeeps, PanicKeeps DEF Evaluate
<1>5. CASE UNCHANGED vars
  <2>1. MemoInv' /\ UNCHANGED <<source, revision, memo, stack, reply, status>>
    BY <1>5, MemoFrame DEF vars, IInv, MemoInv
  <2>2. Walks' /\ LinkAsks' /\ StackShape'
    BY <2>1, MemoFrame DEF IInv, Walks, LinkAsks, StackShape
  <2>3. OneRevision' /\ ReplyIsMemo'
    BY <2>1, MemoFrame DEF IInv, OneRevision, ReplyIsMemo, Known, Val
  <2>. QED BY <2>1, <2>2, <2>3 DEF IInv, MemoInv
<1>. QED BY <1>1, <1>2, <1>3, <1>4, <1>5 DEF Next, Request

(***************************************************************************)
(* The inductive invariant holds in every state of a session.              *)
(***************************************************************************)
THEOREM Invariant == Spec => []IInv
  BY InitIInv, StepIInv, PTL DEF Spec

-----------------------------------------------------------------------------
(* What an embedding application relies on                                  *)

(***************************************************************************)
(* The memo table and the stack are what Salsa keeps: revisions the        *)
(* session has had, and dependencies that are queries or the text.         *)
(***************************************************************************)
THEOREM TypeCorrect == Spec => []TypeOK
<1>1. IInv => TypeOK
  <2>. SUFFICES ASSUME IInv PROVE TypeOK
    OBVIOUS
  <2>1. ASSUME NEW q \in Query, memo[q] # None
        PROVE  /\ memo[q].verified \in 1..revision
               /\ memo[q].changed \in 1..memo[q].verified
               /\ \A i \in DOMAIN memo[q].deps : memo[q].deps[i] \in Query \cup {Input}
    <3>1. MemoShape /\ Known(q)
      BY <2>1 DEF IInv, Known
    <3>2. \A i \in DOMAIN memo[q].deps : memo[q].deps[i] = Input \/ Under(memo[q].deps[i], q)
      BY <3>1, DependenciesUnder
    <3>. QED BY <3>1, <3>2 DEF MemoShape, Under
  <2>2. \A i \in DOMAIN stack : stack[i] \in Activity
    BY DEF IInv, StackShape
  <2>. QED BY <2>1, <2>2 DEF IInv, TypeOK, Activity
<1>. QED BY <1>1, Invariant, PTL

(***************************************************************************)
(* What is linked is, function for function, the memo of the text's own    *)
(* functions, and each of those is verified.                               *)
(***************************************************************************)
LEMMA LinkedIsReady ==
    ASSUME revision \in Nat, source \in Source, MemoInv, Ready(LinkOf)
    PROVE  /\ DOMAIN Val(LinkOf) = DOMAIN source.fns
           /\ \A i \in DOMAIN source.fns :
                 /\ source.fns[i].name \in Fn
                 /\ Ready(EmitOf(source.fns[i].name))
                 /\ Val(LinkOf)[i] = Val(EmitOf(source.fns[i].name))
<1>. PICK q : q = LinkOf
  OBVIOUS
<1>1. /\ q \in Query /\ Known(q) /\ memo[q].verified = revision
      /\ \A i \in DOMAIN memo[q].deps :
            Ready(memo[q].deps[i]) /\ ~ChangedSince(memo[q].deps[i], revision)
  <2>1. q \in Query /\ q # Input
    BY QueryKinds
  <2>. QED BY <2>1, ReadyDependencies DEF MemoInv, Ready
<1>2. LinkDeps(memo[q].deps) /\ 1 \in DOMAIN memo[q].deps
  BY <1>1 DEF MemoInv, MemoShape, LinkDeps
<1>3. Ready(ParseOf) /\ ~ChangedSince(ParseOf, revision)
  BY <1>1, <1>2 DEF LinkDeps
<1>4. Val(ParseOf) = source.fns
  BY <1>3, ReadyIsFresh DEF MemoInv
<1>5. /\ memo[q].deps = <<ParseOf>> \o CodeOf(source.fns)
      /\ DOMAIN Val(q) = DOMAIN source.fns
      /\ \A i \in DOMAIN source.fns :
            ~ChangedSince(EmitOf(source.fns[i].name), revision)
               => Val(q)[i] = Val(EmitOf(source.fns[i].name))
  BY <1>1, <1>3, <1>4 DEF MemoInv, LinkAgrees
<1>6. ASSUME NEW i \in DOMAIN source.fns
      PROVE  /\ source.fns[i].name \in Fn
             /\ Ready(EmitOf(source.fns[i].name))
             /\ ~ChangedSince(EmitOf(source.fns[i].name), revision)
  <2>1. /\ i + 1 \in DOMAIN memo[q].deps
        /\ memo[q].deps[i + 1] = EmitOf(source.fns[i].name)
        /\ source.fns[i].name \in Fn
    BY <1>5, ModuleReads
  <2>. QED BY <1>1, <2>1
<1>. QED BY <1>5, <1>6

(***************************************************************************)
(* A reply is compiled from the text the session holds now.                *)
(***************************************************************************)
THEOREM ReplyIsFreshAlways == Spec => []ReplyIsFresh
<1>1. IInv => ReplyIsFresh
  <2>. SUFFICES ASSUME IInv PROVE ReplyIsFresh
    OBVIOUS
  <2>1. MemoInv /\ revision \in Nat /\ source \in Source
    BY DEF IInv, MemoInv
  <2>2. \A f \in Fn : Ready(EmitOf(f)) => Named(source.fns, f) # {} /\ FromBody(Val(EmitOf(f)), Body(f))
    BY <2>1, ReadyIsFresh DEF MemoInv, EmitOf, PerFn, Codegen, IrOf, FromBody
  <2>3. ASSUME NEW f \in Fn, reply.q = EmitOf(f)
        PROVE  Named(source.fns, f) # {} /\ FromBody(reply.val, Body(f))
    <3>1. Ready(EmitOf(f)) /\ reply.val = Val(EmitOf(f))
      BY <2>3 DEF IInv, ReplyIsMemo, EmitOf, Input
    <3>. QED BY <2>2, <3>1
  <2>4. ASSUME reply.q = LinkOf
        PROVE  /\ DOMAIN reply.val = DOMAIN source.fns
               /\ \A i \in DOMAIN reply.val : FromBody(reply.val[i], Body(source.fns[i].name))
    <3>1. Ready(LinkOf) /\ reply.val = Val(LinkOf)
      BY <2>4 DEF IInv, ReplyIsMemo, LinkOf, Input
    <3>. QED BY <2>1, <2>2, <3>1, LinkedIsReady
  <2>. QED BY <2>3, <2>4 DEF ReplyIsFresh
<1>. QED BY <1>1, Invariant, PTL

(***************************************************************************)
(* compile_module hands out the code compile_fn would: the one memo of     *)
(* each function, allocated once.                                          *)
(***************************************************************************)
THEOREM OneCodePerFunctionAlways == Spec => []OneCodePerFunction
<1>1. IInv => OneCodePerFunction
  <2>. SUFFICES ASSUME IInv, reply.q = LinkOf
                PROVE  \A i \in DOMAIN reply.val : reply.val[i] = Val(EmitOf(source.fns[i].name))
    BY DEF OneCodePerFunction
  <2>1. MemoInv /\ revision \in Nat /\ source \in Source
    BY DEF IInv, MemoInv
  <2>2. Ready(LinkOf) /\ reply.val = Val(LinkOf)
    BY DEF IInv, ReplyIsMemo, LinkOf, Input
  <2>. QED BY <2>1, <2>2, LinkedIsReady
<1>. QED BY <1>1, Invariant, PTL

(***************************************************************************)
(* A query with a memo runs again only when something it read changed      *)
(* since: a green walk and a repeated request run nothing.                 *)
(***************************************************************************)
LEMMA ExecutesRed ==
    ASSUME IInv, Next, NEW q \in Query, Executes(q), Known(q)
    PROVE  /\ ~Ready(q)
           /\ \E i \in DOMAIN memo[q].deps :
                 /\ Ready(memo[q].deps[i])
                 /\ ChangedSince(memo[q].deps[i], memo[q].verified)
<1>1. /\ stack # <<>> /\ Top.q = q /\ Top.mode # "execute"
      /\ Len(stack') = Len(stack) /\ stack'[Len(stack)].mode = "execute"
  BY DEF Executes
<1>2. /\ Top.pos \in Nat \ {0} /\ Walked(Top) /\ StackShape
      /\ Len(stack) \in Nat \ {0} /\ Len(Below) = Len(stack) - 1
  BY <1>1, TopFacts, StackParts DEF IInv, StackShape
<1>3. \A val : ~Return(val)
  BY <1>1, <1>2 DEF Return
<1>4. \A pos \in Nat \ {0} : ~(Become("verify", pos) /\ UNCHANGED <<status, reply>>)
  <2>. SUFFICES ASSUME NEW pos \in Nat \ {0}, Become("verify", pos), UNCHANGED <<status, reply>>
                PROVE  FALSE
    OBVIOUS
  <2>1. PICK mode \in {"verify", "execute"} : mode = "verify"
    OBVIOUS
  <2>2. stack'[Len(stack)] = [q |-> Top.q, mode |-> mode, pos |-> pos]
    BY <1>1, <1>2, <2>1, BecomeShape
  <2>. QED BY <1>1, <2>1, <2>2
<1>5. \A d : ~Push(d)
  <2>1. stack \in Seq(Activity)
    BY <1>2 DEF StackShape
  <2>. QED BY <1>1, <1>2, <2>1 DEF Push
<1>6. CASE Fetch
  BY <1>1, <1>3, <1>4, <1>6 DEF Fetch, Known
<1>7. CASE Verify
  <2>1. Top.mode = "verify" /\ UNCHANGED <<source, revision, status>>
    BY <1>7 DEF Verify, Running
  <2>2. Top.pos + 1 \in Nat \ {0} /\ MemoShape
    BY <1>2 DEF IInv
  <2>3. DOMAIN memo[q].deps = 1..Len(memo[q].deps) /\ Len(memo[q].deps) \in Nat
    BY <2>2, DependenciesUnder
  <2>4. /\ Top.pos \in DOMAIN memo[q].deps
        /\ Ready(memo[q].deps[Top.pos])
        /\ ChangedSince(memo[q].deps[Top.pos], memo[q].verified)
    BY <1>1, <1>2, <1>3, <1>4, <1>5, <1>7, <2>1, <2>2, <2>3 DEF Verify, NextDependency
  <2>. QED BY <1>1, <1>2, <2>1, <2>4 DEF Walked
<1>8. CASE Read \/ Finish \/ Panic
  BY <1>1, <1>8 DEF Read, Finish, Panic, Running
<1>9. CASE Request
  BY <1>1, <1>9 DEF Request, UpdateSource, CompileFn, CompileModule, Idle
<1>. QED BY <1>6, <1>7, <1>8, <1>9 DEF Next, Evaluate

(***************************************************************************)
(* When a codegen memo has a changed and verified dependency, the          *)
(* function's body compiles to another optimised IR than the memo's.       *)
(***************************************************************************)
LEMMA RedIsEdited ==
    ASSUME IInv, NEW q \in Codegen \X Fn, Known(q),
           NEW i \in DOMAIN memo[q].deps,
           Ready(memo[q].deps[i]), ChangedSince(memo[q].deps[i], memo[q].verified)
    PROVE  ~FromBody(memo[q].val, Body(q[2]))
<1>1. PICK s \in Codegen, f \in Fn : q = <<s, f>>
  OBVIOUS
<1>2. q \in Query /\ q[1] = s /\ q[2] = f /\ q # LinkOf
  BY <1>1, QueryKinds DEF PerFn, Codegen, LinkOf
<1>3. PICK d : d = memo[q].deps[i]
  OBVIOUS
<1>4. Feeds(d, q)
  BY <1>2, <1>3, ReadsFixed DEF IInv, MemoShape
<1>5. IrOf(q) # IrOf(d)
  BY <1>1, <1>2, <1>3, <1>4 DEF IInv, RedIsDifferent
<1>6. IrOf(d) = Optimize(Body(f))
  <2>1. MemoShape /\ VerifiedInOrder /\ Agrees /\ revision \in Nat
    BY DEF IInv
  <2>2. PICK t \in Codegen \cup {"optimize_ir"} : d = <<t, f>>
    BY <1>1, <1>2, <1>4 DEF Feeds, Codegen, ParseOf
  <2>3. Ready(<<t, f>>) => IrOf(<<t, f>>) = Optimize(Body(f))
    BY <2>1, ReadyIsFresh
  <2>. QED BY <1>3, <2>2, <2>3
<1>. QED BY <1>1, <1>2, <1>5, <1>6 DEF FromBody, IrOf, Val, Codegen

(***************************************************************************)
(* Editing one function re-runs no codegen query of another.               *)
(***************************************************************************)
THEOREM CodegenIsolatedAlways == Spec => CodegenIsolated
<1>1. IInv /\ [Next]_vars =>
        [\A q \in Codegen \X Fn :
            (Executes(q) /\ memo[q] # None) => ~ FromBody(memo[q].val, Body(q[2]))]_vars
  <2>. SUFFICES ASSUME IInv, Next, NEW q \in Codegen \X Fn, Executes(q), memo[q] # None
                PROVE  ~ FromBody(memo[q].val, Body(q[2]))
    OBVIOUS
  <2>1. q \in Query /\ Known(q)
    BY DEF Query, PerFn, Known
  <2>. QED BY <2>1, ExecutesRed, RedIsEdited
<1>. QED BY <1>1, Invariant, PTL DEF Spec, CodegenIsolated

(***************************************************************************)
(* A request for what is already compiled runs no query.                   *)
(***************************************************************************)
THEOREM RepeatIsSilentAlways == Spec => RepeatIsSilent
<1>1. IInv /\ [Next]_vars =>
        [\A q \in Query : (Executes(q) /\ memo[q] # None) => memo[q].verified < revision]_vars
  <2>. SUFFICES ASSUME IInv, Next, NEW q \in Query, Executes(q), memo[q] # None
                PROVE  memo[q].verified < revision
    OBVIOUS
  <2>1. Known(q) /\ ~Ready(q)
    BY ExecutesRed DEF Known
  <2>2. memo[q].verified # revision
    BY <2>1 DEF Ready, Known
  <2>3. memo[q].verified \in 1..revision /\ revision \in Nat
    BY <2>1 DEF IInv, MemoShape
  <2>. QED BY <2>2, <2>3
<1>. QED BY <1>1, Invariant, PTL DEF Spec, RepeatIsSilent

(***************************************************************************)
(* compile_module of a text that parses never ends in a panic.             *)
(***************************************************************************)
THEOREM LinkNeverPanicsAlways == Spec => LinkNeverPanics
<1>1. IInv /\ [Next]_vars =>
        [(stack # <<>> /\ stack[1].q = LinkOf /\ source # Garbage) => status' = "running"]_vars
  <2>. SUFFICES ASSUME IInv, Next, stack # <<>>, stack[1].q = LinkOf, source # Garbage
                PROVE  status' = "running"
    OBVIOUS
  <2>1. status = "running" /\ StackShape
    BY DEF IInv, StackShape
  <2>2. CASE Panic
    <3>1. Top.q[1] = "fn_ir" /\ Named(Val(ParseOf), Top.q[2]) = {}
      BY <2>2 DEF Panic, Panics
    <3>2. PICK n : n = Len(stack)
      OBVIOUS
    <3>3. n \in DOMAIN stack /\ Top = stack[n] /\ Top.q \in Query /\ DOMAIN stack = 1..n /\ n \in Nat
      BY <2>1, <3>2, StackParts DEF StackShape, Top
    <3>4. Top.q[1] \in PerFn /\ Top.q[2] \in Fn
      BY <3>1, <3>3, QueryKinds DEF ParseOf, LinkOf, PerFn
    <3>5. PICK j \in 1..n : stack[j].q = EmitOf(Top.q[2])
      BY <2>1, <3>3, <3>4 DEF StackShape
    <3>6. Named(Val(ParseOf), Top.q[2]) # {}
      BY <3>3, <3>4, <3>5 DEF IInv, LinkAsks
    <3>. QED BY <3>1, <3>6
  <2>3. CASE Fetch \/ Verify \/ Read \/ Finish
    BY <2>1, <2>3 DEF Fetch, Verify, Read, Finish
  <2>4. CASE Request
    BY <2>4 DEF Request, UpdateSource, CompileFn, CompileModule, Idle
  <2>. QED BY <2>2, <2>3, <2>4 DEF Next, Evaluate
<1>. QED BY <1>1, Invariant, PTL DEF Spec, LinkNeverPanics

(***************************************************************************)
(* The bytes of a function stay until its own optimised IR changes.        *)
(***************************************************************************)
THEOREM BytesStableAlways == Spec => BytesStable
<1>1. IInv /\ [Next]_vars =>
        [\A f \in Fn :
            (memo[EmitOf(f)] # None /\ Val(EmitOf(f))' # Val(EmitOf(f)))
                => ~ FromBody(memo[EmitOf(f)].val, Body(f))]_vars
  <2>. SUFFICES ASSUME IInv, Next, NEW f \in Fn, memo[EmitOf(f)] # None,
                       Val(EmitOf(f))' # Val(EmitOf(f))
                PROVE  ~ FromBody(memo[EmitOf(f)].val, Body(f))
    OBVIOUS
  <2>1. PICK q : q = EmitOf(f)
    OBVIOUS
  <2>2. q \in Query /\ Known(q) /\ memo'[q].val # memo[q].val /\ q \in Codegen \X Fn
        /\ q[2] = f /\ MemoShape /\ q[1] \in Codegen
    BY <2>1, QueryKinds DEF EmitOf, PerFn, Codegen, Known, Val, IInv
  <2>3. memo' # memo
    BY <2>2
  <2>4. CASE Finish
    <3>1. PICK t : t = Top.q
      OBVIOUS
    <3>2. /\ Settles(t) /\ stack # <<>> /\ Top.mode = "execute"
          /\ Top.pos > Len(Reads(t))
      BY <2>4, <3>1, FinishSettles DEF Finish, Running
    <3>3. t = q /\ Walked(Top)
      BY <2>2, <3>2, TopFacts DEF Settles
    <3>4. PICK i \in DOMAIN memo[q].deps :
             Ready(memo[q].deps[i]) /\ ChangedSince(memo[q].deps[i], memo[q].verified)
      BY <2>2, <3>1, <3>2, <3>3 DEF Walked
    <3>. QED BY <2>1, <2>2, <3>4, RedIsEdited
  <2>5. CASE Verify
    <3>1. PICK t : t = Top.q
      OBVIOUS
    <3>2. memo' = [memo EXCEPT ![t].verified = revision]
      BY <2>3, <2>5, <3>1 DEF Verify, Execute
    <3>3. memo'[q].val = memo[q].val
      BY <2>2, <3>2 DEF MemoShape, Fields
    <3>. QED BY <2>2, <3>3
  <2>6. CASE Fetch \/ Read \/ Panic
    BY <2>3, <2>6 DEF Fetch, Read, Panic, Execute
  <2>7. CASE Request
    BY <2>3, <2>7 DEF Request, UpdateSource, CompileFn, CompileModule
  <2>. QED BY <2>4, <2>5, <2>6, <2>7 DEF Next, Evaluate
<1>. QED BY <1>1, Invariant, PTL DEF Spec, BytesStable
=============================================================================
