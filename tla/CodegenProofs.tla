---------------------------- MODULE CodegenProofs ----------------------------
(***************************************************************************)
(* Proofs about Codegen, for every function and every choice of registers: *)
(* what the generated code leaves alone, whatever the linear scan decided; *)
(* that the scan is the one of LinearScanList; and that every instruction  *)
(* of a strict function reads the values the IR says.                      *)
(***************************************************************************)
EXTENDS Codegen, IRProofs

-----------------------------------------------------------------------------
(* A list of copies, one after the other                                    *)

\* a holds the machine after each of the first n copies.
Runs(a, n, m, copies) ==
    a[0] = m /\ \A i \in 1..n : a[i] = Copied(a[i - 1], copies[i])

(***************************************************************************)
(* Every copy of a list has its machine.                                   *)
(***************************************************************************)
LEMMA RunsExist ==
    ASSUME NEW n \in Nat, NEW m, NEW copies
    PROVE  \E a : DOMAIN a = 0..n /\ Runs(a, n, m, copies)
<1>. DEFINE Done == {k \in 0..n : \E a : DOMAIN a = 0..k /\ Runs(a, k, m, copies)}
<1>1. 0 \in Done
  <2>. PICK a : a = [i \in 0..0 |-> m]
    OBVIOUS
  <2>1. DOMAIN a = 0..0 /\ a[0] = m
    OBVIOUS
  <2>. QED BY <2>1 DEF Runs
<1>2. ASSUME NEW k \in 0..(n - 1), k \in Done
      PROVE  k + 1 \in Done
  <2>1. PICK a : DOMAIN a = 0..k /\ Runs(a, k, m, copies)
    BY <1>2
  <2>2. PICK b : b = [i \in 0..(k + 1) |-> IF i = k + 1 THEN Copied(a[k], copies[k + 1]) ELSE a[i]]
    OBVIOUS
  <2>3. DOMAIN b = 0..(k + 1) /\ b[0] = m /\ b[k + 1] = Copied(b[k], copies[k + 1])
    <3>1. 0 \in 0..(k + 1) /\ k \in 0..(k + 1) /\ k + 1 \in 0..(k + 1) /\ 0 # k + 1 /\ k # k + 1
      OBVIOUS
    <3>. QED BY <2>1, <2>2, <3>1 DEF Runs
  <2>4. ASSUME NEW i \in 1..k
        PROVE  b[i] = Copied(b[i - 1], copies[i])
    <3>1. i \in 0..(k + 1) /\ i - 1 \in 0..(k + 1) /\ i # k + 1 /\ i - 1 # k + 1
      OBVIOUS
    <3>. QED BY <2>1, <2>2, <3>1 DEF Runs
  <2>5. ASSUME NEW i \in 1..(k + 1)
        PROVE  b[i] = Copied(b[i - 1], copies[i])
    <3>1. i \in 1..k \/ (i = k + 1 /\ i - 1 = k)
      OBVIOUS
    <3>. QED BY <2>3, <2>4, <3>1
  <2>6. k + 1 \in 0..n
    OBVIOUS
  <2>. QED BY <2>3, <2>5, <2>6 DEF Runs
<1>3. n \in Done
  <2>. HIDE DEF Done
  <2>1. \A k \in 0..n : k \in Done
    BY <1>1, <1>2, BoundedInduction
  <2>. QED BY <2>1
<1>. QED BY <1>3

(***************************************************************************)
(* Run is the last of these machines.                                      *)
(***************************************************************************)
LEMMA RunUnfolds ==
    ASSUME NEW n \in Nat, NEW m, NEW copies, Len(copies) = n
    PROVE  \E a : Runs(a, n, m, copies) /\ Run(m, copies) = a[n]
<1>. DEFINE Round(f) == [i \in 0..Len(copies) |->
                           IF i = 0 THEN m ELSE Copied(f[i - 1], copies[i])]
<1>1. PICK a : DOMAIN a = 0..n /\ Runs(a, n, m, copies)
  BY RunsExist
<1>2. PICK b : b = [i \in 0..n |-> a[i]]
  OBVIOUS
<1>3. b = Round(b)
  <2>1. \A i \in 0..n : i # 0 => i - 1 \in 0..n /\ i \in 1..n
    OBVIOUS
  <2>2. \A i \in 0..n : b[i] = IF i = 0 THEN m ELSE Copied(b[i - 1], copies[i])
    BY <1>1, <1>2, <2>1 DEF Runs
  <2>3. DOMAIN b = 0..n /\ b = [i \in 0..n |-> b[i]]
    BY <1>2
  <2>. QED BY <2>2, <2>3
<1>4. PICK f : f = CHOOSE g : g = Round(g)
  OBVIOUS
<1>5. f = Round(f)
  BY <1>3, <1>4
<1>6. Run(m, copies) = f[n]
  BY <1>4 DEF Run
<1>7. Runs(f, n, m, copies)
  <2>1. \A i \in 0..n : f[i] = IF i = 0 THEN m ELSE Copied(f[i - 1], copies[i])
    BY <1>5
  <2>2. \A i \in 1..n : i \in 0..n /\ i # 0
    OBVIOUS
  <2>. QED BY <2>1, <2>2 DEF Runs
<1>. QED BY <1>6, <1>7

-----------------------------------------------------------------------------
(* What a machine keeps: R pairs registers, and W words, with their tags    *)

IsMachine(m) ==
    /\ m = [regs |-> m.regs, mem |-> m.mem, seen |-> m.seen]
    /\ ToSet(CalleePool) \subseteq DOMAIN m.regs

Has(f, P) == \A p \in P : p[1] \in DOMAIN f /\ f[p[1]] = p[2]

Safe(m, R, W) == IsMachine(m) /\ Has(m.regs, R) /\ Has(m.mem, W)

Firsts(P) == {p[1] : p \in P}

\* No tag of P is one that a definition or an edge changes.
Lasting(P) == \A p \in P : (\A v : p[2] # Holds(v)) /\ p[2][1] # "phi"

\* The scratch registers promise nothing.
Scratches(R) == "t0" \notin Firsts(R) /\ "t1" \notin Firsts(R)

\* A place that promises nothing.
Open(p, R, W) ==
    \/ p.kind = "reg" /\ p.at \notin Firsts(R)
    \/ p.kind \in {"word", "sp"} /\ p.at \notin Firsts(W)

(***************************************************************************)
(* A write to a register, or to a word, that promises nothing.             *)
(***************************************************************************)
LEMMA SetReg ==
    ASSUME NEW R, NEW W, NEW m, Safe(m, R, W), NEW r, r \notin Firsts(R), NEW x
    PROVE  /\ Safe([m EXCEPT !.regs[r] = x], R, W)
           /\ [m EXCEPT !.regs[r] = x].mem = m.mem
           /\ [m EXCEPT !.regs[r] = x].regs = [m.regs EXCEPT ![r] = x]
<1>1. PICK n : n = [m EXCEPT !.regs[r] = x]
  OBVIOUS
<1>2. n = [regs |-> [m.regs EXCEPT ![r] = x], mem |-> m.mem, seen |-> m.seen]
  BY <1>1 DEF Safe, IsMachine
<1>3. n.regs = [m.regs EXCEPT ![r] = x] /\ n.mem = m.mem /\ n.seen = m.seen
  BY <1>2
<1>4. Has(n.regs, R)
  <2>1. \A p \in R : p[1] # r
    BY DEF Firsts
  <2>. QED BY <1>3, <2>1 DEF Safe, Has
<1>. QED BY <1>1, <1>2, <1>3, <1>4 DEF Safe, IsMachine

(***************************************************************************)
(* The same for a word.                                                    *)
(***************************************************************************)
LEMMA SetWord ==
    ASSUME NEW R, NEW W, NEW m, Safe(m, R, W), NEW w, w \notin Firsts(W), NEW x
    PROVE  /\ Safe([m EXCEPT !.mem[w] = x], R, W)
           /\ [m EXCEPT !.mem[w] = x].regs = m.regs
           /\ [m EXCEPT !.mem[w] = x].mem = [m.mem EXCEPT ![w] = x]
<1>1. PICK n : n = [m EXCEPT !.mem[w] = x]
  OBVIOUS
<1>2. n = [regs |-> m.regs, mem |-> [m.mem EXCEPT ![w] = x], seen |-> m.seen]
  BY <1>1 DEF Safe, IsMachine
<1>3. n.regs = m.regs /\ n.mem = [m.mem EXCEPT ![w] = x] /\ n.seen = m.seen
  BY <1>2
<1>4. Has(n.mem, W)
  <2>1. \A p \in W : p[1] # w
    BY DEF Firsts
  <2>. QED BY <1>3, <2>1 DEF Safe, Has
<1>. QED BY <1>1, <1>2, <1>3, <1>4 DEF Safe, IsMachine

(***************************************************************************)
(* The address of a word out of reach goes to a scratch register.          *)
(***************************************************************************)
LEMMA AddressedKeeps ==
    ASSUME NEW R, NEW W, NEW m, Safe(m, R, W), NEW addr, addr \notin Firsts(R), NEW offset
    PROVE  /\ Safe(Addressed(m, addr, offset), R, W)
           /\ Addressed(m, addr, offset).mem = m.mem
           /\ \A r \in DOMAIN m.regs : r # addr => Addressed(m, addr, offset).regs[r] = m.regs[r]
<1>1. CASE offset < -ReachWords
  <2>1. Addressed(m, addr, offset) = [m EXCEPT !.regs[addr] = Junk]
    BY <1>1 DEF Addressed
  <2>2. /\ Safe([m EXCEPT !.regs[addr] = Junk], R, W)
        /\ [m EXCEPT !.regs[addr] = Junk].mem = m.mem
        /\ [m EXCEPT !.regs[addr] = Junk].regs = [m.regs EXCEPT ![addr] = Junk]
    BY SetReg
  <2>. QED BY <2>1, <2>2
<1>2. CASE ~(offset < -ReachWords)
  BY <1>2 DEF Addressed
<1>. QED BY <1>1, <1>2

(***************************************************************************)
(* A load writes its destination, at most one other scratch register, and  *)
(* no word (select.rs:230-239).                                            *)
(***************************************************************************)
LEMMA LoadKeeps ==
    ASSUME NEW R, NEW W, NEW m, Safe(m, R, W), Scratches(R),
           NEW dest, dest \notin Firsts(R), NEW offset
    PROVE  /\ Safe(Load(m, dest, offset), R, W)
           /\ Load(m, dest, offset).mem = m.mem
           /\ dest \in DOMAIN m.regs => Load(m, dest, offset).regs[dest] = m.mem[offset]
<1>1. PICK addr : addr = IF dest = "t0" THEN "t1" ELSE "t0"
  OBVIOUS
<1>2. addr \notin Firsts(R) /\ addr # dest
  BY <1>1 DEF Scratches
<1>3. PICK n : n = Addressed(m, addr, offset)
  OBVIOUS
<1>4. Safe(n, R, W) /\ n.mem = m.mem
  BY <1>2, <1>3, AddressedKeeps
<1>5. Load(m, dest, offset) = [n EXCEPT !.regs[dest] = n.mem[offset]]
  BY <1>1, <1>3 DEF Load
<1>6. PICK x : x = n.mem[offset]
  OBVIOUS
<1>7. /\ Safe([n EXCEPT !.regs[dest] = x], R, W)
      /\ [n EXCEPT !.regs[dest] = x].mem = n.mem
      /\ [n EXCEPT !.regs[dest] = x].regs = [n.regs EXCEPT ![dest] = x]
  BY <1>4, SetReg
<1>8. DOMAIN n.regs = DOMAIN m.regs
  <2>1. CASE offset < -ReachWords
    BY <1>2, <1>3, <2>1, SetReg DEF Addressed
  <2>2. CASE ~(offset < -ReachWords)
    BY <1>3, <2>2 DEF Addressed
  <2>. QED BY <2>1, <2>2
<1>. QED BY <1>4, <1>5, <1>6, <1>7, <1>8

(***************************************************************************)
(* A store writes its word and at most one scratch register, not the one   *)
(* it stores (select.rs:219-228).                                          *)
(***************************************************************************)
LEMMA StoreKeeps ==
    ASSUME NEW R, NEW W, NEW m, Safe(m, R, W), Scratches(R),
           NEW src, NEW offset, offset \notin Firsts(W)
    PROVE  /\ Safe(Store(m, src, offset), R, W)
           /\ DOMAIN Store(m, src, offset).mem = DOMAIN m.mem
           /\ src \in DOMAIN m.regs /\ offset \in DOMAIN m.mem =>
                Store(m, src, offset).mem[offset] = m.regs[src]
<1>1. PICK addr : addr = IF src = "t0" THEN "t1" ELSE "t0"
  OBVIOUS
<1>2. addr \notin Firsts(R) /\ addr # src
  BY <1>1 DEF Scratches
<1>3. PICK n : n = Addressed(m, addr, offset)
  OBVIOUS
<1>4. Safe(n, R, W) /\ n.mem = m.mem /\ (src \in DOMAIN m.regs => n.regs[src] = m.regs[src])
  BY <1>2, <1>3, AddressedKeeps
<1>5. Store(m, src, offset) = [n EXCEPT !.mem[offset] = n.regs[src]]
  BY <1>1, <1>3 DEF Store
<1>6. PICK x : x = n.regs[src]
  OBVIOUS
<1>7. /\ Safe([n EXCEPT !.mem[offset] = x], R, W)
      /\ [n EXCEPT !.mem[offset] = x].mem = [n.mem EXCEPT ![offset] = x]
  BY <1>4, SetWord
<1>. QED BY <1>4, <1>5, <1>6, <1>7

(***************************************************************************)
(* load_operand writes nothing but scratch registers (select.rs:115-124).  *)
(***************************************************************************)
LEMMA GetKeeps ==
    ASSUME NEW R, NEW W, NEW m, Safe(m, R, W), Scratches(R),
           NEW p, NEW scratch, scratch \notin Firsts(R)
    PROVE  Safe(Get(m, p, scratch), R, W)
<1>1. CASE p.kind = "reg"
  BY <1>1 DEF Get
<1>2. CASE p.kind # "reg"
  BY <1>2, LoadKeeps DEF Get
<1>. QED BY <1>1, <1>2

(***************************************************************************)
(* store_result writes its place (select.rs:133-145).                      *)
(***************************************************************************)
LEMMA PutKeeps ==
    ASSUME NEW R, NEW W, NEW m, Safe(m, R, W), Scratches(R),
           NEW p, Open(p, R, W), NEW from
    PROVE  Safe(Put(m, p, from), R, W)
<1>1. CASE p.kind = "reg"
  <2>1. p.at \notin Firsts(R)
    BY <1>1 DEF Open
  <2>2. PICK x : x = m.regs[from]
    OBVIOUS
  <2>3. Put(m, p, from) = [m EXCEPT !.regs[p.at] = x]
    BY <1>1, <2>2 DEF Put, Move
  <2>. QED BY <2>1, <2>3, SetReg
<1>2. CASE p.kind = "word"
  <2>1. p.at \notin Firsts(W) /\ Put(m, p, from) = Store(m, from, p.at)
    BY <1>2 DEF Open, Put
  <2>. QED BY <2>1, StoreKeeps
<1>3. CASE p.kind = "sp"
  <2>1. p.at \notin Firsts(W)
    BY <1>3 DEF Open
  <2>2. PICK x : x = m.regs[from]
    OBVIOUS
  <2>3. Put(m, p, from) = [m EXCEPT !.mem[p.at] = x]
    BY <1>3, <2>2 DEF Put
  <2>. QED BY <2>1, <2>3, SetWord
<1>. QED BY <1>1, <1>2, <1>3 DEF Open

(***************************************************************************)
(* A read changes nothing.                                                 *)
(***************************************************************************)
LEMMA SeeKeeps ==
    ASSUME NEW R, NEW W, NEW m, Safe(m, R, W), NEW v, NEW r
    PROVE  Safe(See(m, v, r), R, W)
<1>1. PICK n : n = See(m, v, r)
  OBVIOUS
<1>2. n = [regs |-> m.regs, mem |-> m.mem, seen |-> m.seen \cup {<<Holds(v), m.regs[r]>>}]
  BY <1>1 DEF See, Safe, IsMachine
<1>3. n.regs = m.regs /\ n.mem = m.mem /\ n.seen = m.seen \cup {<<Holds(v), m.regs[r]>>}
  BY <1>2
<1>. QED BY <1>1, <1>2, <1>3 DEF Safe, IsMachine

(***************************************************************************)
(* A copy writes the register it goes through and its destination.         *)
(***************************************************************************)
LEMMA CopiedKeeps ==
    ASSUME NEW R, NEW W, NEW m, Safe(m, R, W), Scratches(R),
           NEW c, c.via \notin Firsts(R), Open(c.to, R, W)
    PROVE  Safe(Copied(m, c), R, W)
<1>1. PICK got : got = Get(m, c.from, c.via)
  OBVIOUS
<1>2. PICK r : r = Got(c.from, c.via)
  OBVIOUS
<1>3. PICK read : read = IF c.value = NoValue THEN got ELSE See(got, c.value, r)
  OBVIOUS
<1>4. Safe(got, R, W)
  BY <1>1, GetKeeps
<1>5. Safe(read, R, W)
  BY <1>3, <1>4, SeeKeeps
<1>6. PICK put : put = Put(read, c.to, r)
  OBVIOUS
<1>7. Safe(put, R, W)
  BY <1>5, <1>6, PutKeeps
<1>8. Copied(m, c) = IF c.phi = NoValue THEN put
                     ELSE IF c.to.kind = "reg" THEN [put EXCEPT !.regs[c.to.at] = Coming(c.phi)]
                     ELSE [put EXCEPT !.mem[c.to.at] = Coming(c.phi)]
  BY <1>1, <1>2, <1>3, <1>6 DEF Copied
<1>9. CASE c.to.kind = "reg"
  <2>1. c.to.at \notin Firsts(R)
    BY <1>9 DEF Open
  <2>2. Safe([put EXCEPT !.regs[c.to.at] = Coming(c.phi)], R, W)
    BY <1>7, <2>1, SetReg
  <2>. QED BY <1>7, <1>8, <1>9, <2>2
<1>10. CASE c.to.kind # "reg"
  <2>1. c.to.at \notin Firsts(W)
    BY <1>10 DEF Open
  <2>2. Safe([put EXCEPT !.mem[c.to.at] = Coming(c.phi)], R, W)
    BY <1>7, <2>1, SetWord
  <2>. QED BY <1>7, <1>8, <1>10, <2>2
<1>. QED BY <1>9, <1>10

(***************************************************************************)
(* So does a list of copies.                                               *)
(***************************************************************************)
LEMMA RunKeeps ==
    ASSUME NEW R, NEW W, NEW m, Safe(m, R, W), Scratches(R),
           NEW n \in Nat, NEW copies, Len(copies) = n,
           \A i \in 1..n : copies[i].via \notin Firsts(R) /\ Open(copies[i].to, R, W)
    PROVE  Safe(Run(m, copies), R, W)
<1>1. PICK a : Runs(a, n, m, copies) /\ Run(m, copies) = a[n]
  BY RunUnfolds
<1>. DEFINE Done == {i \in 0..n : Safe(a[i], R, W)}
<1>2. 0 \in Done
  BY <1>1 DEF Runs
<1>3. ASSUME NEW i \in 0..(n - 1), i \in Done
      PROVE  i + 1 \in Done
  <2>1. PICK j : j = i + 1
    OBVIOUS
  <2>2. j \in 1..n /\ j \in 0..n /\ j - 1 = i
    BY <2>1
  <2>3. a[j] = Copied(a[i], copies[j])
    BY <1>1, <2>2 DEF Runs
  <2>4. Safe(Copied(a[i], copies[j]), R, W)
    BY <1>3, <2>2, CopiedKeeps
  <2>. QED BY <2>1, <2>2, <2>3, <2>4
<1>4. n \in Done
  <2>. HIDE DEF Done
  <2>1. \A i \in 0..n : i \in Done
    BY <1>2, <1>3, BoundedInduction
  <2>. QED BY <2>1
<1>. QED BY <1>1, <1>4

(***************************************************************************)
(* A new value leaves every tag that is not a value's.                     *)
(***************************************************************************)
LEMMA DefineKeeps ==
    ASSUME NEW R, NEW W, NEW m, Safe(m, R, W), Lasting(R), Lasting(W),
           NEW v, NEW r, r \notin Firsts(R)
    PROVE  Safe(Define(m, v, r), R, W)
<1>. DEFINE Fresh(tag) == IF tag = Holds(v) THEN Junk ELSE tag
<1>1. PICK n : n = Define(m, v, r)
  OBVIOUS
<1>2. n = [regs |-> [q \in DOMAIN m.regs |-> IF q = r THEN Holds(v) ELSE Fresh(m.regs[q])],
           mem |-> [w \in DOMAIN m.mem |-> Fresh(m.mem[w])], seen |-> m.seen]
  BY <1>1 DEF Define, Safe, IsMachine
<1>3. /\ n.regs = [q \in DOMAIN m.regs |-> IF q = r THEN Holds(v) ELSE Fresh(m.regs[q])]
      /\ n.mem = [w \in DOMAIN m.mem |-> Fresh(m.mem[w])] /\ n.seen = m.seen
  BY <1>2
<1>4. \A p \in R \cup W : Fresh(p[2]) = p[2]
  BY DEF Lasting
<1>5. \A p \in R : p[1] # r
  BY DEF Firsts
<1>6. Has(n.regs, R)
  BY <1>3, <1>4, <1>5 DEF Safe, Has
<1>7. Has(n.mem, W)
  BY <1>3, <1>4 DEF Safe, Has
<1>. QED BY <1>1, <1>2, <1>3, <1>6, <1>7 DEF Safe, IsMachine

(***************************************************************************)
(* An instruction writes the place of its result.                          *)
(***************************************************************************)
LEMMA ResultKeeps ==
    ASSUME NEW R, NEW W, NEW m, Safe(m, R, W), Scratches(R), Lasting(R), Lasting(W),
           NEW v, Open(Home(v), R, W), NEW scratch, scratch \in {"t0", "t1"}
    PROVE  Safe(Result(m, v, scratch), R, W)
<1>1. PICK dest : dest = Got(Home(v), scratch)
  OBVIOUS
<1>2. dest \notin Firsts(R)
  BY <1>1 DEF Got, Open, Scratches
<1>3. Safe(Define(m, v, dest), R, W)
  BY <1>2, DefineKeeps
<1>4. Result(m, v, scratch) = Put(Define(m, v, dest), Home(v), dest)
  BY <1>1 DEF Result
<1>. QED BY <1>3, <1>4, PutKeeps

(***************************************************************************)
(* Reading an operand, or two, writes scratch registers only.              *)
(***************************************************************************)
LEMMA OperandKeeps ==
    ASSUME NEW R, NEW W, NEW m, Safe(m, R, W), Scratches(R), NEW a, NEW b
    PROVE  Safe(Operand(m, a, "t0"), R, W) /\ Safe(BothOperands(m, a, b), R, W)
<1>1. "t0" \notin Firsts(R) /\ "t1" \notin Firsts(R)
  BY DEF Scratches
<1>2. PICK n : n = Get(m, Home(a), "t0")
  OBVIOUS
<1>3. Safe(n, R, W)
  BY <1>1, <1>2, GetKeeps
<1>4. Safe(Operand(m, a, "t0"), R, W)
  BY <1>2, <1>3, SeeKeeps DEF Operand
<1>5. PICK l : l = Get(n, Home(b), "t1")
  OBVIOUS
<1>6. Safe(l, R, W)
  BY <1>1, <1>3, <1>5, GetKeeps
<1>7. PICK s : s = See(l, a, Got(Home(a), "t0"))
  OBVIOUS
<1>8. Safe(s, R, W)
  BY <1>6, <1>7, SeeKeeps
<1>9. BothOperands(m, a, b) = See(s, b, Got(Home(b), "t1"))
  BY <1>2, <1>5, <1>7 DEF BothOperands
<1>. QED BY <1>4, <1>8, <1>9, SeeKeeps

-----------------------------------------------------------------------------
(* The frame                                                                *)

\* What the layout of the frame depends on.
Framed == fn \in Program /\ nextSlot \in Nat /\ usedCallee \subseteq ToSet(CalleePool)

(***************************************************************************)
(* The prologue saves the registers the linear scan used (select.rs:54-55).*)
(***************************************************************************)
LEMMA SavedFacts ==
    ASSUME Framed
    PROVE  /\ Saved \in Seq(ToSet(CalleePool)) /\ Len(Saved) \in Nat
           /\ \A i \in 1..Len(Saved) : Saved[i] \in usedCallee /\ Saved[i] \in ToSet(CalleePool)
           /\ \A r \in usedCallee : \E i \in 1..Len(Saved) : Saved[i] = r
<1>1. PICK s : s = Saved
  OBVIOUS
<1>2. s \in Seq(ToSet(CalleePool)) /\ ToSet(s) = ToSet(CalleePool) \cap usedCallee
  BY <1>1, RegistersAssumption, KeepFacts DEF Saved
<1>3. ToSet(s) = usedCallee
  BY <1>2 DEF Framed
<1>4. DOMAIN s = 1..Len(s) /\ Len(s) \in Nat
  BY <1>2
<1>5. ToSet(s) = {s[i] : i \in 1..Len(s)}
  BY <1>4 DEF ToSet
<1>. QED BY <1>1, <1>2, <1>3, <1>4, <1>5 DEF Framed

(***************************************************************************)
(* The functions to compile are laid out as IRProofs asks.                 *)
(***************************************************************************)
LEMMA ProgramLaid == \A f \in Program : Laid(f)
  BY ProgramAssumption DEF Laid

(***************************************************************************)
(* An instruction is in a block.                                           *)
(***************************************************************************)
LEMMA InstIn ==
    ASSUME NEW f \in Program, NEW x \in Insts(f)
    PROVE  /\ x.idx \in Nat
           /\ \E b \in Block(f) : \E i \in DOMAIN f.body[b] : x.inst = f.body[b][i]
<1>1. Laid(f)
  BY ProgramLaid
<1>2. PICK k \in 1..Size(f, x.block) : x.idx = Idx(f, x.block, k) /\ x.inst = f.body[x.block][k]
  BY <1>1, InstsAt
<1>3. x.block \in Block(f)
  BY <1>1, InstsAt
<1>4. Idx(f, x.block, k) \in 1..MaxIndexOf(f)
  BY <1>1, <1>3, IdxRange
<1>5. DOMAIN f.body[x.block] = 1..Size(f, x.block)
  BY <1>1, <1>3, Sizes
<1>6. MaxIndexOf(f) \in Nat
  BY <1>1, IdxRange
<1>7. x.idx \in Nat
  BY <1>2, <1>4, <1>6
<1>. QED BY <1>2, <1>3, <1>5, <1>7

(***************************************************************************)
(* A function has finitely many instructions.                              *)
(***************************************************************************)
LEMMA InstsFinite ==
    ASSUME NEW f \in Program
    PROVE  IsFiniteSet(Insts(f)) /\ IsFiniteSet(Block(f))
<1>. DEFINE Of(b) == {[idx |-> FirstIndex(f, b) + i - 1, block |-> b, inst |-> f.body[b][i]] :
                        i \in DOMAIN f.body[b]}
<1>1. Insts(f) = UNION {Of(b) : b \in Block(f)}
  BY DEF Insts
<1>2. PICK n \in Nat : n = Len(f.body) /\ Block(f) = 1..n
  BY ProgramAssumption DEF Block
<1>3. IsFiniteSet(Block(f))
  BY <1>2, FS_Interval
<1>4. ASSUME NEW b \in Block(f)
      PROVE  IsFiniteSet(Of(b))
  <2>1. PICK k \in Nat : DOMAIN f.body[b] = 1..k
    BY ProgramAssumption
  <2>2. PICK g : g = [i \in 1..k |-> [idx |-> FirstIndex(f, b) + i - 1, block |-> b, inst |-> f.body[b][i]]]
    OBVIOUS
  <2>3. g \in Surjection(1..k, Of(b))
    BY <2>1, <2>2 DEF Surjection
  <2>4. IsFiniteSet(1..k)
    BY FS_Interval
  <2>. QED BY <2>3, <2>4, FS_Surjection
<1>5. IsFiniteSet({Of(b) : b \in Block(f)})
  <2>1. PICK g : g = [b \in Block(f) |-> Of(b)]
    OBVIOUS
  <2>2. g \in Surjection(Block(f), {Of(b) : b \in Block(f)})
    BY <2>1 DEF Surjection
  <2>. QED BY <1>3, <2>2, FS_Surjection
<1>6. IsFiniteSet(UNION {Of(b) : b \in Block(f)})
  <2>1. \A S \in {Of(b) : b \in Block(f)} : IsFiniteSet(S)
    BY <1>4
  <2>. HIDE DEF Of
  <2>. QED BY <1>5, <2>1, FS_UNION
<1>. QED BY <1>1, <1>3, <1>6

\* The instructions of fn that call, and the phis at the top of its blocks.
CallSites == {y \in Insts(fn) : y.inst.op = "call"}

(***************************************************************************)
(* There are as many backup slots as a call has arguments, an edge has     *)
(* phis, or the function has parameters (select.rs:57-70).                 *)
(***************************************************************************)
LEMMA BackupFacts ==
    ASSUME Framed
    PROVE  /\ BackupSlots \in Nat /\ Len(fn.params) <= BackupSlots
           /\ \A b \in Block(fn) : Len(Phis(fn, b)) <= BackupSlots
           /\ \A x \in CallSites : Len(x.inst.args) <= BackupSlots
<1>a. PICK A : A = {MinBackup, Len(fn.params)}
  OBVIOUS
<1>b. PICK B : B = {Len(Phis(fn, b)) : b \in Block(fn)}
  OBVIOUS
<1>c. PICK C : C = {Len(x.inst.args) : x \in CallSites}
  OBVIOUS
<1>1. fn \in Program /\ IsFiniteSet(Insts(fn)) /\ IsFiniteSet(Block(fn))
  BY InstsFinite DEF Framed
<1>2. A \subseteq Nat /\ IsFiniteSet(A)
  <2>1. MinBackup \in Nat /\ Len(fn.params) \in Nat
    BY <1>1, RegistersAssumption, ProgramAssumption
  <2>2. A = ({} \cup {MinBackup}) \cup {Len(fn.params)}
    BY <1>a
  <2>. QED BY <2>1, <2>2, FS_EmptySet, FS_AddElement
<1>3. B \subseteq Nat /\ IsFiniteSet(B)
  <2>1. ASSUME NEW b \in Block(fn)
        PROVE  Len(Phis(fn, b)) \in Nat
    <3>1. PICK l : l = fn.body[b] /\ l \in Seq(ToSet(l))
      BY <1>1, ProgramAssumption
    <3>2. PICK S : S = {i \in ToSet(l) : i.op = "phi"}
      OBVIOUS
    <3>3. Keep(l, S) \in Seq(ToSet(l))
      BY <3>1, KeepFacts
    <3>. QED BY <3>1, <3>2, <3>3 DEF Phis
  <2>2. PICK g : g = [b \in Block(fn) |-> Len(Phis(fn, b))]
    OBVIOUS
  <2>3. g \in Surjection(Block(fn), B)
    BY <1>b, <2>2 DEF Surjection
  <2>4. B \subseteq Nat
    BY <1>b, <2>1
  <2>5. IsFiniteSet(B)
    BY <1>1, <2>3, FS_Surjection
  <2>. QED BY <2>4, <2>5
<1>4. C \subseteq Nat /\ IsFiniteSet(C)
  <2>1. ASSUME NEW x \in CallSites
        PROVE  Len(x.inst.args) \in Nat
    <3>0. PICK b \in Block(fn) : \E i \in DOMAIN fn.body[b] : x.inst = fn.body[b][i]
      BY <1>1, InstIn DEF CallSites
    <3>1. PICK i \in DOMAIN fn.body[b] : x.inst = fn.body[b][i]
      BY <3>0
    <3>2. x.inst.args \in Seq(ToSet(x.inst.args))
      BY <1>1, <3>1, InstructionAssumption
    <3>. QED BY <3>2
  <2>2. IsFiniteSet(CallSites)
    BY <1>1, FS_Subset DEF CallSites
  <2>3. PICK g : g = [x \in CallSites |-> Len(x.inst.args)]
    OBVIOUS
  <2>4. g \in Surjection(CallSites, C)
    BY <1>c, <2>3 DEF Surjection
  <2>5. C \subseteq Nat
    BY <1>c, <2>1
  <2>6. IsFiniteSet(C)
    BY <2>2, <2>4, FS_Surjection
  <2>. QED BY <2>5, <2>6
<1>5. PICK S : S = A \cup B \cup C
  OBVIOUS
<1>6. S \in SUBSET Int /\ S \subseteq Nat /\ IsFiniteSet(S) /\ S # {}
  <2>1. IsFiniteSet(A \cup B)
    BY <1>2, <1>3, FS_Union
  <2>2. IsFiniteSet((A \cup B) \cup C)
    BY <1>4, <2>1, FS_Union
  <2>3. MinBackup \in S
    BY <1>a, <1>5
  <2>. QED BY <1>2, <1>3, <1>4, <1>5, <2>2, <2>3
<1>7. BackupSlots = Max(S)
  BY <1>a, <1>b, <1>c, <1>5 DEF BackupSlots, CallSites
<1>8. Max(S) \in S /\ \A y \in S : Max(S) >= y
  BY <1>6, MaxOfFinite
<1>9. Max(S) \in Nat /\ \A y \in S : y <= Max(S)
  BY <1>6, <1>8
<1>. QED BY <1>a, <1>b, <1>c, <1>5, <1>7, <1>9

(***************************************************************************)
(* The parts of the frame, from fp down: the links, the saved registers,   *)
(* the spill slots, the backup slots, the buffers, the stack pointer       *)
(* (select.rs:70-90).                                                      *)
(***************************************************************************)
LEMMA FrameFacts ==
    ASSUME Framed
    PROVE  /\ Cardinality(Allocas) \in Nat /\ IsFiniteSet(Allocas)
           /\ StackPointer \in Int /\ BackupAt(1) \in Int
           /\ StackPointer <= BackupAt(1) - BufferWords * Cardinality(Allocas)
           /\ \A n \in 0..(nextSlot - 1) : SpillAt(n) \in Int /\ SpillAt(n) < -2 - Len(Saved) /\ SpillAt(n) >= BackupAt(1)
           /\ \A i \in 1..BackupSlots : BackupAt(i) \in Int /\ BackupAt(i) < -2 - Len(Saved) /\ BackupAt(i) >= BackupAt(1)
<1>1. PICK L \in Nat : L = Len(Saved)
  BY SavedFacts
<1>2. PICK B \in Nat : B = BackupSlots
  BY BackupFacts
<1>3. PICK N \in Nat : N = nextSlot
  BY DEF Framed
<1>4. IsFiniteSet(Allocas) /\ Cardinality(Allocas) \in Nat
  <2>. DEFINE T == {y \in Insts(fn) : y.inst.op = "alloca"}
  <2>1. IsFiniteSet(T)
    BY InstsFinite, FS_Subset DEF Framed
  <2>2. PICK g : g = [x \in T |-> x.idx]
    OBVIOUS
  <2>3. g \in Surjection(T, Allocas)
    BY <2>2 DEF Surjection, Allocas
  <2>4. IsFiniteSet(Allocas)
    BY <2>1, <2>3, FS_Surjection
  <2>. QED BY <2>4, FS_CardinalityType
<1>5. \A i \in Int : BackupAt(i) = -2 - L - N - B + (i - 1)
  BY <1>1, <1>2, <1>3 DEF BackupAt
<1>6. BackupAt(1) = -2 - L - N - B
  BY <1>5
<1>7. \A n \in 0..(N - 1) : SpillAt(n) = -2 - L - (n + 1)
  BY <1>1 DEF SpillAt
<1>8. PICK w \in Nat : w = BufferWords * Cardinality(Allocas)
  BY <1>4, RegistersAssumption
<1>9. PICK needed : needed = 2 + L + N + B + w
  OBVIOUS
<1>10. StackPointer = -(needed + (needed % 2)) /\ needed \in Nat /\ needed % 2 \in 0..1
  <2>1. -(BackupAt(1) - BufferWords * Cardinality(Allocas)) = needed
    BY <1>6, <1>8, <1>9
  <2>2. needed \in Nat /\ needed % 2 \in 0..1
    BY <1>9
  <2>3. FrameWords = needed + (needed % 2)
    BY <2>1 DEF FrameWords
  <2>. QED BY <2>2, <2>3 DEF StackPointer
<1>11. StackPointer \in Int /\ StackPointer <= BackupAt(1) - w
  <2>1. PICK r \in 0..1 : StackPointer = -(needed + r)
    BY <1>10
  <2>. QED BY <1>6, <1>9, <2>1
<1>12. \A n \in 0..(nextSlot - 1) : SpillAt(n) \in Int /\ SpillAt(n) < -2 - Len(Saved) /\ SpillAt(n) >= BackupAt(1)
  BY <1>1, <1>3, <1>6, <1>7
<1>13. \A i \in 1..BackupSlots : BackupAt(i) \in Int /\ BackupAt(i) < -2 - Len(Saved) /\ BackupAt(i) >= BackupAt(1)
  <2>. SUFFICES ASSUME NEW i \in 1..BackupSlots
                PROVE  BackupAt(i) \in Int /\ BackupAt(i) < -2 - Len(Saved) /\ BackupAt(i) >= BackupAt(1)
    OBVIOUS
  <2>1. i \in 1..B /\ i \in Int
    BY <1>2
  <2>2. BackupAt(i) = -2 - L - N - B + (i - 1)
    BY <1>5, <2>1
  <2>. QED BY <1>1, <1>2, <1>3, <1>6, <2>1, <2>2
<1>14. BackupAt(1) \in Int
  BY <1>6
<1>. QED BY <1>4, <1>8, <1>11, <1>12, <1>13, <1>14

-----------------------------------------------------------------------------
(* What the frame promises                                                  *)

\* The callee-saved registers, and the ones of them nothing uses.
Callee == {<<r, Kept(r)>> : r \in ToSet(CalleePool)}
Idle   == {<<r, Kept(r)>> : r \in ToSet(CalleePool) \ usedCallee}

Links     == {<<-1, Kept("ra")>>, <<-2, Kept("fp")>>}
SavedUpTo(k) == {<<SavedAt(i), Kept(Saved[i])>> : i \in 1..k}

\* Every call passes all its arguments in registers.
RegisterArguments == \A x \in CallSites : Len(x.inst.args) <= Len(ArgRegs)

BufferOf(i) == BufferAt(i)..(BufferAt(i) + BufferWords - 1)
Buffers == IF RegisterArguments THEN UNION {{<<w, Buffer(i)>> : w \in BufferOf(i)} : i \in Allocas} ELSE {}

Promised == Buffers \cup Links \cup SavedUpTo(Len(Saved))

(***************************************************************************)
(* The words of the buffers are between the backup slots and sp.           *)
(***************************************************************************)
LEMMA BufferRange ==
    ASSUME Framed, NEW i \in Allocas
    PROVE  BufferAt(i) \in Int /\ BufferAt(i) >= StackPointer /\ BufferAt(i) + BufferWords <= BackupAt(1)
<1>1. PICK below : below = {j \in Allocas : j <= i}
  OBVIOUS
<1>2. PICK c \in Nat, d \in Nat : c = Cardinality(below) /\ d = Cardinality(Allocas) /\ 1 <= c /\ c <= d
  <2>1. IsFiniteSet(Allocas) /\ Cardinality(Allocas) \in Nat
    BY FrameFacts
  <2>2. IsFiniteSet(below) /\ Cardinality(below) <= Cardinality(Allocas) /\ Cardinality(below) \in Nat
    <3>1. below \in SUBSET Allocas
      BY <1>1
    <3>2. IsFiniteSet(below) /\ Cardinality(below) <= Cardinality(Allocas)
      BY <2>1, <3>1, FS_Subset
    <3>. QED BY <3>2, FS_CardinalityType
  <2>3. i \in below
    <3>1. i \in Int
      BY InstIn DEF Allocas, Framed
    <3>. QED BY <1>1, <3>1
  <2>4. Cardinality(below) # 0
    BY <2>2, <2>3, FS_EmptySet
  <2>. QED BY <2>1, <2>2, <2>4
<1>3. PICK w \in Nat : w = BufferWords
  BY RegistersAssumption
<1>4. w <= w * c /\ w * c <= w * d /\ w * c \in Nat /\ w * d \in Nat
  BY <1>2
<1>5. BufferAt(i) = BackupAt(1) - w * c
  BY <1>1, <1>2, <1>3 DEF BufferAt
<1>6. BackupAt(1) \in Int /\ StackPointer \in Int /\ StackPointer <= BackupAt(1) - w * d
  BY <1>2, <1>3, FrameFacts
<1>. QED BY <1>3, <1>4, <1>5, <1>6

(***************************************************************************)
(* The buffers of two allocas have no word in common.                      *)
(***************************************************************************)
LEMMA BuffersApart ==
    ASSUME Framed, NEW i \in Allocas, NEW j \in Allocas, i < j
    PROVE  BufferAt(j) + BufferWords <= BufferAt(i)
<1>1. PICK S, T : S = {k \in Allocas : k <= i} /\ T = {k \in Allocas : k <= j}
  OBVIOUS
<1>2. i \in Int /\ j \in Int /\ \A k \in Allocas : k \in Int
  BY InstIn DEF Allocas, Framed
<1>3. IsFiniteSet(Allocas)
  BY FrameFacts
<1>4. IsFiniteSet(S) /\ IsFiniteSet(T)
  <2>1. S \in SUBSET Allocas /\ T \in SUBSET Allocas
    BY <1>1
  <2>. QED BY <1>3, <2>1, FS_Subset
<1>5. PICK c \in Nat, d \in Nat : c = Cardinality(S) /\ d = Cardinality(T) /\ c + 1 <= d
  <2>0. j <= j /\ ~(j <= i) /\ \A k \in Int : k <= i => k <= j
    BY <1>2
  <2>1. S \in SUBSET T /\ j \in T /\ j \notin S
    BY <1>1, <1>2, <2>0
  <2>2. Cardinality(S) \in Nat /\ Cardinality(T) \in Nat
    BY <1>4, FS_CardinalityType
  <2>3. Cardinality(S) <= Cardinality(T) /\ Cardinality(S) # Cardinality(T)
    BY <1>4, <2>1, FS_Subset
  <2>. QED BY <2>2, <2>3
<1>6. PICK w \in Nat : w = BufferWords
  BY RegistersAssumption
<1>7. w * c + w <= w * d /\ w * c \in Nat /\ w * d \in Nat
  <2>1. PICK e \in Nat : d = (c + 1) + e
    <3>1. d - (c + 1) \in Nat /\ d = (c + 1) + (d - (c + 1))
      BY <1>5
    <3>. QED BY <3>1
  <2>2. w * d = (w * c + w) + w * e /\ w * c \in Nat /\ w * e \in Nat
    BY <2>1
  <2>. QED BY <2>2
<1>8. BufferAt(i) = BackupAt(1) - w * c /\ BufferAt(j) = BackupAt(1) - w * d
  BY <1>1, <1>5, <1>6 DEF BufferAt
<1>9. BackupAt(1) \in Int
  BY FrameFacts
<1>. QED BY <1>6, <1>7, <1>8, <1>9

\* Where the linear scan may have put a value.
Places ==
    {Scan!LS!InReg(r) : r \in ToSet(CallerPool) \cup usedCallee}
      \cup {Scan!LS!InSlot(n) : n \in 0..(nextSlot - 1)}

(***************************************************************************)
(* What is promised is no value's tag, and not about a scratch register or *)
(* an argument register.                                                   *)
(***************************************************************************)
LEMMA PromisesLast ==
    /\ Lasting(Promised) /\ Lasting(Idle) /\ Lasting(Callee)
    /\ Scratches(Idle) /\ Scratches(Callee)
    /\ \A i \in 1..Len(ArgRegs) : ArgRegs[i] \notin Firsts(Idle)
    /\ Idle \subseteq Callee
<1>1. \A r : (\A v : Kept(r) # Holds(v)) /\ Kept(r)[1] # "phi"
  BY DEF Kept, Holds
<1>2. \A k : (\A v : Buffer(k) # Holds(v)) /\ Buffer(k)[1] # "phi"
  BY DEF Buffer, Holds
<1>3. Lasting(Idle) /\ Lasting(Callee)
  BY <1>1 DEF Lasting, Idle, Callee
<1>4. \A p \in Promised : (\E r : p[2] = Kept(r)) \/ (\E k : p[2] = Buffer(k))
  BY DEF Promised, Buffers, Links, SavedUpTo
<1>5. Lasting(Promised)
  BY <1>1, <1>2, <1>4 DEF Lasting
<1>6. Firsts(Idle) \subseteq ToSet(CalleePool) /\ Firsts(Callee) \subseteq ToSet(CalleePool)
  BY DEF Firsts, Idle, Callee
<1>7. "t0" \notin ToSet(CalleePool) /\ "t1" \notin ToSet(CalleePool)
      /\ \A r \in ToSet(ArgRegs) : r \notin ToSet(CalleePool)
  BY RegistersAssumption
<1>8. \A i \in 1..Len(ArgRegs) : ArgRegs[i] \in ToSet(ArgRegs)
  <2>1. DOMAIN ArgRegs = 1..Len(ArgRegs)
    BY RegistersAssumption
  <2>. QED BY <2>1 DEF ToSet
<1>9. Idle \subseteq Callee
  BY DEF Idle, Callee
<1>. QED BY <1>3, <1>5, <1>6, <1>7, <1>8, <1>9 DEF Scratches

(***************************************************************************)
(* The spill slots and the backup slots are nobody else's; nor are the     *)
(* words the stack arguments go to, when the buffers do not count.         *)
(***************************************************************************)
LEMMA FreeWords ==
    ASSUME Framed
    PROVE  /\ \A w \in Int : BackupAt(1) <= w /\ w < -2 - Len(Saved) => w \notin Firsts(Promised)
           /\ ~RegisterArguments =>
                \A w \in Int : w < -2 - Len(Saved) => w \notin Firsts(Promised)
           /\ \A w \in Int : w >= -2 - Len(Saved) => w \notin Firsts(Buffers)
<1>1. PICK L \in Nat : L = Len(Saved)
  BY SavedFacts
<1>2. \A p \in Links \cup SavedUpTo(Len(Saved)) : p[1] \in Int /\ p[1] >= -2 - L
  BY <1>1 DEF Links, SavedUpTo, SavedAt
<1>3. \A p \in Buffers : p[1] \in Int /\ p[1] < BackupAt(1) /\ p[1] < -2 - L
  <2>1. ASSUME NEW i \in Allocas, NEW w \in BufferOf(i)
        PROVE  w \in Int /\ w < BackupAt(1)
    <3>1. BufferAt(i) \in Int /\ BufferAt(i) + BufferWords <= BackupAt(1) /\ BackupAt(1) \in Int /\ BufferWords \in Nat
      BY BufferRange, FrameFacts, RegistersAssumption
    <3>2. w \in BufferAt(i)..(BufferAt(i) + BufferWords - 1)
      BY DEF BufferOf
    <3>. QED BY <3>1, <3>2
  <2>2. BackupAt(1) \in Int /\ BackupAt(1) <= -2 - L
    <3>1. PICK B \in Nat, N \in Nat : B = BackupSlots /\ N = nextSlot
      BY BackupFacts DEF Framed
    <3>2. BackupAt(1) = -2 - L - N - B + (1 - 1)
      BY <1>1, <3>1 DEF BackupAt
    <3>. QED BY <1>1, <3>1, <3>2
  <2>3. \A p \in Buffers : \E i \in Allocas : p[1] \in BufferOf(i)
    BY DEF Buffers
  <2>4. \A p \in Buffers : p[1] \in Int /\ p[1] < BackupAt(1)
    BY <2>1, <2>3
  <2>. QED BY <1>1, <2>2, <2>4
<1>4. ~RegisterArguments => Buffers = {}
  BY DEF Buffers
<1>5. \A w \in Firsts(Promised) :
        \/ \E p \in Links \cup SavedUpTo(Len(Saved)) : w = p[1]
        \/ \E p \in Buffers : w = p[1]
  BY DEF Firsts, Promised
<1>6. \A w \in Firsts(Buffers) : \E p \in Buffers : w = p[1]
  BY DEF Firsts
<1>7. BackupAt(1) \in Int
  BY FrameFacts
<1>8. \A w \in Firsts(Promised) : w \in Int /\ (w >= -2 - L \/ (RegisterArguments /\ w < BackupAt(1)))
  BY <1>2, <1>3, <1>4, <1>5
<1>9. \A w \in Firsts(Buffers) : w \in Int /\ w < -2 - L
  BY <1>3, <1>6
<1>. QED BY <1>1, <1>7, <1>8, <1>9

(***************************************************************************)
(* The linear scan puts a value where nothing is promised: a caller-saved  *)
(* register, a callee-saved one the prologue saves, or a spill slot.       *)
(***************************************************************************)
LEMMA HomeIsOpen ==
    ASSUME Framed, NEW v, alloc[v] \in Places
    PROVE  Open(Home(v), Idle, Promised)
<1>1. CASE \E r \in ToSet(CallerPool) \cup usedCallee : alloc[v] = Scan!LS!InReg(r)
  <2>1. PICK r \in ToSet(CallerPool) \cup usedCallee : alloc[v] = Scan!LS!InReg(r)
    BY <1>1
  <2>2. Home(v) = Reg(r) /\ Home(v).kind = "reg" /\ Home(v).at = r
    BY <2>1 DEF Home, Reg, Scan!LS!InReg
  <2>3. r \notin ToSet(CalleePool) \ usedCallee
    BY RegistersAssumption
  <2>4. r \notin Firsts(Idle)
    BY <2>3 DEF Firsts, Idle
  <2>. QED BY <2>2, <2>4 DEF Open
<1>2. CASE \E n \in 0..(nextSlot - 1) : alloc[v] = Scan!LS!InSlot(n)
  <2>1. PICK n \in 0..(nextSlot - 1) : alloc[v] = Scan!LS!InSlot(n)
    BY <1>2
  <2>2. Home(v) = Word(SpillAt(n)) /\ Home(v).kind = "word" /\ Home(v).at = SpillAt(n)
    BY <2>1 DEF Home, Word, Scan!LS!InSlot
  <2>3. SpillAt(n) \notin Firsts(Promised)
    BY FrameFacts, FreeWords
  <2>. QED BY <2>2, <2>3 DEF Open
<1>. QED BY <1>1, <1>2 DEF Places

-----------------------------------------------------------------------------
(* The prologue, the epilogue and the parameters                            *)

(***************************************************************************)
(* The prologue makes the promise: ra, fp and every callee-saved register  *)
(* the function will use are in their words (select.rs:166-177).           *)
(***************************************************************************)
LEMMA PrologueKeeps ==
    ASSUME Framed, NEW m, Safe(m, Callee, Buffers), StackPointer..(-1) \subseteq DOMAIN m.mem
    PROVE  Safe(Prologue(m), Callee, Promised)
<1>1. PICK L \in Nat : L = Len(Saved)
  BY SavedFacts
<1>. DEFINE W(k) == Buffers \cup Links \cup SavedUpTo(k)
<1>2. Scratches(Callee)
  BY PromisesLast
<1>3. \A i \in 1..L : SavedAt(i) \in Int /\ SavedAt(i) \in StackPointer..(-1) /\ SavedAt(i) < -2 /\ SavedAt(i) >= -2 - L
  <2>1. StackPointer \in Int /\ StackPointer <= -2 - L
    <3>1. StackPointer \in Int /\ BackupAt(1) \in Int /\ StackPointer <= BackupAt(1) - BufferWords * Cardinality(Allocas)
      BY FrameFacts
    <3>2. PICK B \in Nat, N \in Nat : B = BackupSlots /\ N = nextSlot
      BY BackupFacts DEF Framed
    <3>3. BackupAt(1) = -2 - L - N - B + (1 - 1)
      BY <1>1, <3>2 DEF BackupAt
    <3>4. PICK w \in Nat : w = BufferWords * Cardinality(Allocas)
      BY FrameFacts, RegistersAssumption
    <3>. QED BY <1>1, <3>1, <3>2, <3>3, <3>4
  <2>. QED BY <1>1, <2>1 DEF SavedAt
<1>4. \A i \in 1..L : SavedAt(i) \notin Firsts(W(i - 1))
  <2>. SUFFICES ASSUME NEW i \in 1..L, NEW p \in W(i - 1), p[1] = SavedAt(i) PROVE FALSE
    BY DEF Firsts
  <2>1. p \notin Buffers
    BY <1>1, <1>3, FreeWords DEF Firsts
  <2>2. p \notin Links
    BY <1>3 DEF Links
  <2>3. p \notin SavedUpTo(i - 1)
    BY <1>1 DEF SavedUpTo, SavedAt
  <2>. QED BY <2>1, <2>2, <2>3
<1>5. PICK linked : linked = [m EXCEPT !.mem[-1] = Kept("ra"), !.mem[-2] = Kept("fp")]
  OBVIOUS
<1>6. Safe(linked, Callee, W(0)) /\ DOMAIN linked.mem = DOMAIN m.mem
  <2>1. linked = [regs |-> m.regs, mem |-> [[m.mem EXCEPT ![-1] = Kept("ra")] EXCEPT ![-2] = Kept("fp")],
                  seen |-> m.seen]
    BY <1>5 DEF Safe, IsMachine
  <2>2. /\ linked.regs = m.regs /\ linked.seen = m.seen
        /\ linked.mem = [[m.mem EXCEPT ![-1] = Kept("ra")] EXCEPT ![-2] = Kept("fp")]
    BY <2>1
  <2>3. -1 \in DOMAIN m.mem /\ -2 \in DOMAIN m.mem
    <3>1. StackPointer \in Int /\ StackPointer <= -2
      <4>1. StackPointer \in Int /\ BackupAt(1) \in Int /\ StackPointer <= BackupAt(1) - BufferWords * Cardinality(Allocas)
        BY FrameFacts
      <4>2. PICK B \in Nat, N \in Nat : B = BackupSlots /\ N = nextSlot
        BY BackupFacts DEF Framed
      <4>3. BackupAt(1) = -2 - L - N - B + (1 - 1)
        BY <1>1, <4>2 DEF BackupAt
      <4>4. PICK w \in Nat : w = BufferWords * Cardinality(Allocas)
        BY FrameFacts, RegistersAssumption
      <4>. QED BY <1>1, <4>1, <4>2, <4>3, <4>4
    <3>. QED BY <3>1
  <2>4. -1 \notin Firsts(Buffers) /\ -2 \notin Firsts(Buffers)
    BY <1>1, FreeWords
  <2>5. \A p \in Buffers : p[1] # -1 /\ p[1] # -2
    BY <2>4 DEF Firsts
  <2>6. Has(linked.mem, Buffers)
    BY <2>2, <2>5 DEF Safe, Has
  <2>7. Has(linked.mem, Links)
    BY <2>2, <2>3 DEF Has, Links
  <2>8. SavedUpTo(0) = {}
    BY DEF SavedUpTo
  <2>9. Has(linked.mem, W(0))
    BY <2>6, <2>7, <2>8 DEF Has
  <2>. QED BY <2>1, <2>2, <2>9 DEF Safe, IsMachine
<1>7. PICK copies : copies = [i \in 1..Len(Saved) |-> Copy(Reg(Saved[i]), "t0", Word(SavedAt(i)))]
  OBVIOUS
<1>8. Len(copies) = L /\ \A i \in 1..L : copies[i] = Copy(Reg(Saved[i]), "t0", Word(SavedAt(i)))
  BY <1>1, <1>7
<1>9. PICK a : Runs(a, L, linked, copies) /\ Run(linked, copies) = a[L]
  BY <1>8, RunUnfolds
<1>. DEFINE Done == {i \in 0..L : Safe(a[i], Callee, W(i)) /\ DOMAIN a[i].mem = DOMAIN m.mem}
<1>10. 0 \in Done
  BY <1>6, <1>9 DEF Runs
<1>11. ASSUME NEW i \in 0..(L - 1), i \in Done
       PROVE  i + 1 \in Done
  <2>1. PICK j : j = i + 1
    OBVIOUS
  <2>2. j \in 1..L /\ j \in 0..L /\ j - 1 = i
    BY <2>1
  <2>3. a[j] = Copied(a[i], copies[j])
    BY <1>9, <2>2 DEF Runs
  <2>4. PICK r : r = Saved[j]
    OBVIOUS
  <2>5. copies[j] = Copy(Reg(r), "t0", Word(SavedAt(j)))
    BY <1>8, <2>2, <2>4
  <2>6. Copied(a[i], copies[j]) = Store(a[i], r, SavedAt(j))
    <3>1. PICK c : c = copies[j]
      OBVIOUS
    <3>2. /\ c.from = Reg(r) /\ c.to = Word(SavedAt(j)) /\ c.value = NoValue /\ c.phi = NoValue
      BY <2>5, <3>1 DEF Copy
    <3>3. Got(c.from, c.via) = r /\ Get(a[i], c.from, c.via) = a[i]
      BY <3>2 DEF Got, Get, Reg
    <3>4. Put(a[i], c.to, r) = Store(a[i], r, SavedAt(j))
      BY <3>2 DEF Put, Word
    <3>. QED BY <3>1, <3>2, <3>3, <3>4 DEF Copied
  <2>7. <<r, Kept(r)>> \in Callee
    BY <1>1, <2>2, <2>4, SavedFacts DEF Callee
  <2>8. r \in DOMAIN a[i].regs /\ a[i].regs[r] = Kept(r)
    BY <1>11, <2>7 DEF Safe, Has
  <2>9. SavedAt(j) \in DOMAIN a[i].mem
    BY <1>3, <1>11, <2>2
  <2>10. PICK V : V = W(i)
    OBVIOUS
  <2>11. Safe(a[i], Callee, V) /\ SavedAt(j) \notin Firsts(V)
    BY <1>4, <1>11, <2>2, <2>10
  <2>12. PICK n : n = Store(a[i], r, SavedAt(j))
    OBVIOUS
  <2>13. Safe(n, Callee, V) /\ DOMAIN n.mem = DOMAIN a[i].mem /\ n.mem[SavedAt(j)] = Kept(r)
    BY <1>2, <2>8, <2>9, <2>11, <2>12, StoreKeeps
  <2>14. \A p \in W(j) : p \in V \/ p = <<SavedAt(j), Kept(r)>>
    <3>1. \A k \in 1..j : k \in 1..i \/ k = j
      BY <2>1, <2>2
    <3>. QED BY <2>4, <2>10, <3>1 DEF SavedUpTo
  <2>15. Safe(n, Callee, W(j))
    BY <2>9, <2>13, <2>14 DEF Safe, Has
  <2>. QED BY <1>11, <2>1, <2>2, <2>3, <2>6, <2>12, <2>13, <2>15
<1>12. L \in Done
  <2>. HIDE DEF Done
  <2>1. \A i \in 0..L : i \in Done
    BY <1>10, <1>11, BoundedInduction
  <2>. QED BY <2>1
<1>13. Prologue(m) = a[L]
  BY <1>5, <1>7, <1>9 DEF Prologue
<1>. QED BY <1>1, <1>12, <1>13 DEF Promised

(***************************************************************************)
(* The epilogue takes every register it saved back from its word, and      *)
(* leaves the others alone (select.rs:179-190).                            *)
(***************************************************************************)
LEMMA EpilogueRestores ==
    ASSUME Framed, NEW m, Safe(m, Idle, Promised)
    PROVE  Safe(Epilogue(m), Callee, Promised)
<1>1. PICK L \in Nat : L = Len(Saved)
  BY SavedFacts
<1>. DEFINE Back(k) == Idle \cup {<<Saved[i], Kept(Saved[i])>> : i \in 1..k}
<1>2. PICK copies : copies = [i \in 1..Len(Saved) |-> Copy(Word(SavedAt(i)), Saved[i], Reg(Saved[i]))]
  OBVIOUS
<1>3. Len(copies) = L /\ \A i \in 1..L : copies[i] = Copy(Word(SavedAt(i)), Saved[i], Reg(Saved[i]))
  BY <1>1, <1>2
<1>4. PICK a : Runs(a, L, m, copies) /\ Run(m, copies) = a[L]
  BY <1>3, RunUnfolds
<1>5. \A k \in 0..L : Firsts(Back(k)) \subseteq ToSet(CalleePool)
  <2>1. \A i \in 1..L : Saved[i] \in ToSet(CalleePool)
    BY <1>1, SavedFacts
  <2>. QED BY <1>1, <2>1 DEF Firsts, Idle
<1>6. "t0" \notin ToSet(CalleePool) /\ "t1" \notin ToSet(CalleePool)
  BY RegistersAssumption
<1>. DEFINE Done == {i \in 0..L : Safe(a[i], Back(i), Promised)}
<1>7. 0 \in Done
  <2>1. Back(0) = Idle
    OBVIOUS
  <2>. QED BY <1>4, <2>1 DEF Runs
<1>8. ASSUME NEW i \in 0..(L - 1), i \in Done
      PROVE  i + 1 \in Done
  <2>1. PICK j : j = i + 1
    OBVIOUS
  <2>2. j \in 1..L /\ j \in 0..L /\ j - 1 = i
    BY <2>1
  <2>3. a[j] = Copied(a[i], copies[j])
    BY <1>4, <2>2 DEF Runs
  <2>4. PICK r : r = Saved[j]
    OBVIOUS
  <2>5. PICK c : c = Copy(Word(SavedAt(j)), r, Reg(r))
    OBVIOUS
  <2>6. c = copies[j]
    BY <1>3, <2>2, <2>4, <2>5
  <2>7. PICK got : got = Load(a[i], r, SavedAt(j))
    OBVIOUS
  <2>8. Copied(a[i], c) = [got EXCEPT !.regs[r] = got.regs[r]]
    BY <2>5, <2>7 DEF Copied, Copy, Reg, Word, Got, Get, Put, Move, NoValue
  <2>9. r \in ToSet(CalleePool) /\ <<SavedAt(j), Kept(r)>> \in Promised
    BY <1>1, <2>2, <2>4, SavedFacts DEF Promised, SavedUpTo
  <2>10. PICK R : R = {p \in Back(i) : p[1] # r}
    OBVIOUS
  <2>11. Safe(a[i], R, Promised)
    BY <1>8, <2>10 DEF Safe, Has
  <2>12. r \notin Firsts(R) /\ Scratches(R)
    BY <1>5, <1>6, <2>10 DEF Firsts, Scratches
  <2>13. r \in DOMAIN a[i].regs /\ a[i].mem[SavedAt(j)] = Kept(r)
    BY <2>9, <2>11 DEF Safe, IsMachine, Has
  <2>14. Safe(got, R, Promised) /\ got.regs[r] = Kept(r)
    BY <2>7, <2>11, <2>12, <2>13, LoadKeeps
  <2>15. r \in DOMAIN got.regs
    BY <2>9, <2>14 DEF Safe, IsMachine
  <2>16. PICK n, x : n = [got EXCEPT !.regs[r] = x] /\ x = got.regs[r]
    OBVIOUS
  <2>17. Safe(n, R, Promised) /\ n.regs = [got.regs EXCEPT ![r] = x]
    BY <2>12, <2>14, <2>16, SetReg
  <2>18. r \in DOMAIN n.regs /\ n.regs[r] = Kept(r)
    BY <2>14, <2>15, <2>16, <2>17
  <2>19. \A p \in Back(j) : p \in R \/ p = <<r, Kept(r)>>
    <3>1. \A k \in 1..j : k \in 1..i \/ k = j
      BY <2>1, <2>2
    <3>2. \A p \in Back(j) : p \in Back(i) \/ p = <<r, Kept(r)>>
      BY <2>4, <3>1
    <3>3. \A p \in Back(j) : p[1] = r => p = <<r, Kept(r)>>
      BY DEF Idle
    <3>. QED BY <2>10, <3>2, <3>3
  <2>20. Safe(n, Back(j), Promised)
    BY <2>17, <2>18, <2>19 DEF Safe, Has
  <2>. QED BY <2>1, <2>2, <2>3, <2>6, <2>8, <2>16, <2>20
<1>9. L \in Done
  <2>. HIDE DEF Done
  <2>1. \A i \in 0..L : i \in Done
    BY <1>7, <1>8, BoundedInduction
  <2>. QED BY <2>1
<1>10. Callee \subseteq Back(L)
  BY <1>1, SavedFacts DEF Callee, Idle
<1>11. Epilogue(m) = a[L]
  BY <1>2, <1>4 DEF Epilogue
<1>. QED BY <1>9, <1>10, <1>11 DEF Safe, Has

(***************************************************************************)
(* The words code may pass values through: the backup slots, and, when the *)
(* buffers do not count, what is below the saved registers.                *)
(***************************************************************************)
LEMMA BackupIsOpen ==
    ASSUME Framed, NEW i \in 1..BackupSlots
    PROVE  Open(Word(BackupAt(i)), Idle, Promised)
<1>1. BackupAt(i) \in Int /\ BackupAt(i) < -2 - Len(Saved) /\ BackupAt(i) >= BackupAt(1) /\ BackupAt(1) \in Int
  BY FrameFacts
<1>2. BackupAt(i) \notin Firsts(Promised)
  BY <1>1, FreeWords
<1>. QED BY <1>2 DEF Open, Word

\* The linear scan has placed every value.
Settled == \A v \in Values(fn) : alloc[v] \in Places

(***************************************************************************)
(* Parameters and results are values of the function.                      *)
(***************************************************************************)
LEMMA InstIsListed ==
    ASSUME NEW f \in Program
    PROVE  /\ \A i \in DOMAIN f.params : f.params[i] \in Values(f)
           /\ \A b \in Block(f) : \A i \in DOMAIN f.body[b] :
                 /\ \E x \in Insts(f) : x.inst = f.body[b][i]
                 /\ f.body[b][i].res # NoValue => f.body[b][i].res \in Values(f)
                 /\ f.body[b][i].op \notin {"store", "call", "jmp", "br", "ret"}
                       => f.body[b][i].res \in Values(f)
<1>1. \A i \in DOMAIN f.params : f.params[i] \in Values(f)
  BY DEF Values, ToSet
<1>2. ASSUME NEW b \in Block(f), NEW i \in DOMAIN f.body[b]
      PROVE  /\ \E x \in Insts(f) : x.inst = f.body[b][i]
             /\ f.body[b][i].res # NoValue => f.body[b][i].res \in Values(f)
  <2>1. Laid(f) /\ i \in 1..Size(f, b)
    BY ProgramLaid, Sizes
  <2>2. PICK x : x = [idx |-> Idx(f, b, i), block |-> b, inst |-> f.body[b][i]]
    OBVIOUS
  <2>3. x \in Insts(f) /\ x.inst = f.body[b][i]
    BY <2>1, <2>2, InstsAt
  <2>. QED BY <2>3 DEF Values, Listed
<1>3. ASSUME NEW b \in Block(f), NEW i \in DOMAIN f.body[b],
             f.body[b][i].op \notin {"store", "call", "jmp", "br", "ret"}
      PROVE  f.body[b][i].res # NoValue
  BY <1>3, InstructionAssumption
<1>. QED BY <1>1, <1>2, <1>3

(***************************************************************************)
(* The parameters go from their registers to the backup slots and from     *)
(* there, or from the caller's frame, to their places (select.rs:192-208). *)
(***************************************************************************)
LEMMA SaveParamsKeeps ==
    ASSUME Framed, Settled, NEW m, Safe(m, Idle, Promised)
    PROVE  Safe(SaveParams(m), Idle, Promised)
<1>1. PICK n \in Nat, a \in Nat : n = Len(fn.params) /\ a = Len(ArgRegs)
  BY RegistersAssumption, ProgramAssumption DEF Framed
<1>2. DOMAIN fn.params = 1..n
  BY <1>1, ProgramAssumption DEF Framed
<1>3. PICK k : k = Min({Len(fn.params), Len(ArgRegs)})
  OBVIOUS
<1>4. k \in Nat /\ k <= n
  <2>1. PICK S : S = {n, a}
    OBVIOUS
  <2>2. n + a \in Nat /\ S \in SUBSET (0..(n + a)) /\ S # {}
    BY <2>1
  <2>3. Min(S) \in S /\ \A y \in S : Min(S) <= y
    BY <2>2, MinExists
  <2>. QED BY <1>1, <1>3, <2>1, <2>3
<1>. DEFINE From(i) == IF i <= k THEN BackupAt(i) ELSE i - Len(ArgRegs) - 1
<1>5. PICK backup : backup = [i \in 1..k |-> Copy(Reg(ArgRegs[i]), "t0", Word(BackupAt(i)))]
  OBVIOUS
<1>6. PICK place : place = [i \in 1..Len(fn.params) |-> Copy(Word(From(i)), "t0", Home(fn.params[i]))]
  OBVIOUS
<1>7. SaveParams(m) = Run(Run(m, backup), place)
  BY <1>3, <1>5, <1>6 DEF SaveParams
<1>8. Scratches(Idle) /\ "t0" \notin Firsts(Idle)
  BY PromisesLast DEF Scratches
<1>9. Len(backup) = k /\ \A i \in 1..k : backup[i].via = "t0" /\ backup[i].to = Word(BackupAt(i))
  BY <1>4, <1>5 DEF Copy
<1>10. PICK b \in Nat : b = BackupSlots /\ n <= b
  BY <1>1, BackupFacts
<1>11. \A i \in 1..k : i \in 1..BackupSlots
  BY <1>4, <1>10
<1>12. Safe(Run(m, backup), Idle, Promised)
  BY <1>4, <1>8, <1>9, <1>11, BackupIsOpen, RunKeeps
<1>13. Len(place) = n /\ \A i \in 1..n : place[i].via = "t0" /\ place[i].to = Home(fn.params[i])
  BY <1>1, <1>6 DEF Copy
<1>14. \A i \in 1..n : Open(Home(fn.params[i]), Idle, Promised)
  BY <1>2, InstIsListed, HomeIsOpen DEF Settled, Framed
<1>15. PICK mid : mid = Run(m, backup)
  OBVIOUS
<1>16. Safe(Run(mid, place), Idle, Promised)
  BY <1>1, <1>8, <1>12, <1>13, <1>14, <1>15, RunKeeps
<1>. QED BY <1>7, <1>15, <1>16

(***************************************************************************)
(* When the function is entered the caller's registers are as it left them *)
(* and the frame has a word for every offset the prologue writes.          *)
(***************************************************************************)
LEMMA EntrySafe ==
    ASSUME Framed
    PROVE  Safe(ArgsPassed, Callee, Buffers) /\ StackPointer..(-1) \subseteq DOMAIN ArgsPassed.mem
<1>. DEFINE RegTag(r) == IF r \in ToSet(CalleePool) THEN Kept(r)
                 ELSE IF \E i \in DOMAIN fn.params : i <= Len(ArgRegs) /\ ArgRegs[i] = r
                      THEN Holds(fn.params[CHOOSE i \in DOMAIN ArgRegs : ArgRegs[i] = r])
                      ELSE Junk
<1>. DEFINE WordTag(w) == IF w >= 0 THEN Holds(fn.params[w + Len(ArgRegs) + 1])
                 ELSE IF \E i \in Allocas : w \in BufferAt(i)..(BufferAt(i) + BufferWords - 1)
                      THEN Buffer(CHOOSE i \in Allocas : w \in BufferAt(i)..(BufferAt(i) + BufferWords - 1))
                      ELSE Junk
<1>1. PICK top : top = Max({-1, Len(fn.params) - Len(ArgRegs) - 1})
  OBVIOUS
<1>2. top \in Int /\ top >= -1
  <2>1. Len(fn.params) \in Nat /\ Len(ArgRegs) \in Nat
    BY RegistersAssumption, ProgramAssumption DEF Framed
  <2>2. PICK S : S = {-1, Len(fn.params) - Len(ArgRegs) - 1}
    OBVIOUS
  <2>3. S \in SUBSET Int /\ S # {} /\ -1 \in S
    BY <2>1, <2>2
  <2>4. IsFiniteSet(S)
    <3>1. S = ({} \cup {-1}) \cup {Len(fn.params) - Len(ArgRegs) - 1}
      BY <2>2
    <3>. QED BY <3>1, FS_EmptySet, FS_AddElement
  <2>5. Max(S) \in S /\ \A y \in S : Max(S) >= y
    BY <2>3, <2>4, MaxOfFinite
  <2>. QED BY <1>1, <2>2, <2>3, <2>5
<1>3. PICK m : m = ArgsPassed
  OBVIOUS
<1>4. m = [regs |-> [r \in RegName |-> RegTag(r)], mem |-> [w \in StackPointer..top |-> WordTag(w)],
           seen |-> {}]
  BY <1>1, <1>3 DEF ArgsPassed
<1>5. m.regs = [r \in RegName |-> RegTag(r)] /\ m.mem = [w \in StackPointer..top |-> WordTag(w)] /\ m.seen = {}
  BY <1>4
<1>6. StackPointer \in Int /\ BackupAt(1) \in Int /\ BackupAt(1) <= -2
  <2>1. PICK L \in Nat, N \in Nat, B \in Nat : L = Len(Saved) /\ N = nextSlot /\ B = BackupSlots
    BY SavedFacts, BackupFacts DEF Framed
  <2>2. BackupAt(1) = -2 - L - N - B + (1 - 1)
    BY <2>1 DEF BackupAt
  <2>. QED BY <2>1, <2>2, FrameFacts
<1>7. StackPointer..(-1) \subseteq DOMAIN m.mem
  <2>1. \A w \in StackPointer..(-1) : w \in StackPointer..top
    BY <1>2, <1>6
  <2>. QED BY <1>5, <2>1
<1>8. Has(m.regs, Callee)
  <2>1. \A r \in ToSet(CalleePool) : r \in RegName /\ RegTag(r) = Kept(r)
    BY DEF RegName
  <2>. HIDE DEF RegTag
  <2>. QED BY <1>5, <2>1 DEF Has, Callee
<1>9. ASSUME NEW i \in Allocas, NEW w \in BufferOf(i)
      PROVE  w \in DOMAIN m.mem /\ m.mem[w] = Buffer(i)
  <2>1. /\ BufferAt(i) \in Int /\ BufferAt(i) >= StackPointer
        /\ BufferAt(i) + BufferWords <= BackupAt(1) /\ BufferWords \in Nat
    BY BufferRange, RegistersAssumption
  <2>2. w \in BufferAt(i)..(BufferAt(i) + BufferWords - 1)
    BY DEF BufferOf
  <2>3. w \in StackPointer..(-1) /\ ~(w >= 0)
    BY <1>6, <2>1, <2>2
  <2>4. PICK k : k = CHOOSE j \in Allocas : w \in BufferAt(j)..(BufferAt(j) + BufferWords - 1)
    OBVIOUS
  <2>5. k \in Allocas /\ w \in BufferAt(k)..(BufferAt(k) + BufferWords - 1)
    BY <2>2, <2>4
  <2>6. BufferAt(k) \in Int
    BY <2>5, BufferRange
  <2>7. k = i
    <3>1. i \in Int /\ k \in Int
      BY <2>5, InstIn DEF Allocas, Framed
    <3>2. ~(i < k)
      <4>1. i < k => BufferAt(k) + BufferWords <= BufferAt(i)
        BY <2>5, BuffersApart
      <4>. QED BY <2>1, <2>2, <2>5, <2>6, <4>1
    <3>3. ~(k < i)
      <4>1. k < i => BufferAt(i) + BufferWords <= BufferAt(k)
        BY <2>5, BuffersApart
      <4>. QED BY <2>1, <2>2, <2>5, <2>6, <4>1
    <3>. QED BY <3>1, <3>2, <3>3
  <2>8. WordTag(w) = Buffer(i)
    BY <2>2, <2>3, <2>4, <2>7
  <2>9. w \in StackPointer..top
    BY <1>5, <1>7, <2>3
  <2>. HIDE DEF WordTag
  <2>. QED BY <1>5, <2>8, <2>9
<1>10. Has(m.mem, Buffers)
  <2>1. \A p \in Buffers : \E i \in Allocas : \E w \in BufferOf(i) : p = <<w, Buffer(i)>>
    BY DEF Buffers
  <2>. QED BY <1>9, <2>1 DEF Has
<1>11. m = [regs |-> m.regs, mem |-> m.mem, seen |-> m.seen] /\ ToSet(CalleePool) \subseteq DOMAIN m.regs
  <2>1. m = [regs |-> m.regs, mem |-> m.mem, seen |-> m.seen]
    BY <1>4, <1>5
  <2>. QED BY <1>5, <2>1 DEF RegName
<1>. QED BY <1>3, <1>7, <1>8, <1>10, <1>11 DEF Safe, IsMachine

-----------------------------------------------------------------------------
(* Calls and edges                                                          *)

(***************************************************************************)
(* A call writes the backup slots, the argument registers and the words of *)
(* the stack arguments; the callee keeps the callee-saved registers        *)
(* (select.rs:449-468).                                                    *)
(***************************************************************************)
LEMMA CallKeeps ==
    ASSUME Framed, NEW x \in CallSites, NEW m, Safe(m, Idle, Promised),
           x.inst.res # NoValue => alloc[x.inst.res] \in Places
    PROVE  Safe(Call(m, x.inst), Idle, Promised)
<1>1. PICK inst : inst = x.inst
  OBVIOUS
<1>2. PICK args : args = inst.args
  OBVIOUS
<1>3. PICK n \in Nat : n = Len(ArgRegs) /\ n >= 1
  BY RegistersAssumption
<1>4. PICK k \in Nat : k = Len(args) /\ DOMAIN args = 1..k
  <2>1. PICK b \in Block(fn) : \E i \in DOMAIN fn.body[b] : x.inst = fn.body[b][i]
    BY InstIn DEF CallSites, Framed
  <2>2. PICK i \in DOMAIN fn.body[b] : x.inst = fn.body[b][i]
    BY <2>1
  <2>3. x.inst.args \in Seq(ToSet(x.inst.args))
    BY <2>2, InstructionAssumption DEF Framed
  <2>. QED BY <1>1, <1>2, <2>3
<1>5. PICK L \in Nat, N \in Nat, B \in Nat : L = Len(Saved) /\ N = nextSlot /\ B = BackupSlots /\ k <= B
  BY <1>1, <1>2, <1>4, SavedFacts, BackupFacts DEF Framed
<1>6. RegisterArguments => k <= n
  BY <1>1, <1>2, <1>3, <1>4 DEF RegisterArguments
<1>. DEFINE To(i) == IF i <= n THEN Reg(ArgRegs[i]) ELSE OnTop(StackPointer + i - n - 1)
<1>7. PICK backup : backup = [i \in 1..k |-> Pass(args[i], Word(BackupAt(i)), NoValue)]
  OBVIOUS
<1>8. PICK pass : pass = [i \in 1..k |->
                     Copy(Word(BackupAt(i)), IF i <= n THEN ArgRegs[i] ELSE "t0", To(i))]
  OBVIOUS
<1>9. Scratches(Idle) /\ "t0" \notin Firsts(Idle) /\ \A i \in 1..n : ArgRegs[i] \notin Firsts(Idle)
  BY <1>3, PromisesLast DEF Scratches
<1>10. PICK mid : mid = Run(m, backup)
  OBVIOUS
<1>11. Safe(mid, Idle, Promised)
  <2>1. Len(backup) = k /\ \A i \in 1..k : backup[i].via = "t0" /\ backup[i].to = Word(BackupAt(i))
    BY <1>7 DEF Pass
  <2>2. \A i \in 1..k : i \in 1..BackupSlots
    BY <1>5
  <2>. QED BY <1>9, <1>10, <2>1, <2>2, BackupIsOpen, RunKeeps
<1>12. \A i \in 1..k : Open(To(i), Idle, Promised)
  <2>. SUFFICES ASSUME NEW i \in 1..k PROVE Open(To(i), Idle, Promised)
    OBVIOUS
  <2>1. CASE i <= n
    <3>1. i \in 1..n /\ To(i) = Reg(ArgRegs[i])
      BY <2>1
    <3>. QED BY <1>9, <3>1 DEF Open, Reg
  <2>2. CASE ~(i <= n)
    <3>1. PICK w : w = StackPointer + i - n - 1
      OBVIOUS
    <3>2. ~RegisterArguments
      BY <1>6, <2>2
    <3>3. w \in Int /\ w < -2 - L
      <4>1. PICK sp \in Int : sp = StackPointer /\ sp <= -2 - L - N - B
        <5>1. StackPointer \in Int /\ BackupAt(1) \in Int /\ StackPointer <= BackupAt(1) - BufferWords * Cardinality(Allocas)
          BY FrameFacts
        <5>2. BackupAt(1) = -2 - L - N - B + (1 - 1)
          BY <1>5 DEF BackupAt
        <5>3. PICK u \in Nat : u = BufferWords * Cardinality(Allocas)
          BY FrameFacts, RegistersAssumption
        <5>. QED BY <5>1, <5>2, <5>3
      <4>2. w = sp + i - n - 1 /\ i <= B
        BY <1>5, <3>1, <4>1
      <4>. QED BY <1>3, <4>1, <4>2
    <3>4. w \notin Firsts(Promised)
      BY <1>5, <3>2, <3>3, FreeWords
    <3>5. To(i) = OnTop(w)
      BY <2>2, <3>1
    <3>. QED BY <3>4, <3>5 DEF Open, OnTop
  <2>. QED BY <2>1, <2>2
<1>13. PICK passed : passed = Run(mid, pass)
  OBVIOUS
<1>14. Safe(passed, Idle, Promised)
  <2>1. Len(pass) = k /\ \A i \in 1..k : pass[i].via = (IF i <= n THEN ArgRegs[i] ELSE "t0") /\ pass[i].to = To(i)
    BY <1>8 DEF Copy
  <2>2. \A i \in 1..k : pass[i].via \notin Firsts(Idle)
    BY <1>9, <2>1
  <2>3. \A i \in 1..k : Open(pass[i].to, Idle, Promised)
    BY <1>12, <2>1
  <2>. QED BY <1>9, <1>11, <1>13, <2>1, <2>2, <2>3, RunKeeps
<1>15. PICK arrived : arrived = {<<Holds(args[i]), IF i <= n THEN passed.regs[ArgRegs[i]]
                                      ELSE passed.mem[To(i).at]>> : i \in DOMAIN args}
  OBVIOUS
<1>16. PICK back : back = [passed EXCEPT
                   !.regs = [r \in RegName |-> IF r \in CallerClobbered THEN Junk ELSE passed.regs[r]],
                   !.seen = @ \cup arrived]
  OBVIOUS
<1>17. Safe(back, Idle, Promised)
  <2>1. back = [regs |-> [r \in RegName |-> IF r \in CallerClobbered THEN Junk ELSE passed.regs[r]],
                mem |-> passed.mem, seen |-> passed.seen \cup arrived]
    BY <1>14, <1>16 DEF Safe, IsMachine
  <2>2. /\ back.regs = [r \in RegName |-> IF r \in CallerClobbered THEN Junk ELSE passed.regs[r]]
        /\ back.mem = passed.mem /\ back.seen = passed.seen \cup arrived
    BY <2>1
  <2>3. \A r \in ToSet(CalleePool) : r \in RegName /\ r \notin CallerClobbered
    BY DEF RegName, CallerClobbered
  <2>4. \A p \in Idle : p[1] \in ToSet(CalleePool)
    BY DEF Idle
  <2>5. Has(back.regs, Idle)
    BY <1>14, <2>2, <2>3, <2>4 DEF Safe, Has
  <2>6. ToSet(CalleePool) \subseteq DOMAIN back.regs
    BY <2>2, <2>3
  <2>. QED BY <1>14, <2>1, <2>2, <2>5, <2>6 DEF Safe, IsMachine
<1>18. Call(m, inst) = IF inst.res = NoValue THEN back
                       ELSE Put(Define(back, inst.res, ArgRegs[1]), Home(inst.res), ArgRegs[1])
  <2>. DEFINE a == inst.args
  <2>. DEFINE Dest(i) == IF i <= Len(ArgRegs) THEN Reg(ArgRegs[i])
                         ELSE OnTop(StackPointer + i - Len(ArgRegs) - 1)
  <2>. DEFINE first == [i \in 1..Len(a) |-> Pass(a[i], Word(BackupAt(i)), NoValue)]
  <2>. DEFINE second == [i \in 1..Len(a) |->
                  Copy(Word(BackupAt(i)), IF i <= Len(ArgRegs) THEN ArgRegs[i] ELSE "t0", Dest(i))]
  <2>. DEFINE after == Run(Run(m, first), second)
  <2>. DEFINE read == {<<Holds(a[i]), IF i <= Len(ArgRegs) THEN after.regs[ArgRegs[i]]
                                     ELSE after.mem[Dest(i).at]>> : i \in DOMAIN a}
  <2>. DEFINE returned == [after EXCEPT
                   !.regs = [r \in RegName |-> IF r \in CallerClobbered THEN Junk ELSE after.regs[r]],
                   !.seen = @ \cup read]
  <2>1. Call(m, inst) = IF inst.res = NoValue THEN returned
                        ELSE Put(Define(returned, inst.res, ArgRegs[1]), Home(inst.res), ArgRegs[1])
    BY DEF Call
  <2>2. first = backup /\ second = pass
    BY <1>2, <1>3, <1>4, <1>7, <1>8
  <2>3. after = passed
    <3>. HIDE DEF first, second
    <3>. QED BY <1>10, <1>13, <2>2
  <2>4. read = arrived
    <3>. HIDE DEF after
    <3>. QED BY <1>2, <1>3, <1>15, <2>3
  <2>5. returned = back
    <3>. HIDE DEF after, read
    <3>. QED BY <1>16, <2>3, <2>4
  <2>. HIDE DEF returned
  <2>. QED BY <2>1, <2>5
<1>19. CASE inst.res = NoValue
  BY <1>1, <1>17, <1>18, <1>19
<1>20. CASE inst.res # NoValue
  <2>1. PICK defined : defined = Define(back, inst.res, ArgRegs[1])
    OBVIOUS
  <2>2. ArgRegs[1] \notin Firsts(Idle)
    BY <1>3, <1>9
  <2>3. Safe(defined, Idle, Promised)
    BY <1>17, <2>1, <2>2, PromisesLast, DefineKeeps
  <2>4. Open(Home(inst.res), Idle, Promised)
    BY <1>1, <1>20, HomeIsOpen
  <2>5. Safe(Put(defined, Home(inst.res), ArgRegs[1]), Idle, Promised)
    BY <1>9, <2>3, <2>4, PutKeeps
  <2>. QED BY <1>1, <1>18, <1>20, <2>1, <2>5
<1>. QED BY <1>19, <1>20

(***************************************************************************)
(* The phis of a block are among its instructions, and not all of them.    *)
(***************************************************************************)
LEMMA PhiFacts ==
    ASSUME NEW f \in Program, NEW b \in Block(f)
    PROVE  /\ Phis(f, b) \in Seq(ToSet(f.body[b])) /\ Len(Phis(f, b)) \in Nat
           /\ Len(Phis(f, b)) + 1 \in DOMAIN f.body[b]
           /\ \A i \in ToSet(Phis(f, b)) : i.res \in Values(f)
<1>1. PICK l : l = f.body[b]
  OBVIOUS
<1>2. l \in Seq(ToSet(l)) /\ l # <<>>
  BY <1>1, ProgramAssumption
<1>3. PICK S : S = {i \in ToSet(l) : i.op = "phi"}
  OBVIOUS
<1>4. Phis(f, b) = Keep(l, S)
  BY <1>1, <1>3 DEF Phis
<1>5. Keep(l, S) \in Seq(ToSet(l)) /\ ToSet(Keep(l, S)) = ToSet(l) \cap S
  BY <1>2, KeepFacts
<1>6. Len(l) \in DOMAIN l /\ DOMAIN l = 1..Len(l) /\ Len(l) \in Nat
  BY <1>2
<1>7. l[Len(l)] \notin S
  <2>1. l[Len(l)].op \in {"jmp", "br", "ret"}
    BY <1>1, <1>6, InstructionAssumption
  <2>. QED BY <1>3, <2>1
<1>8. Len(Keep(l, S)) \in Nat /\ Len(Keep(l, S)) + 1 <= Len(l)
  BY <1>2, <1>7, KeepLength
<1>9. Len(Keep(l, S)) + 1 \in DOMAIN l
  BY <1>6, <1>8
<1>10. ASSUME NEW i \in ToSet(Keep(l, S))
       PROVE  i.res \in Values(f)
  <2>1. i \in ToSet(l) /\ i.op = "phi"
    BY <1>3, <1>5, <1>10
  <2>2. PICK j \in DOMAIN l : i = l[j]
    BY <2>1 DEF ToSet
  <2>. QED BY <1>1, <2>1, <2>2, InstIsListed
<1>. QED BY <1>1, <1>4, <1>5, <1>8, <1>9, <1>10

(***************************************************************************)
(* The copies of an edge write the backup slots and the phis' places       *)
(* (select.rs:256-277).                                                    *)
(***************************************************************************)
LEMMA EdgeMovesKeep ==
    ASSUME Framed, Settled, NEW p, NEW b \in Block(fn), NEW m, Safe(m, Idle, Promised)
    PROVE  Safe(EdgeMoves(m, p, b), Idle, Promised)
<1>1. PICK all : all = Phis(fn, b)
  OBVIOUS
<1>2. PICK A : A = ToSet(fn.body[b])
  OBVIOUS
<1>3. all \in Seq(A) /\ Len(all) \in Nat /\ \A i \in ToSet(all) : i.res \in Values(fn)
  BY <1>1, <1>2, PhiFacts DEF Framed
<1>4. PICK S : S = {i \in ToSet(all) : ComesFrom(i, p)}
  OBVIOUS
<1>5. PICK phis : phis = Taking(p, b)
  OBVIOUS
<1>6. phis = Keep(all, S)
  BY <1>1, <1>4, <1>5 DEF Taking
<1>7. PICK n \in Nat : n = Len(phis) /\ n <= Len(all)
  BY <1>3, <1>6, KeepLength
<1>8. phis \in Seq(A) /\ ToSet(phis) \subseteq ToSet(all)
  BY <1>3, <1>6, KeepFacts
<1>9. \A i \in 1..n : phis[i].res \in Values(fn)
  <2>1. DOMAIN phis = 1..n
    BY <1>7, <1>8
  <2>2. \A i \in 1..n : phis[i] \in ToSet(phis)
    BY <2>1 DEF ToSet
  <2>. QED BY <1>3, <1>8, <2>2
<1>10. \A i \in 1..n : i \in 1..BackupSlots
  <2>1. Len(all) <= BackupSlots /\ BackupSlots \in Nat
    BY <1>1, BackupFacts
  <2>. QED BY <1>3, <1>7, <2>1
<1>. DEFINE read == [i \in 1..Len(phis) |-> Pass(Incoming(phis[i], p), Word(BackupAt(i)), phis[i].res)]
<1>. DEFINE write == [i \in 1..Len(phis) |-> Copy(Word(BackupAt(i)), "t0", Home(phis[i].res))]
<1>11. EdgeMoves(m, p, b) = Run(Run(m, read), write)
  BY <1>5 DEF EdgeMoves
<1>12. Len(read) = n /\ \A i \in 1..n : read[i].via = "t0" /\ read[i].to = Word(BackupAt(i))
  BY <1>7 DEF Pass
<1>13. Len(write) = n /\ \A i \in 1..n : write[i].via = "t0" /\ write[i].to = Home(phis[i].res)
  BY <1>7 DEF Copy
<1>14. Scratches(Idle) /\ "t0" \notin Firsts(Idle)
  BY PromisesLast DEF Scratches
<1>. HIDE DEF read, write
<1>15. PICK mid : mid = Run(m, read)
  OBVIOUS
<1>16. Safe(mid, Idle, Promised)
  BY <1>10, <1>12, <1>14, <1>15, BackupIsOpen, RunKeeps
<1>17. \A i \in 1..n : Open(Home(phis[i].res), Idle, Promised)
  BY <1>9, HomeIsOpen DEF Settled
<1>18. Safe(Run(mid, write), Idle, Promised)
  BY <1>13, <1>14, <1>16, <1>17, RunKeeps
<1>. QED BY <1>11, <1>15, <1>18

(***************************************************************************)
(* Taking an edge changes the tags of values and of phis only.             *)
(***************************************************************************)
LEMMA ArriveKeeps ==
    ASSUME Framed, Settled, NEW p, NEW b \in Block(fn), NEW m, Safe(m, Idle, Promised)
    PROVE  Safe(Arrive(m, p, b), Idle, Promised)
<1>. DEFINE results == {i.res : i \in ToSet(Taking(p, b))}
<1>. DEFINE Now(tag) == IF \E v \in results : tag = Holds(v) THEN Junk
                        ELSE IF tag[1] = "phi" THEN Holds(tag[2]) ELSE tag
<1>1. PICK moved : moved = EdgeMoves(m, p, b)
  OBVIOUS
<1>2. Safe(moved, Idle, Promised)
  BY <1>1, EdgeMovesKeep
<1>3. PICK n : n = Arrive(m, p, b)
  OBVIOUS
<1>4. n = [moved EXCEPT !.regs = [r \in DOMAIN moved.regs |-> Now(moved.regs[r])],
                        !.mem = [w \in DOMAIN moved.mem |-> Now(moved.mem[w])]]
  BY <1>1, <1>3 DEF Arrive
<1>. HIDE DEF results
<1>5. n = [regs |-> [r \in DOMAIN moved.regs |-> Now(moved.regs[r])],
           mem |-> [w \in DOMAIN moved.mem |-> Now(moved.mem[w])], seen |-> moved.seen]
  BY <1>2, <1>4 DEF Safe, IsMachine
<1>6. /\ n.regs = [r \in DOMAIN moved.regs |-> Now(moved.regs[r])]
      /\ n.mem = [w \in DOMAIN moved.mem |-> Now(moved.mem[w])] /\ n.seen = moved.seen
  BY <1>5
<1>7. \A q \in Idle \cup Promised : Now(q[2]) = q[2]
  BY PromisesLast DEF Lasting
<1>8. Has(n.regs, Idle)
  BY <1>2, <1>6, <1>7 DEF Safe, Has
<1>9. Has(n.mem, Promised)
  BY <1>2, <1>6, <1>7 DEF Safe, Has
<1>. QED BY <1>2, <1>3, <1>5, <1>6, <1>8, <1>9 DEF Safe, IsMachine

-----------------------------------------------------------------------------
(* The linear scan                                                          *)

\* The active list pairs values with registers; a callee-saved one is used.
Entry == Values(fn) \X (ToSet(CallerPool) \cup usedCallee)

\* A value still in the queue, or placed, whatever happens to its neighbours.
Scanned ==
    /\ Framed
    /\ queue \in Seq(Values(fn))
    /\ active \in Seq(Entry)
    /\ callerStack \in Seq(ToSet(CallerPool)) /\ calleeStack \in Seq(ToSet(CalleePool))
    /\ DOMAIN alloc = Values(fn)
    /\ \A v \in Values(fn) : v \in ToSet(queue) \/ alloc[v] \in Places

(***************************************************************************)
(* The library's operators are the same in the linear scan and here.       *)
(***************************************************************************)
LEMMA SameOperators ==
    /\ \A l, S : Scan!Keep(l, S) = Keep(l, S)
    /\ \A l : Scan!ToSet(l) = ToSet(l) /\ Scan!Last(l) = Last(l) /\ Scan!Front(l) = Front(l)
    /\ \A S : Scan!Max(S) = Max(S)
    /\ \A l, i : Scan!RemoveAt(l, i) = RemoveAt(l, i)
    /\ \A l, i, a : Scan!InsertAt(l, i, a) = InsertAt(l, i, a)
<1>1. \A l, S : Scan!Keep(l, S) = Keep(l, S)
  BY DEF Scan!Keep, Keep
<1>2. \A l : Scan!ToSet(l) = ToSet(l) /\ Scan!Last(l) = Last(l) /\ Scan!Front(l) = Front(l)
  BY DEF Scan!ToSet, ToSet, Scan!Last, Last, Scan!Front, Front
<1>3. \A S : Scan!Max(S) = Max(S)
  BY DEF Scan!Max, Max
<1>4. \A l, i : Scan!RemoveAt(l, i) = RemoveAt(l, i)
  BY DEF Scan!RemoveAt, RemoveAt
<1>5. \A l, i, a : Scan!InsertAt(l, i, a) = InsertAt(l, i, a)
  BY DEF Scan!InsertAt, InsertAt
<1>. QED BY <1>1, <1>2, <1>3, <1>4, <1>5

(***************************************************************************)
(* The insertion point is in the list.                                     *)
(***************************************************************************)
LEMMA InsertKeeps ==
    ASSUME NEW A, NEW list \in Seq(A), NEW a \in A
    PROVE  Scan!InsertByEnd(list, a) \in Seq(A)
<1>1. PICK n \in Nat : n = Len(list)
  OBVIOUS
<1>2. PICK I : I = {i \in 1..Len(list) : end[list[i][1]] <= end[a[1]]}
  OBVIOUS
<1>3. PICK pos : pos = IF I # {} THEN Max(I) ELSE 0
  OBVIOUS
<1>4. pos \in 0..n
  <2>1. CASE I = {}
    BY <1>1, <1>3, <2>1
  <2>2. CASE I # {}
    <3>1. I \in SUBSET (0..n) /\ I \subseteq 1..n
      BY <1>1, <1>2
    <3>2. Max(I) \in I
      BY <2>2, <3>1, MaxExists
    <3>. QED BY <1>3, <2>2, <3>1, <3>2
  <2>. QED BY <2>1, <2>2
<1>5. Scan!InsertByEnd(list, a) = InsertAt(list, pos + 1, a)
  BY <1>2, <1>3, SameOperators DEF Scan!InsertByEnd, Scan!SelectLastInSeq
<1>6. pos + 1 \in 1..(Len(list) + 1)
  BY <1>1, <1>4
<1>. QED BY <1>5, <1>6, InsertFacts

(***************************************************************************)
(* The candidate to spill is in the list.                                  *)
(***************************************************************************)
LEMMA CandidateRange ==
    ASSUME NEW A, NEW list \in Seq(A), NEW crosses
    PROVE  Scan!Candidate(list, crosses) \in 0..Len(list)
<1>1. PICK n \in Nat : n = Len(list)
  OBVIOUS
<1>2. PICK I : I = {i \in 1..Len(list) : crosses => list[i][2] \in ToSet(CalleePool)}
  OBVIOUS
<1>3. Scan!Candidate(list, crosses) = IF I # {} THEN Max(I) ELSE 0
  BY <1>2, SameOperators DEF Scan!Candidate, Scan!SelectLastInSeq
<1>4. CASE I = {}
  BY <1>1, <1>3, <1>4
<1>5. CASE I # {}
  <2>1. I \in SUBSET (0..n)
    BY <1>1, <1>2
  <2>2. Max(I) \in I
    BY <1>5, <2>1, MaxExists
  <2>. QED BY <1>1, <1>3, <1>5, <2>1, <2>2
<1>. QED BY <1>4, <1>5

(***************************************************************************)
(* What the expire loop leaves, and what it pushes on the free stacks.     *)
(***************************************************************************)
LEMMA ExpireKeeps ==
    ASSUME Scanned, NEW s
    PROVE  /\ Scan!Running(s) \in Seq(Entry)
           /\ callerStack \o Scan!Pushed(s, CallerPool) \in Seq(ToSet(CallerPool))
           /\ calleeStack \o Scan!Pushed(s, CalleePool) \in Seq(ToSet(CalleePool))
<1>1. active \in Seq(Entry)
  BY DEF Scanned
<1>2. Scan!Running(s) \in Seq(Entry)
  <2>1. PICK S : S = {a \in ToSet(active) : end[a[1]] > s}
    OBVIOUS
  <2>2. Scan!Running(s) = Keep(active, S)
    BY <2>1, SameOperators DEF Scan!Running
  <2>. QED BY <1>1, <2>2, KeepFacts
<1>3. Scan!Over(s) \in Seq(Entry)
  <2>1. PICK S : S = {a \in ToSet(active) : end[a[1]] <= s}
    OBVIOUS
  <2>2. Scan!Over(s) = Keep(active, S)
    BY <2>1, SameOperators DEF Scan!Over
  <2>. QED BY <1>1, <2>2, KeepFacts
<1>4. ASSUME NEW pool
      PROVE  Scan!Pushed(s, pool) \in Seq(ToSet(pool))
  <2>1. PICK S : S = {a \in ToSet(active) : a[2] \in ToSet(pool)}
    OBVIOUS
  <2>2. PICK over : over = Scan!Over(s)
    OBVIOUS
  <2>3. PICK freed : freed = Keep(over, S)
    OBVIOUS
  <2>4. freed \in Seq(Entry) /\ ToSet(freed) = ToSet(over) \cap S
    BY <1>3, <2>2, <2>3, KeepFacts
  <2>5. PICK n \in Nat : n = Len(freed) /\ DOMAIN freed = 1..n
    BY <2>4
  <2>6. Scan!Pushed(s, pool) = [i \in 1..n |-> freed[i][2]]
    BY <2>1, <2>2, <2>3, <2>5, SameOperators DEF Scan!Pushed
  <2>7. \A i \in 1..n : freed[i][2] \in ToSet(pool)
    <3>1. \A i \in 1..n : freed[i] \in ToSet(freed)
      BY <2>5 DEF ToSet
    <3>. QED BY <2>1, <2>4, <3>1
  <2>. QED BY <2>6, <2>7
<1>5. /\ callerStack \in Seq(ToSet(CallerPool)) /\ calleeStack \in Seq(ToSet(CalleePool))
      /\ Scan!Pushed(s, CallerPool) \in Seq(ToSet(CallerPool))
      /\ Scan!Pushed(s, CalleePool) \in Seq(ToSet(CalleePool))
  BY <1>4 DEF Scanned
<1>. QED BY <1>2, <1>5, ConcatFacts

(***************************************************************************)
(* A pop leaves a stack.                                                   *)
(***************************************************************************)
LEMMA PopKeeps ==
    ASSUME NEW A, NEW s \in Seq(A), s # <<>>
    PROVE  Front(s) \in Seq(A) /\ Last(s) \in A
<1>1. PICK n \in Nat : n = Len(s) /\ n >= 1
  OBVIOUS
<1>2. n \in 1..n /\ DOMAIN s = 1..n
  BY <1>1
<1>3. Last(s) \in A
  BY <1>1, <1>2 DEF Last
<1>4. Front(s) = SubSeq(s, 1, n - 1)
  BY <1>1 DEF Front
<1>5. SubSeq(s, 1, n - 1) \in Seq(A)
  BY <1>1
<1>. QED BY <1>3, <1>4, <1>5

(***************************************************************************)
(* The next value gets a free register (regalloc.rs:254-270).              *)
(***************************************************************************)
LEMMA TakeFreeKeeps ==
    ASSUME Scanned, NEW v \in Values(fn), NEW running \in Seq(Entry),
           NEW caller \in Seq(ToSet(CallerPool)), NEW callee \in Seq(ToSet(CalleePool)),
           Scan!TakeFree(v, running, caller, callee),
           fn' = fn, queue' \in Seq(Values(fn)),
           \A u \in ToSet(queue) : u = v \/ u \in ToSet(queue')
    PROVE  Scanned'
<1>1. PICK fromCaller : fromCaller = (~Scan!Crosses(v) /\ caller # <<>>)
  OBVIOUS
<1>2. PICK r : r = IF fromCaller THEN Last(caller) ELSE Last(callee)
  OBVIOUS
<1>3. /\ fromCaller \/ callee # <<>>
      /\ callerStack' = IF fromCaller THEN Front(caller) ELSE caller
      /\ calleeStack' = IF fromCaller THEN callee ELSE Front(callee)
      /\ usedCallee' = IF fromCaller THEN usedCallee ELSE usedCallee \cup {r}
      /\ alloc' = [alloc EXCEPT ![v] = Scan!LS!InReg(r)]
      /\ active' = Scan!InsertByEnd(running, <<v, r>>)
      /\ nextSlot' = nextSlot
  BY <1>1, <1>2, SameOperators DEF Scan!TakeFree
<1>4. /\ callerStack' \in Seq(ToSet(CallerPool)) /\ calleeStack' \in Seq(ToSet(CalleePool))
      /\ r \in (IF fromCaller THEN ToSet(CallerPool) ELSE ToSet(CalleePool))
  <2>1. CASE fromCaller
    BY <1>1, <1>2, <1>3, <2>1, PopKeeps
  <2>2. CASE ~fromCaller
    BY <1>1, <1>2, <1>3, <2>2, PopKeeps
  <2>. QED BY <2>1, <2>2
<1>5. usedCallee \subseteq usedCallee' /\ usedCallee' \subseteq ToSet(CalleePool)
      /\ r \in ToSet(CallerPool) \cup usedCallee'
  BY <1>3, <1>4 DEF Scanned, Framed
<1>6. active' \in Seq(Entry')
  <2>1. PICK E : E = Entry'
    OBVIOUS
  <2>2. Entry \subseteq E /\ <<v, r>> \in E
    BY <1>5, <2>1 DEF Entry
  <2>3. running \in Seq(E)
    BY <2>2
  <2>. QED BY <1>3, <2>1, <2>2, <2>3, InsertKeeps
<1>7. DOMAIN alloc = Values(fn) /\ DOMAIN alloc' = Values(fn)
      /\ alloc'[v] = Scan!LS!InReg(r) /\ \A u \in Values(fn) : u # v => alloc'[u] = alloc[u]
  BY <1>3 DEF Scanned
<1>8. Places \subseteq Places' /\ Scan!LS!InReg(r) \in Places'
  BY <1>3, <1>5 DEF Places, Scan!LS!InReg, Scan!LS!InSlot
<1>9. \A u \in Values(fn) : u \in ToSet(queue') \/ alloc'[u] \in Places'
  BY <1>7, <1>8 DEF Scanned
<1>. QED BY <1>3, <1>4, <1>5, <1>6, <1>7, <1>9 DEF Scanned, Framed

(***************************************************************************)
(* No register is free: the candidate, or the next value, gets a new slot  *)
(* (regalloc.rs:272-306).                                                  *)
(***************************************************************************)
LEMMA SpillKeeps ==
    ASSUME Scanned, NEW v \in Values(fn), NEW running \in Seq(Entry),
           NEW caller \in Seq(ToSet(CallerPool)), NEW callee \in Seq(ToSet(CalleePool)),
           Scan!Spill(v, running, caller, callee),
           fn' = fn, queue' \in Seq(Values(fn)),
           \A u \in ToSet(queue) : u = v \/ u \in ToSet(queue')
    PROVE  Scanned'
<1>1. PICK i : i = Scan!Candidate(running, Scan!Crosses(v))
  OBVIOUS
<1>2. i \in 0..Len(running)
  BY <1>1, CandidateRange
<1>3. PICK evict : evict = (i # 0 /\ end[running[i][1]] > end[v])
  OBVIOUS
<1>4. /\ callerStack' = caller /\ calleeStack' = callee
      /\ usedCallee' = usedCallee /\ nextSlot' = nextSlot + 1
      /\ \/ /\ evict
            /\ alloc' = [alloc EXCEPT ![running[i][1]] = Scan!LS!InSlot(nextSlot),
                                      ![v] = Scan!LS!InReg(running[i][2])]
            /\ active' = Scan!InsertByEnd(RemoveAt(running, i), <<v, running[i][2]>>)
         \/ /\ ~evict
            /\ alloc' = [alloc EXCEPT ![v] = Scan!LS!InSlot(nextSlot)]
            /\ active' = running
  BY <1>1, <1>3, SameOperators DEF Scan!Spill
<1>5. nextSlot \in Nat /\ nextSlot' \in Nat /\ nextSlot \in 0..(nextSlot' - 1)
      /\ \A n \in 0..(nextSlot - 1) : n \in 0..(nextSlot' - 1)
  BY <1>4 DEF Scanned, Framed
<1>6. Places \subseteq Places' /\ Scan!LS!InSlot(nextSlot) \in Places'
      /\ \A r \in ToSet(CallerPool) \cup usedCallee : Scan!LS!InReg(r) \in Places'
  BY <1>4, <1>5 DEF Places, Scan!LS!InReg, Scan!LS!InSlot
<1>7. Entry' = Entry
  BY <1>4 DEF Entry
<1>8. DOMAIN alloc = Values(fn)
  BY DEF Scanned
<1>9. active' \in Seq(Entry) /\ DOMAIN alloc' = Values(fn) /\ alloc'[v] \in Places'
      /\ \A u \in Values(fn) : u = v \/ alloc'[u] = alloc[u] \/ alloc'[u] \in Places'
  <2>1. CASE evict
    <3>0. i # 0
      BY <1>3, <2>1
    <3>1. i \in 1..Len(running)
      BY <1>2, <3>0
    <3>2. running[i] \in Entry
      BY <3>1
    <3>3. running[i][2] \in ToSet(CallerPool) \cup usedCallee /\ <<v, running[i][2]>> \in Entry
      BY <3>2 DEF Entry
    <3>4. PICK short : short = RemoveAt(running, i)
      OBVIOUS
    <3>5. short \in Seq(Entry)
      BY <3>1, <3>4, Removed
    <3>6. Scan!InsertByEnd(short, <<v, running[i][2]>>) \in Seq(Entry)
      BY <3>3, <3>5, InsertKeeps
    <3>7. alloc' = [alloc EXCEPT ![running[i][1]] = Scan!LS!InSlot(nextSlot),
                                 ![v] = Scan!LS!InReg(running[i][2])]
      BY <1>4, <2>1
    <3>8. /\ DOMAIN alloc' = DOMAIN alloc
          /\ alloc'[v] = Scan!LS!InReg(running[i][2])
          /\ \A u \in Values(fn) : \/ u = v \/ alloc'[u] = alloc[u]
                                   \/ alloc'[u] = Scan!LS!InSlot(nextSlot)
      <4>1. PICK o, x, y : o = running[i][1] /\ x = Scan!LS!InSlot(nextSlot) /\ y = Scan!LS!InReg(running[i][2])
        OBVIOUS
      <4>2. alloc' = [[alloc EXCEPT ![o] = x] EXCEPT ![v] = y]
        BY <3>7, <4>1
      <4>3. /\ DOMAIN alloc' = DOMAIN alloc /\ alloc'[v] = y
            /\ \A u \in DOMAIN alloc : u = v \/ alloc'[u] = alloc[u] \/ alloc'[u] = x
        BY <1>8, <4>2
      <4>. QED BY <1>8, <4>1, <4>3
    <3>. QED BY <1>4, <1>6, <1>8, <2>1, <3>3, <3>4, <3>6, <3>8
  <2>2. CASE ~evict
    <3>1. alloc' = [alloc EXCEPT ![v] = Scan!LS!InSlot(nextSlot)] /\ active' = running
      BY <1>4, <2>2
    <3>. QED BY <1>6, <1>8, <3>1
  <2>. QED BY <2>1, <2>2
<1>10. \A u \in Values(fn) : u \in ToSet(queue') \/ alloc'[u] \in Places'
  BY <1>6, <1>9 DEF Scanned
<1>11. Framed'
  BY <1>4, <1>5 DEF Scanned, Framed
<1>. QED BY <1>4, <1>7, <1>9, <1>10, <1>11 DEF Scanned

(***************************************************************************)
(* Every step of the loop keeps what it has decided sound.                 *)
(***************************************************************************)
LEMMA PlaceKeeps ==
    ASSUME Scanned, Scan!Place, fn' = fn
    PROVE  Scanned'
<1>1. PICK v, s : v = Head(queue) /\ s = start[v]
  OBVIOUS
<1>2. PICK running, caller, callee :
         /\ running = Scan!Running(s)
         /\ caller = callerStack \o Scan!Pushed(s, CallerPool)
         /\ callee = calleeStack \o Scan!Pushed(s, CalleePool)
  OBVIOUS
<1>3. /\ queue # <<>> /\ queue' = Tail(queue)
      /\ Scan!TakeFree(v, running, caller, callee) \/ Scan!Spill(v, running, caller, callee)
  BY <1>1, <1>2 DEF Scan!Place
<1>4. /\ running \in Seq(Entry)
      /\ caller \in Seq(ToSet(CallerPool)) /\ callee \in Seq(ToSet(CalleePool))
  BY <1>2, ExpireKeeps
<1>5. PICK n \in Nat, q \in Seq(Values(fn)) :
         q = queue /\ n = Len(q) /\ n >= 1 /\ DOMAIN q = 1..n
  BY <1>3 DEF Scanned
<1>6. v = q[1] /\ v \in Values(fn)
  BY <1>1, <1>5
<1>7. /\ Tail(q) \in Seq(Values(fn)) /\ Len(Tail(q)) = n - 1 /\ DOMAIN Tail(q) = 1..(n - 1)
      /\ \A i \in 1..(n - 1) : Tail(q)[i] = q[i + 1]
  BY <1>5
<1>8. \A u \in ToSet(q) : u = v \/ u \in ToSet(Tail(q))
  <2>. SUFFICES ASSUME NEW i \in 1..n, q[i] # v PROVE q[i] \in ToSet(Tail(q))
    BY <1>5 DEF ToSet
  <2>1. i - 1 \in 1..(n - 1) /\ (i - 1) + 1 = i
    BY <1>6
  <2>. QED BY <1>7, <2>1 DEF ToSet
<1>. QED BY <1>3, <1>4, <1>5, <1>6, <1>7, <1>8, TakeFreeKeeps, SpillKeeps

(***************************************************************************)
(* A function has finitely many values.                                    *)
(***************************************************************************)
LEMMA ValuesFinite ==
    ASSUME NEW f \in Program
    PROVE  IsFiniteSet(Values(f))
<1>1. IsFiniteSet(ToSet(f.params))
  <2>1. PICK p : p = f.params /\ p \in Seq(ToSet(p))
    BY ProgramAssumption
  <2>2. PICK n \in Nat : n = Len(p) /\ DOMAIN p = 1..n
    BY <2>1
  <2>3. p \in Surjection(1..n, ToSet(p))
    BY <2>1, <2>2 DEF Surjection, ToSet
  <2>4. IsFiniteSet(1..n)
    BY FS_Interval
  <2>. QED BY <2>1, <2>3, <2>4, FS_Surjection
<1>2. IsFiniteSet(Listed(f))
  <2>1. PICK S : S = {x.inst.res : x \in Insts(f)}
    OBVIOUS
  <2>2. PICK g : g = [x \in Insts(f) |-> x.inst.res]
    OBVIOUS
  <2>3. g \in Surjection(Insts(f), S)
    BY <2>1, <2>2 DEF Surjection
  <2>4. IsFiniteSet(S)
    BY <2>3, InstsFinite, FS_Surjection
  <2>5. Listed(f) \in SUBSET S
    BY <2>1 DEF Listed
  <2>. QED BY <2>4, <2>5, FS_Subset
<1>3. IsFiniteSet(f.unlisted)
  BY ProgramAssumption
<1>4. IsFiniteSet(ToSet(f.params) \cup Listed(f))
  BY <1>1, <1>2, FS_Union
<1>5. IsFiniteSet((ToSet(f.params) \cup Listed(f)) \cup f.unlisted)
  BY <1>3, <1>4, FS_Union
<1>. QED BY <1>5 DEF Values

\* The orders of i + 1 values that follow those of S, of i values.
Least(S) == {v \in S : \A u \in S : start[v] <= start[u]}
Longer(V, S) == UNION {{Append(q, v) : v \in Least(V \ ToSet(q))} : q \in S}

\* o holds the orders of the first n lengths.
Orders(o, n, V) == o[0] = {<<>>} /\ \A i \in 1..n : o[i] = Longer(V, o[i - 1])

(***************************************************************************)
(* The sort by start has its orders, of every length.                      *)
(***************************************************************************)
LEMMA OrdersExist ==
    ASSUME NEW n \in Nat, NEW V
    PROVE  \E o : DOMAIN o = 0..n /\ Orders(o, n, V)
<1>. DEFINE Done == {k \in 0..n : \E o : DOMAIN o = 0..k /\ Orders(o, k, V)}
<1>1. 0 \in Done
  <2>. PICK o : o = [i \in 0..0 |-> {<<>>}]
    OBVIOUS
  <2>1. DOMAIN o = 0..0 /\ o[0] = {<<>>}
    OBVIOUS
  <2>. QED BY <2>1 DEF Orders
<1>2. ASSUME NEW k \in 0..(n - 1), k \in Done
      PROVE  k + 1 \in Done
  <2>1. PICK o : DOMAIN o = 0..k /\ Orders(o, k, V)
    BY <1>2
  <2>2. PICK p : p = [i \in 0..(k + 1) |-> IF i = k + 1 THEN Longer(V, o[k]) ELSE o[i]]
    OBVIOUS
  <2>3. DOMAIN p = 0..(k + 1) /\ p[0] = {<<>>} /\ p[k + 1] = Longer(V, p[k])
    <3>1. 0 \in 0..(k + 1) /\ k \in 0..(k + 1) /\ k + 1 \in 0..(k + 1) /\ 0 # k + 1 /\ k # k + 1
      OBVIOUS
    <3>. QED BY <2>1, <2>2, <3>1 DEF Orders
  <2>4. ASSUME NEW i \in 1..k
        PROVE  p[i] = Longer(V, p[i - 1])
    <3>1. i \in 0..(k + 1) /\ i - 1 \in 0..(k + 1) /\ i # k + 1 /\ i - 1 # k + 1
      OBVIOUS
    <3>. QED BY <2>1, <2>2, <3>1 DEF Orders
  <2>5. ASSUME NEW i \in 1..(k + 1)
        PROVE  p[i] = Longer(V, p[i - 1])
    <3>1. i \in 1..k \/ (i = k + 1 /\ i - 1 = k)
      OBVIOUS
    <3>. QED BY <2>3, <2>4, <3>1
  <2>6. k + 1 \in 0..n
    OBVIOUS
  <2>. QED BY <2>3, <2>5, <2>6 DEF Orders
<1>3. n \in Done
  <2>. HIDE DEF Done
  <2>1. \A k \in 0..n : k \in Done
    BY <1>1, <1>2, BoundedInduction
  <2>. QED BY <2>1
<1>. QED BY <1>3

(***************************************************************************)
(* ByStart is the orders of all values.                                    *)
(***************************************************************************)
LEMMA ByStartUnfolds ==
    ASSUME NEW f, NEW n \in Nat, n = Cardinality(Values(f))
    PROVE  \E o : Orders(o, n, Values(f)) /\ ByStart(f) = o[n]
<1>. DEFINE Round(o) == [i \in 0..Cardinality(Values(f)) |->
              IF i = 0 THEN {<<>>}
              ELSE UNION {{Append(q, v) : v \in Least(Values(f) \ ToSet(q))} : q \in o[i - 1]}]
<1>1. PICK o : DOMAIN o = 0..n /\ Orders(o, n, Values(f))
  BY OrdersExist
<1>2. PICK p : p = [i \in 0..n |-> o[i]]
  OBVIOUS
<1>3. p = Round(p)
  <2>1. \A i \in 0..n : i # 0 => i - 1 \in 0..n /\ i \in 1..n
    OBVIOUS
  <2>2. \A i \in 0..n : p[i] = IF i = 0 THEN {<<>>} ELSE Longer(Values(f), p[i - 1])
    BY <1>1, <1>2, <2>1 DEF Orders
  <2>3. DOMAIN p = 0..n /\ p = [i \in 0..n |-> p[i]]
    BY <1>2
  <2>. QED BY <2>2, <2>3 DEF Longer
<1>4. PICK q : q = CHOOSE r : r = Round(r)
  OBVIOUS
<1>5. q = Round(q)
  BY <1>3, <1>4
<1>6. ByStart(f) = q[n]
  BY <1>4 DEF ByStart, Least
<1>7. Orders(q, n, Values(f))
  <2>1. \A i \in 0..n : q[i] = IF i = 0 THEN {<<>>} ELSE Longer(Values(f), q[i - 1])
    BY <1>5 DEF Longer
  <2>2. \A i \in 1..n : i \in 0..n /\ i # 0
    OBVIOUS
  <2>. QED BY <2>1, <2>2 DEF Orders
<1>. QED BY <1>6, <1>7

(***************************************************************************)
(* An order by start has every value once, by increasing start.            *)
(***************************************************************************)
LEMMA ByStartHoldsAll ==
    ASSUME NEW f \in Program, NEW q \in ByStart(f)
    PROVE  q \in Seq(Values(f)) /\ ToSet(q) = Values(f) /\ SortedList(q, Values(f), start)
<1>1. PICK V : V = Values(f)
  OBVIOUS
<1>2. IsFiniteSet(V)
  BY <1>1, ValuesFinite
<1>3. PICK n \in Nat : n = Cardinality(V)
  BY <1>2, FS_CardinalityType
<1>4. PICK o : Orders(o, n, V) /\ ByStart(f) = o[n]
  BY <1>1, <1>3, ByStartUnfolds
<1>. DEFINE Injective(s, i) ==
       /\ s \in Seq(V) /\ Len(s) = i
       /\ \A a, b \in 1..i : (s[a] = s[b] => a = b) /\ (a < b => start[s[a]] <= start[s[b]])
       /\ \A a \in 1..i : \A u \in V \ ToSet(s) : start[s[a]] <= start[u]
<1>. DEFINE Done == {i \in 0..n : \A s \in o[i] : Injective(s, i)}
<1>5. 0 \in Done
  <2>1. Len(<<>>) = 0 /\ <<>> \in Seq(V)
    OBVIOUS
  <2>2. \A a \in 1..0 : FALSE
    OBVIOUS
  <2>3. PICK e : e = <<>>
    OBVIOUS
  <2>4. Injective(e, 0)
    BY <2>1, <2>2, <2>3
  <2>5. o[0] = {e}
    BY <1>4, <2>3 DEF Orders
  <2>6. \A s \in o[0] : Injective(s, 0)
    BY <2>4, <2>5
  <2>. QED BY <2>6
<1>6. ASSUME NEW i \in 0..(n - 1), i \in Done
      PROVE  i + 1 \in Done
  <2>1. i + 1 \in 1..n /\ i + 1 \in 0..n /\ (i + 1) - 1 = i
    OBVIOUS
  <2>2. o[i + 1] = Longer(V, o[i])
    BY <1>4, <2>1 DEF Orders
  <2>. SUFFICES ASSUME NEW s \in o[i + 1] PROVE Injective(s, i + 1)
    BY <2>1
  <2>3. PICK t \in o[i] : \E v \in Least(V \ ToSet(t)) : s = Append(t, v)
    BY <2>2 DEF Longer
  <2>4. PICK v \in V \ ToSet(t) : s = Append(t, v) /\ \A u \in V \ ToSet(t) : start[v] <= start[u]
    BY <2>3 DEF Least
  <2>5. /\ t \in Seq(V) /\ Len(t) = i
        /\ \A a, b \in 1..i : (t[a] = t[b] => a = b) /\ (a < b => start[t[a]] <= start[t[b]])
        /\ \A a \in 1..i : \A u \in V \ ToSet(t) : start[t[a]] <= start[u]
    BY <1>6
  <2>6. s \in Seq(V) /\ Len(s) = i + 1 /\ s[i + 1] = v /\ \A a \in 1..i : s[a] = t[a]
    BY <2>4, <2>5
  <2>7. \A a \in 1..i : t[a] # v
    <3>1. DOMAIN t = 1..i
      BY <2>5
    <3>. QED BY <3>1 DEF ToSet
  <2>8. \A a \in 1..(i + 1) : a \in 1..i \/ a = i + 1
    OBVIOUS
  <2>9. \A u \in V \ ToSet(s) : u \in V \ ToSet(t)
    <3>1. DOMAIN t = 1..i /\ DOMAIN s = 1..(i + 1) /\ \A a \in 1..i : a \in 1..(i + 1)
      BY <2>5, <2>6
    <3>. QED BY <2>6, <3>1 DEF ToSet
  <2>10. \A a, b \in 1..(i + 1) : (s[a] = s[b] => a = b) /\ (a < b => start[s[a]] <= start[s[b]])
    <3>. SUFFICES ASSUME NEW a \in 1..(i + 1), NEW b \in 1..(i + 1)
                  PROVE  (s[a] = s[b] => a = b) /\ (a < b => start[s[a]] <= start[s[b]])
      OBVIOUS
    <3>1. CASE a \in 1..i /\ b \in 1..i
      BY <2>5, <2>6, <3>1
    <3>2. CASE a \in 1..i /\ b = i + 1
      BY <2>4, <2>5, <2>6, <2>7, <3>2
    <3>3. CASE a = i + 1
      <4>1. ~(a < b)
        BY <3>3
      <4>. QED BY <2>6, <2>7, <2>8, <3>3, <4>1
    <3>. QED BY <2>8, <3>1, <3>2, <3>3
  <2>11. \A a \in 1..(i + 1) : \A u \in V \ ToSet(s) : start[s[a]] <= start[u]
    BY <2>4, <2>5, <2>6, <2>8, <2>9
  <2>. QED BY <2>6, <2>10, <2>11
<1>7. Injective(q, n)
  <2>1. n \in Done
    <3>. HIDE DEF Done
    <3>1. \A i \in 0..n : i \in Done
      BY <1>5, <1>6, BoundedInduction
    <3>. QED BY <3>1
  <2>. QED BY <1>4, <2>1
<1>8. DOMAIN q = 1..n /\ q \in [1..n -> V]
  BY <1>7
<1>9. q \in Injection(1..n, V)
  BY <1>7, <1>8 DEF Injection, IsInjective
<1>10. IsFiniteSet(1..n) /\ Cardinality(1..n) = n
  BY FS_Interval
<1>11. q \in Surjection(1..n, V)
  BY <1>2, <1>3, <1>9, <1>10, FS_Injection
<1>12. ToSet(q) = V
  <2>1. ToSet(q) \subseteq V
    BY <1>8 DEF ToSet
  <2>2. \A v \in V : \E i \in 1..n : q[i] = v
    BY <1>11 DEF Surjection
  <2>. QED BY <1>8, <2>1, <2>2 DEF ToSet
<1>13. SortedList(q, V, start)
  BY <1>2, <1>3, <1>7, <1>8 DEF SortedList
<1>. QED BY <1>1, <1>7, <1>12, <1>13

-----------------------------------------------------------------------------
(* The inductive invariant                                                  *)

\* While the function runs the registers nothing uses, and the words the frame
\* promises, are as they should be; when it has returned, all registers are.
CodegenInv ==
    /\ Scanned
    /\ phase \in {"allocate", "run", "returned"}
    /\ phase # "allocate" => queue = <<>>
    /\ block \in Block(fn) /\ next \in DOMAIN fn.body[block]
    /\ phase = "run" => Safe(Machine, Idle, Promised)
    /\ phase = "returned" => Safe(Machine, Callee, Promised)

(***************************************************************************)
(* The scan starts with every value in the queue (regalloc.rs:217-232).    *)
(***************************************************************************)
LEMMA InitSound == Init => CodegenInv
<1>. SUFFICES ASSUME Init PROVE CodegenInv
  OBVIOUS
<1>1. /\ fn \in Program /\ phase = "allocate" /\ queue \in ByStart(fn) /\ active = <<>>
      /\ callerStack = Reverse(CallerPool) /\ calleeStack = Reverse(CalleePool)
      /\ usedCallee = {} /\ nextSlot = 0 /\ block = 1 /\ next = Len(Phis(fn, 1)) + 1
      /\ alloc = [v \in Values(fn) |-> Scan!LS!Unplaced]
  BY DEF Init
<1>2. Framed
  BY <1>1 DEF Framed
<1>3. queue \in Seq(Values(fn)) /\ ToSet(queue) = Values(fn)
  BY <1>1, ByStartHoldsAll
<1>4. active \in Seq(Entry)
  BY <1>1
<1>5. ASSUME NEW A, NEW s \in Seq(A)
      PROVE  Reverse(s) \in Seq(A)
  <2>1. PICK n \in Nat : n = Len(s)
    OBVIOUS
  <2>2. Reverse(s) = [i \in 1..n |-> s[(n - i) + 1]]
    BY <2>1 DEF Reverse
  <2>3. \A i \in 1..n : (n - i) + 1 \in 1..n
    OBVIOUS
  <2>4. \A i \in 1..n : s[(n - i) + 1] \in A
    BY <2>1, <2>3
  <2>. QED BY <2>2, <2>4
<1>6. callerStack \in Seq(ToSet(CallerPool)) /\ calleeStack \in Seq(ToSet(CalleePool))
  BY <1>1, <1>5, RegistersAssumption
<1>7. DOMAIN alloc = Values(fn)
  BY <1>1
<1>8. Scanned
  BY <1>2, <1>3, <1>4, <1>6, <1>7 DEF Scanned
<1>9. 1 \in Block(fn)
  <2>1. PICK n \in Nat : n = Len(fn.body) /\ n >= 1 /\ DOMAIN fn.body = 1..n
    BY <1>1, ProgramAssumption
  <2>. QED BY <2>1 DEF Block
<1>10. next \in DOMAIN fn.body[1]
  BY <1>1, <1>9, PhiFacts
<1>. QED BY <1>1, <1>8, <1>9, <1>10 DEF CodegenInv

(***************************************************************************)
(* What the frame promises is settled once the scan is over.               *)
(***************************************************************************)
LEMMA PromisedStays ==
    ASSUME UNCHANGED <<fn, usedCallee, nextSlot>>
    PROVE  Promised' = Promised /\ Idle' = Idle /\ Callee' = Callee
<1>1. Saved' = Saved
  BY DEF Saved
<1>2. Allocas' = Allocas /\ CallSites' = CallSites
  BY DEF Allocas, CallSites
<1>3. BackupSlots' = BackupSlots
  BY DEF BackupSlots
<1>4. BackupAt(1)' = BackupAt(1)
  BY <1>1, <1>3 DEF BackupAt
<1>5. \A i : BufferAt(i)' = BufferAt(i)
  BY <1>2, <1>4 DEF BufferAt
<1>6. \A i : BufferOf(i)' = BufferOf(i)
  BY <1>5 DEF BufferOf
<1>7. RegisterArguments' = RegisterArguments
  BY <1>2 DEF RegisterArguments
<1>8. Buffers' = Buffers
  BY <1>2, <1>6, <1>7 DEF Buffers
<1>9. \A i : SavedAt(i)' = SavedAt(i)
  BY DEF SavedAt
<1>10. SavedUpTo(Len(Saved))' = SavedUpTo(Len(Saved))
  BY <1>1, <1>9 DEF SavedUpTo
<1>11. Links' = Links
  BY DEF Links
<1>12. Idle' = Idle /\ Callee' = Callee
  BY DEF Idle, Callee
<1>. QED BY <1>8, <1>10, <1>11, <1>12 DEF Promised

(***************************************************************************)
(* A step after the scan that leaves a safe machine.                       *)
(***************************************************************************)
LEMMA SafeStep ==
    ASSUME CodegenInv, UNCHANGED <<fn, scan>>, queue = <<>>,
           block' \in Block(fn), next' \in DOMAIN fn.body[block'],
           NEW m, Becomes(m),
           \/ phase' = "run" /\ Safe(m, Idle, Promised)
           \/ phase' = "returned" /\ Safe(m, Callee, Promised)
    PROVE  CodegenInv'
<1>1. /\ queue' = queue /\ active' = active /\ callerStack' = callerStack /\ calleeStack' = calleeStack
      /\ usedCallee' = usedCallee /\ alloc' = alloc /\ nextSlot' = nextSlot /\ fn' = fn
  BY DEF scan
<1>2. Promised' = Promised /\ Idle' = Idle /\ Callee' = Callee
  BY <1>1, PromisedStays
<1>3. Places' = Places /\ Entry' = Entry
  BY <1>1 DEF Places, Entry, Scan!LS!InReg, Scan!LS!InSlot
<1>4. Scanned'
  BY <1>1, <1>3 DEF CodegenInv, Scanned, Framed
<1>5. Machine' = [regs |-> m.regs, mem |-> m.mem, seen |-> {}]
  BY DEF Machine, Becomes
<1>6. \A R, W : Safe(m, R, W) => Safe(Machine', R, W)
  <2>1. PICK n : n = Machine'
    OBVIOUS
  <2>2. n = [regs |-> m.regs, mem |-> m.mem, seen |-> {}] /\ n.regs = m.regs /\ n.mem = m.mem /\ n.seen = {}
    BY <1>5, <2>1
  <2>3. \A R, W : Safe(m, R, W) => Safe(n, R, W)
    BY <2>2 DEF Safe, IsMachine
  <2>. QED BY <2>1, <2>3
<1>7. Safe(m, Idle, Promised) => Safe(Machine, Idle, Promised)'
  <2>1. Safe(Machine, Idle, Promised)' = Safe(Machine', Idle', Promised')
    BY DEF Safe, IsMachine, Has
  <2>. QED BY <1>2, <1>6, <2>1
<1>8. Safe(m, Callee, Promised) => Safe(Machine, Callee, Promised)'
  <2>1. Safe(Machine, Callee, Promised)' = Safe(Machine', Callee', Promised')
    BY DEF Safe, IsMachine, Has
  <2>. QED BY <1>2, <1>6, <2>1
<1>9. (block \in Block(fn) /\ next \in DOMAIN fn.body[block])'
  BY <1>1
<1>. QED BY <1>1, <1>4, <1>7, <1>8, <1>9 DEF CodegenInv

(***************************************************************************)
(* An iteration of the linear scan (regalloc.rs:234-307).                  *)
(***************************************************************************)
LEMMA AllocateStep == CodegenInv /\ Allocate => CodegenInv'
<1>. SUFFICES ASSUME CodegenInv, Allocate PROVE CodegenInv'
  OBVIOUS
<1>1. phase = "allocate" /\ Scan!Place /\ fn' = fn /\ phase' = phase /\ block' = block /\ next' = next
  BY DEF Allocate, machine
<1>2. Scanned'
  BY <1>1, PlaceKeeps DEF CodegenInv
<1>. QED BY <1>1, <1>2 DEF CodegenInv

(***************************************************************************)
(* The prologue and the parameters (select.rs:155-158, 166-208).           *)
(***************************************************************************)
LEMMA EnterStep == CodegenInv /\ Enter => CodegenInv'
<1>. SUFFICES ASSUME CodegenInv, Enter PROVE CodegenInv'
  OBVIOUS
<1>1. PICK a : a = ArgsPassed
  OBVIOUS
<1>2. PICK m : m = Prologue(a)
  OBVIOUS
<1>3. PICK n : n = SaveParams(m)
  OBVIOUS
<1>4. queue = <<>> /\ phase' = "run" /\ Becomes(n) /\ UNCHANGED <<fn, scan, block, next>>
  BY <1>1, <1>2, <1>3 DEF Enter
<1>5. Framed /\ Settled
  <2>1. ToSet(queue) = {}
    BY <1>4 DEF ToSet
  <2>. QED BY <2>1 DEF CodegenInv, Scanned, Settled
<1>6. Safe(m, Callee, Promised)
  BY <1>1, <1>2, <1>5, EntrySafe, PrologueKeeps
<1>7. Safe(m, Idle, Promised)
  BY <1>6, PromisesLast DEF Safe, Has
<1>8. Safe(n, Idle, Promised)
  BY <1>3, <1>5, <1>7, SaveParamsKeeps
<1>. QED BY <1>4, <1>8, SafeStep DEF CodegenInv

(***************************************************************************)
(* Where control is while the function runs.                               *)
(***************************************************************************)
LEMMA Running ==
    ASSUME CodegenInv, phase = "run"
    PROVE  /\ Framed /\ Settled /\ queue = <<>> /\ Safe(Machine, Idle, Promised)
           /\ block \in Block(fn) /\ next \in DOMAIN fn.body[block] /\ Inst = fn.body[block][next]
           /\ Inst.res # NoValue => Inst.res \in Values(fn)
           /\ Inst.op \notin {"store", "call", "jmp", "br", "ret"} => Inst.res \in Values(fn)
           /\ Inst.op \notin {"jmp", "br", "ret"} => next + 1 \in DOMAIN fn.body[block]
           /\ Inst.op \in {"jmp", "br"} => ToSet(Inst.to) \subseteq Block(fn)
<1>1. /\ queue = <<>> /\ Safe(Machine, Idle, Promised) /\ Framed /\ fn \in Program
      /\ block \in Block(fn) /\ next \in DOMAIN fn.body[block] /\ Inst = fn.body[block][next]
  BY DEF CodegenInv, Scanned, Framed, Inst
<1>2. Settled
  <2>1. ToSet(queue) = {}
    BY <1>1 DEF ToSet
  <2>. QED BY <2>1 DEF CodegenInv, Scanned, Settled
<1>3. /\ Inst.res # NoValue => Inst.res \in Values(fn)
      /\ Inst.op \notin {"store", "call", "jmp", "br", "ret"} => Inst.res \in Values(fn)
  BY <1>1, InstIsListed
<1>4. PICK n \in Nat : n = Len(fn.body[block]) /\ DOMAIN fn.body[block] = 1..n
  BY <1>1, ProgramAssumption
<1>5. Inst.op \in {"jmp", "br", "ret"} <=> next = n
  BY <1>1, <1>4, InstructionAssumption
<1>6. Inst.op \notin {"jmp", "br", "ret"} => next + 1 \in DOMAIN fn.body[block]
  BY <1>1, <1>4, <1>5
<1>7. Inst.op \in {"jmp", "br"} => ToSet(Inst.to) \subseteq Block(fn)
  <2>. SUFFICES ASSUME Inst.op \in {"jmp", "br"} PROVE ToSet(Inst.to) \subseteq Block(fn)
    OBVIOUS
  <2>1. Inst = Last(fn.body[block]) /\ fn.body[block] # <<>>
    BY <1>1, <1>4, <1>5, ProgramAssumption DEF Last
  <2>2. Successors(fn, block) = ToSet(Inst.to)
    BY <2>1 DEF Successors
  <2>. QED BY <1>1, <2>2, ProgramAssumption
<1>. QED BY <1>1, <1>2, <1>3, <1>6, <1>7

(***************************************************************************)
(* The instructions that go on to the next one (select.rs:279-415, 449-468).*)
(***************************************************************************)
LEMMA StraightStep == CodegenInv /\ Straight => CodegenInv'
<1>. SUFFICES ASSUME CodegenInv, Straight PROVE CodegenInv'
  OBVIOUS
<1>1. PICK inst, m : inst = Inst /\ m = Machine
  OBVIOUS
<1>2. /\ phase = "run" /\ next' = next + 1 /\ UNCHANGED <<fn, phase, scan, block>>
      /\ \/ inst.op \in {"const", "alloca"} /\ Becomes(Nullary(m, inst.res))
         \/ inst.op \in {"not", "load"} /\ Becomes(Unary(m, inst.res, inst.args[1]))
         \/ inst.op \in {"add", "cmp"} /\ Becomes(Binary(m, inst.res, inst.args[1], inst.args[2]))
         \/ inst.op = "store" /\ Becomes(BothOperands(m, inst.args[1], inst.args[2]))
         \/ inst.op = "call" /\ Becomes(Call(m, inst))
  BY <1>1 DEF Straight
<1>3. /\ Framed /\ Settled /\ queue = <<>> /\ Safe(m, Idle, Promised)
      /\ block \in Block(fn) /\ next \in DOMAIN fn.body[block] /\ inst = fn.body[block][next]
      /\ inst.res # NoValue => inst.res \in Values(fn)
      /\ inst.op \notin {"store", "call", "jmp", "br", "ret"} => inst.res \in Values(fn)
      /\ inst.op \notin {"jmp", "br", "ret"} => next + 1 \in DOMAIN fn.body[block]
  BY <1>1, <1>2, Running
<1>4. Scratches(Idle) /\ Lasting(Idle) /\ Lasting(Promised)
  BY PromisesLast
<1>5. ASSUME NEW n, Safe(n, Idle, Promised), NEW scratch \in {"t0", "t1"}, inst.res \in Values(fn)
      PROVE  Safe(Result(n, inst.res, scratch), Idle, Promised)
  <2>1. Open(Home(inst.res), Idle, Promised)
    BY <1>3, <1>5, HomeIsOpen DEF Settled
  <2>. QED BY <1>4, <1>5, <2>1, ResultKeeps
<1>6. \E n : Becomes(n) /\ Safe(n, Idle, Promised) /\ inst.op \notin {"jmp", "br", "ret"}
  <2>1. CASE inst.op \in {"const", "alloca"} /\ Becomes(Nullary(m, inst.res))
    <3>1. inst.res \in Values(fn)
      BY <1>3, <2>1
    <3>. QED BY <1>3, <1>5, <2>1, <3>1 DEF Nullary
  <2>2. CASE inst.op \in {"not", "load"} /\ Becomes(Unary(m, inst.res, inst.args[1]))
    <3>1. inst.res \in Values(fn)
      BY <1>3, <2>2
    <3>2. Safe(Operand(m, inst.args[1], "t0"), Idle, Promised)
      BY <1>3, <1>4, OperandKeeps
    <3>. QED BY <1>5, <2>2, <3>1, <3>2 DEF Unary
  <2>3. CASE inst.op \in {"add", "cmp"} /\ Becomes(Binary(m, inst.res, inst.args[1], inst.args[2]))
    <3>1. inst.res \in Values(fn)
      BY <1>3, <2>3
    <3>2. Safe(BothOperands(m, inst.args[1], inst.args[2]), Idle, Promised)
      BY <1>3, <1>4, OperandKeeps
    <3>. QED BY <1>5, <2>3, <3>1, <3>2 DEF Binary
  <2>4. CASE inst.op = "store" /\ Becomes(BothOperands(m, inst.args[1], inst.args[2]))
    <3>1. Safe(BothOperands(m, inst.args[1], inst.args[2]), Idle, Promised)
      BY <1>3, <1>4, OperandKeeps
    <3>. QED BY <2>4, <3>1
  <2>5. CASE inst.op = "call" /\ Becomes(Call(m, inst))
    <3>1. PICK x \in Insts(fn) : x.inst = inst
      BY <1>3, InstIsListed DEF Framed
    <3>2. x \in CallSites
      BY <2>5, <3>1 DEF CallSites
    <3>3. inst.res # NoValue => alloc[inst.res] \in Places
      BY <1>3 DEF Settled
    <3>4. Safe(Call(m, inst), Idle, Promised)
      BY <1>3, <3>1, <3>2, <3>3, CallKeeps
    <3>. QED BY <2>5, <3>4
  <2>. QED BY <1>2, <2>1, <2>2, <2>3, <2>4, <2>5
<1>7. PICK n : Becomes(n) /\ Safe(n, Idle, Promised) /\ inst.op \notin {"jmp", "br", "ret"}
  BY <1>6
<1>8. next' \in DOMAIN fn.body[block'] /\ block' \in Block(fn) /\ phase' = "run" /\ UNCHANGED <<fn, scan>>
  BY <1>2, <1>3, <1>7
<1>. QED BY <1>3, <1>7, <1>8, SafeStep

(***************************************************************************)
(* An edge to another block (select.rs:256-277, 416-439).                  *)
(***************************************************************************)
LEMMA GoToStep ==
    ASSUME CodegenInv, phase = "run", NEW b \in Block(fn), NEW m, Safe(m, Idle, Promised), GoTo(m, b)
    PROVE  CodegenInv'
<1>1. PICK p : p = block
  OBVIOUS
<1>2. PICK n : n = Arrive(m, p, b)
  OBVIOUS
<1>3. Becomes(n) /\ block' = b /\ next' = Len(Phis(fn, b)) + 1 /\ UNCHANGED <<fn, phase, scan>>
  BY <1>1, <1>2 DEF GoTo
<1>4. Framed /\ Settled /\ queue = <<>>
  BY Running
<1>5. Safe(n, Idle, Promised)
  BY <1>2, <1>4, ArriveKeeps
<1>6. next' \in DOMAIN fn.body[block'] /\ block' \in Block(fn) /\ phase' = "run"
  BY <1>3, <1>4, PhiFacts DEF Framed
<1>. QED BY <1>3, <1>4, <1>5, <1>6, SafeStep

(***************************************************************************)
(* A jump, and a branch either way.                                        *)
(***************************************************************************)
LEMMA JumpStep == CodegenInv /\ (Jump \/ Branch) => CodegenInv'
<1>1. ASSUME CodegenInv, Jump
      PROVE  CodegenInv'
  <2>1. PICK m, b : m = Machine /\ b = Inst.to[1]
    OBVIOUS
  <2>2. phase = "run" /\ Inst.op = "jmp" /\ GoTo(m, b)
    BY <1>1, <2>1 DEF Jump
  <2>3. /\ Framed /\ Safe(m, Idle, Promised)
        /\ block \in Block(fn) /\ next \in DOMAIN fn.body[block] /\ Inst = fn.body[block][next]
        /\ ToSet(Inst.to) \subseteq Block(fn)
    BY <1>1, <2>1, <2>2, Running
  <2>4. PICK to : to = Inst.to /\ to \in Seq(ToSet(to)) /\ to # <<>>
    BY <2>2, <2>3, InstructionAssumption DEF Framed
  <2>5. 1 \in DOMAIN to
    BY <2>4
  <2>6. b \in Block(fn)
    BY <2>1, <2>3, <2>4, <2>5 DEF ToSet
  <2>. QED BY <1>1, <2>2, <2>3, <2>6, GoToStep
<1>2. ASSUME CodegenInv, Branch
      PROVE  CodegenInv'
  <2>1. PICK c, m : c = Inst.args[1] /\ m = Operand(Machine, c, "t0")
    OBVIOUS
  <2>2. phase = "run" /\ Inst.op = "br" /\ \E b \in ToSet(Inst.to) : GoTo(m, b)
    BY <1>2, <2>1 DEF Branch
  <2>3. PICK b \in ToSet(Inst.to) : GoTo(m, b)
    BY <2>2
  <2>4. Safe(Machine, Idle, Promised) /\ b \in Block(fn)
    BY <1>2, <2>2, <2>3, Running
  <2>5. PICK k : k = Machine
    OBVIOUS
  <2>6. Safe(m, Idle, Promised)
    BY <2>1, <2>4, <2>5, PromisesLast, OperandKeeps
  <2>. QED BY <1>2, <2>2, <2>3, <2>4, <2>6, GoToStep
<1>. QED BY <1>1, <1>2

(***************************************************************************)
(* A return value goes to a0, then the epilogue runs (select.rs:440-448).  *)
(***************************************************************************)
LEMMA ReturnStep == CodegenInv /\ Return => CodegenInv'
<1>. SUFFICES ASSUME CodegenInv, Return PROVE CodegenInv'
  OBVIOUS
<1>1. PICK m, args : m = Machine /\ args = Inst.args
  OBVIOUS
<1>2. PICK left : left = Leave(m, args)
  OBVIOUS
<1>3. phase = "run" /\ phase' = "returned" /\ Becomes(left) /\ UNCHANGED <<fn, scan, block, next>>
  BY <1>1, <1>2 DEF Return
<1>4. Framed /\ queue = <<>> /\ Safe(m, Idle, Promised) /\ block \in Block(fn) /\ next \in DOMAIN fn.body[block]
  BY <1>1, <1>3, Running
<1>5. CASE args = <<>>
  <2>1. left = Epilogue(m)
    BY <1>2, <1>5 DEF Leave
  <2>2. Safe(left, Callee, Promised)
    BY <1>4, <2>1, EpilogueRestores
  <2>. QED BY <1>3, <1>4, <2>2, SafeStep
<1>6. CASE args # <<>>
  <2>1. PICK v : v = args[1]
    OBVIOUS
  <2>2. PICK got, r : got = Get(m, Home(v), "t0") /\ r = Got(Home(v), "t0")
    OBVIOUS
  <2>3. PICK moved, x : moved = [got EXCEPT !.regs[ArgRegs[1]] = x] /\ x = got.regs[r]
    OBVIOUS
  <2>4. PICK n : n = Epilogue(moved)
    OBVIOUS
  <2>5. moved = ToResult(m, v)
    BY <2>2, <2>3 DEF ToResult, Move
  <2>6. left = See(n, v, ArgRegs[1])
    BY <1>2, <1>6, <2>1, <2>4, <2>5 DEF Leave
  <2>7. Safe(got, Idle, Promised)
    BY <1>4, <2>2, PromisesLast, GetKeeps DEF Scratches
  <2>8. ArgRegs[1] \notin Firsts(Idle)
    <3>1. 1 \in 1..Len(ArgRegs)
      BY RegistersAssumption
    <3>. QED BY <3>1, PromisesLast
  <2>9. Safe(moved, Idle, Promised)
    BY <2>3, <2>7, <2>8, SetReg
  <2>10. Safe(n, Callee, Promised)
    BY <1>4, <2>4, <2>9, EpilogueRestores
  <2>11. Safe(left, Callee, Promised)
    BY <2>6, <2>10, SeeKeeps
  <2>. QED BY <1>3, <1>4, <2>11, SafeStep
<1>. QED BY <1>5, <1>6

-----------------------------------------------------------------------------
(* The theorems                                                             *)

(***************************************************************************)
(* Whatever the linear scan decides and whichever path control takes, the  *)
(* generated code keeps the registers it does not use, the saved ones, the *)
(* links and, when no argument goes on the stack, the buffers              *)
(* (select.rs:45-490).                                                     *)
(***************************************************************************)
THEOREM CodegenInvariant == Spec => []CodegenInv
<1>1. Init => CodegenInv
  BY InitSound
<1>2. CodegenInv /\ [Next]_vars => CodegenInv'
  <2>. SUFFICES ASSUME CodegenInv, [Next]_vars PROVE CodegenInv'
    OBVIOUS
  <2>1. CASE Allocate
    BY <2>1, AllocateStep
  <2>2. CASE Enter
    BY <2>2, EnterStep
  <2>3. CASE Straight
    BY <2>3, StraightStep
  <2>4. CASE Jump \/ Branch
    BY <2>4, JumpStep
  <2>5. CASE Return
    BY <2>5, ReturnStep
  <2>6. CASE UNCHANGED vars
    <3>1. /\ UNCHANGED <<fn, phase, scan, block, next, regs, mem>>
      BY <2>6 DEF vars, machine
    <3>2. /\ queue' = queue /\ active' = active /\ callerStack' = callerStack /\ calleeStack' = calleeStack
          /\ usedCallee' = usedCallee /\ alloc' = alloc /\ nextSlot' = nextSlot /\ fn' = fn
          /\ phase' = phase /\ block' = block /\ next' = next /\ regs' = regs /\ mem' = mem
      BY <3>1 DEF scan
    <3>3. Promised' = Promised /\ Idle' = Idle /\ Callee' = Callee
      BY <3>2, PromisedStays
    <3>4. Scanned'
      BY <3>2 DEF CodegenInv, Scanned, Framed, Places, Entry, Scan!LS!InReg, Scan!LS!InSlot
    <3>5. Machine' = Machine
      BY <3>2 DEF Machine
    <3>6. /\ Safe(Machine, Idle, Promised)' = Safe(Machine', Idle', Promised')
          /\ Safe(Machine, Callee, Promised)' = Safe(Machine', Callee', Promised')
      BY DEF Safe, IsMachine, Has
    <3>. QED BY <3>2, <3>3, <3>4, <3>5, <3>6 DEF CodegenInv
  <2>. QED BY <2>1, <2>2, <2>3, <2>4, <2>5, <2>6 DEF Next
<1>. QED BY <1>1, <1>2, PTL DEF Spec

(***************************************************************************)
(* The function leaves the callee-saved registers, ra and fp as its caller *)
(* had them, for every function, every choice of registers and every path  *)
(* (select.rs:166-190).                                                    *)
(***************************************************************************)
THEOREM CallerStateIsPreserved == Spec => []CallerStatePreserved
<1>1. CodegenInv => CallerStatePreserved
  <2>. SUFFICES ASSUME CodegenInv, phase = "returned"
                PROVE  /\ \A r \in ToSet(CalleePool) : regs[r] = Kept(r)
                       /\ mem[-1] = Kept("ra") /\ mem[-2] = Kept("fp")
    BY DEF CallerStatePreserved
  <2>1. PICK m : m = Machine
    OBVIOUS
  <2>2. Safe(m, Callee, Promised) /\ m.regs = regs /\ m.mem = mem
    BY <2>1 DEF CodegenInv, Machine
  <2>3. \A r \in ToSet(CalleePool) : <<r, Kept(r)>> \in Callee
    BY DEF Callee
  <2>4. <<-1, Kept("ra")>> \in Promised /\ <<-2, Kept("fp")>> \in Promised
    BY DEF Promised, Links
  <2>. QED BY <2>2, <2>3, <2>4 DEF Safe, Has
<1>. QED BY <1>1, CodegenInvariant, PTL

(***************************************************************************)
(* In a function whose calls pass every argument in a register no code of  *)
(* the lowering writes into an alloca buffer; the stack arguments of       *)
(* another do, as the run on them shows (select.rs:70-90, 449-463).        *)
(***************************************************************************)
THEOREM RegisterArgumentsSpareBuffers == Spec => [](RegisterArguments => BuffersUntouched)
<1>1. CodegenInv => (RegisterArguments => BuffersUntouched)
  <2>. SUFFICES ASSUME CodegenInv, RegisterArguments, phase \in {"run", "returned"},
                       NEW i \in Allocas,
                       NEW w \in BufferAt(i)..(BufferAt(i) + BufferWords - 1)
                PROVE  mem[w] = Buffer(i)
    BY DEF BuffersUntouched
  <2>1. PICK m : m = Machine
    OBVIOUS
  <2>2. Has(m.mem, Promised) /\ m.mem = mem
    BY <2>1 DEF CodegenInv, Machine, Safe
  <2>3. <<w, Buffer(i)>> \in Promised
    BY DEF Promised, Buffers, BufferOf
  <2>. QED BY <2>2, <2>3 DEF Has
<1>. QED BY <1>1, CodegenInvariant, PTL

-----------------------------------------------------------------------------
(* The intervals the scan starts from                                       *)

(***************************************************************************)
(* An interval is a range of indices, whatever is live where; the calls    *)
(* have indices too (regalloc.rs:172-215).                                 *)
(***************************************************************************)
LEMMA IntervalRange ==
    ASSUME NEW f \in Program, NEW liveIn, NEW liveOut, NEW v
    PROVE  /\ IntervalStart(f, liveIn, v) \in 0..MaxIndexOf(f)
           /\ IntervalEnd(f, liveIn, liveOut, v) \in 0..MaxIndexOf(f)
           /\ IntervalStart(f, liveIn, v) <= IntervalEnd(f, liveIn, liveOut, v)
           /\ CallIndices(f) \subseteq 1..MaxIndexOf(f)
<1>1. PICK n \in Nat : n = MaxIndexOf(f)
  BY ProgramLaid, IdxRange
<1>2. \A b \in Block(f) : FirstIndex(f, b) \in 1..n /\ LastIndex(f, b) \in 1..n
  <2>. SUFFICES ASSUME NEW b \in Block(f)
                PROVE  FirstIndex(f, b) \in 1..n /\ LastIndex(f, b) \in 1..n
    OBVIOUS
  <2>1. 1 \in 1..Size(f, b) /\ Size(f, b) \in 1..Size(f, b)
    BY ProgramLaid, Sizes
  <2>. QED BY <1>1, <2>1, ProgramLaid, IdxRange
<1>3. \A x \in Insts(f) : x.idx \in 1..n
  BY <1>1, ProgramLaid, IdxRange, InstsAt
<1>4. DefIndex(f, v) \in 0..n
  <2>1. CASE v \in Listed(f)
    <3>1. \E x \in Insts(f) : x.inst.res = v
      BY <2>1 DEF Listed
    <3>2. DefIndex(f, v) \in 1..n
      BY <1>3, <2>1, <3>1 DEF DefIndex
    <3>. QED BY <3>2
  <2>2. CASE v \notin Listed(f)
    BY <2>2 DEF DefIndex
  <2>. QED BY <2>1, <2>2
<1>5. UseIndices(f, v) \subseteq 1..n
  BY <1>2, <1>3 DEF UseIndices
<1>6. PICK S : S = {DefIndex(f, v)} \cup {FirstIndex(f, b) : b \in {c \in Block(f) : v \in liveIn[c]}}
  OBVIOUS
<1>7. PICK E : E = {DefIndex(f, v)} \cup UseIndices(f, v)
                     \cup {FirstIndex(f, b) : b \in {c \in Block(f) : v \in liveIn[c]}}
                     \cup {LastIndex(f, b) : b \in {c \in Block(f) : v \in liveOut[c]}}
  OBVIOUS
<1>8. S \in SUBSET (0..n) /\ E \in SUBSET (0..n) /\ DefIndex(f, v) \in S /\ DefIndex(f, v) \in E
  BY <1>2, <1>4, <1>5, <1>6, <1>7
<1>9. /\ Min(S) \in 0..n /\ Min(S) <= DefIndex(f, v)
      /\ Max(E) \in 0..n /\ Max(E) >= DefIndex(f, v)
  BY <1>8, MinExists, MaxExists
<1>10. IntervalStart(f, liveIn, v) = Min(S) /\ IntervalEnd(f, liveIn, liveOut, v) = Max(E)
  BY <1>6, <1>7 DEF IntervalStart, IntervalEnd
<1>11. CallIndices(f) \subseteq 1..MaxIndexOf(f)
  BY <1>1, <1>3 DEF CallIndices
<1>. QED BY <1>1, <1>4, <1>9, <1>10, <1>11

\* start, end and calls are what the code computes for fn, and stay so.
Given ==
    /\ fn \in Program
    /\ start = [v \in Values(fn) |-> Interval(fn)[v].from]
    /\ end = [v \in Values(fn) |-> Interval(fn)[v].to]
    /\ calls = CallIndices(fn)

(***************************************************************************)
(* The intervals are computed before the scan and it only reads them.      *)
(***************************************************************************)
LEMMA GivenAlways == Spec => []Given
<1>1. Init => Given
  BY DEF Init, Given
<1>2. Given /\ [Next]_vars => Given'
  <2>. SUFFICES ASSUME Given, [Next]_vars PROVE UNCHANGED <<fn, start, end, calls>>
    BY DEF Given
  <2>1. CASE Allocate
    BY <2>1 DEF Allocate, Scan!Place
  <2>2. CASE Enter \/ Straight \/ Return
    BY <2>2 DEF Enter, Straight, Return, scan
  <2>3. CASE Jump \/ Branch
    BY <2>3 DEF Jump, Branch, GoTo, scan
  <2>4. CASE UNCHANGED vars
    BY <2>4 DEF vars, scan
  <2>. QED BY <2>1, <2>2, <2>3, <2>4 DEF Next
<1>. QED BY <1>1, <1>2, PTL DEF Spec

(***************************************************************************)
(* What the intervals of fn are.                                           *)
(***************************************************************************)
LEMMA GivenFacts ==
    ASSUME Given
    PROVE  /\ DOMAIN start = Values(fn) /\ DOMAIN end = Values(fn)
           /\ \A v \in Values(fn) : /\ start[v] \in 0..MaxIndexOf(fn) /\ end[v] \in 0..MaxIndexOf(fn)
                                    /\ start[v] <= end[v]
           /\ calls \subseteq 1..MaxIndexOf(fn)
<1>. DEFINE live == UNION {{<<v, i>> : i \in LivePoints(fn, v)} : v \in Values(fn)}
            liveIn == [b \in Block(fn) |-> {v \in Values(fn) : <<v, FirstIndex(fn, b)>> \in live}]
            liveOut == [b \in Block(fn) |-> UNION {liveIn[s] : s \in Successors(fn, b)}]
<1>1. \A v \in Values(fn) : /\ start[v] = IntervalStart(fn, liveIn, v)
                            /\ end[v] = IntervalEnd(fn, liveIn, liveOut, v)
  BY DEF Given, Interval
<1>2. DOMAIN start = Values(fn) /\ DOMAIN end = Values(fn) /\ fn \in Program /\ calls = CallIndices(fn)
  BY DEF Given
<1>. HIDE DEF liveIn, liveOut
<1>. QED BY <1>1, <1>2, IntervalRange

-----------------------------------------------------------------------------
(* What the theorems about the linear scan give, once it is over            *)

\* Two values with one home are never needed together: each interval ends
\* before the other starts.
HomesApart ==
    queue = <<>> =>
        \A v, w \in Values(fn) :
            v # w /\ Home(v) = Home(w) => end[v] <= start[w] \/ end[w] <= start[v]

\* A value alive across a call is not in a register the callee may write.
CallsSpared ==
    queue = <<>> =>
        \A v \in Values(fn) : \A i \in calls :
            start[v] <= i /\ i <= end[v] /\ Home(v).kind = "reg" => Home(v).at \notin CallerClobbered

-----------------------------------------------------------------------------
(* What the moves do to the places of a machine                             *)

Frame == StackPointer..Max({-1, Len(fn.params) - Len(ArgRegs) - 1})

\* A machine with all registers and the whole frame.
Complete(m) ==
    /\ m = [regs |-> m.regs, mem |-> m.mem, seen |-> m.seen]
    /\ DOMAIN m.regs = RegName /\ DOMAIN m.mem = Frame

At(m, p) == IF p.kind = "reg" THEN m.regs[p.at] ELSE m.mem[p.at]

\* A place the machine has, and one that is not a scratch register.
Valid(p)  == p.kind \in {"reg", "word", "sp"} /\ p.at \in (IF p.kind = "reg" THEN RegName ELSE Frame)
Proper(p) == Valid(p) /\ (p.kind = "reg" => p.at \notin {"t0", "t1"})

Apart(p, q) ==
    \/ p.kind = "reg" /\ q.kind # "reg"
    \/ p.kind # "reg" /\ q.kind = "reg"
    \/ p.at # q.at

\* All reads so far found what they expected.
Honest(m) == \A s \in m.seen : s[1] = s[2]

WithReg(m, r, x)  == [m EXCEPT !.regs[r] = x]
WithWord(m, w, x) == [m EXCEPT !.mem[w] = x]

(***************************************************************************)
(* A write to a register.                                                  *)
(***************************************************************************)
LEMMA RegWritten ==
    ASSUME NEW m, Complete(m), NEW x, NEW r \in RegName
    PROVE  /\ Complete(WithReg(m, r, x))
           /\ WithReg(m, r, x).mem = m.mem /\ WithReg(m, r, x).seen = m.seen
           /\ WithReg(m, r, x).regs[r] = x
           /\ \A q \in RegName : q # r => WithReg(m, r, x).regs[q] = m.regs[q]
<1>1. PICK n : n = WithReg(m, r, x)
  OBVIOUS
<1>2. n = [regs |-> [m.regs EXCEPT ![r] = x], mem |-> m.mem, seen |-> m.seen]
  BY <1>1 DEF Complete, WithReg
<1>3. n.regs = [m.regs EXCEPT ![r] = x] /\ n.mem = m.mem /\ n.seen = m.seen
  BY <1>2
<1>. QED BY <1>1, <1>2, <1>3 DEF Complete

(***************************************************************************)
(* A write to a word.                                                      *)
(***************************************************************************)
LEMMA WordWritten ==
    ASSUME NEW m, Complete(m), NEW x, NEW w \in Frame
    PROVE  /\ Complete(WithWord(m, w, x))
           /\ WithWord(m, w, x).regs = m.regs /\ WithWord(m, w, x).seen = m.seen
           /\ WithWord(m, w, x).mem[w] = x
           /\ \A q \in Frame : q # w => WithWord(m, w, x).mem[q] = m.mem[q]
<1>1. PICK n : n = WithWord(m, w, x)
  OBVIOUS
<1>2. n = [regs |-> m.regs, mem |-> [m.mem EXCEPT ![w] = x], seen |-> m.seen]
  BY <1>1 DEF Complete, WithWord
<1>3. n.mem = [m.mem EXCEPT ![w] = x] /\ n.regs = m.regs /\ n.seen = m.seen
  BY <1>2
<1>. QED BY <1>1, <1>2, <1>3 DEF Complete

(***************************************************************************)
(* A note of what a register was expected to have.                         *)
(***************************************************************************)
LEMMA Noted ==
    ASSUME NEW m, Complete(m), NEW v, NEW r
    PROVE  /\ Complete(See(m, v, r))
           /\ See(m, v, r).regs = m.regs /\ See(m, v, r).mem = m.mem
           /\ Honest(m) /\ m.regs[r] = Holds(v) => Honest(See(m, v, r))
<1>1. PICK n : n = See(m, v, r)
  OBVIOUS
<1>2. n = [regs |-> m.regs, mem |-> m.mem, seen |-> m.seen \cup {<<Holds(v), m.regs[r]>>}]
  BY <1>1 DEF See, Complete
<1>3. n.regs = m.regs /\ n.mem = m.mem /\ n.seen = m.seen \cup {<<Holds(v), m.regs[r]>>}
  BY <1>2
<1>4. Complete(n)
  BY <1>2, <1>3 DEF Complete
<1>5. Honest(m) /\ m.regs[r] = Holds(v) => Honest(n)
  BY <1>3 DEF Honest
<1>. QED BY <1>1, <1>3, <1>4, <1>5

(***************************************************************************)
(* A word out of reach costs a scratch register (select.rs:450-463).       *)
(***************************************************************************)
LEMMA AddressComputed ==
    ASSUME NEW m, Complete(m), NEW addr \in RegName, NEW offset
    PROVE  /\ Complete(Addressed(m, addr, offset))
           /\ Addressed(m, addr, offset).mem = m.mem /\ Addressed(m, addr, offset).seen = m.seen
           /\ \A q \in RegName : q # addr => Addressed(m, addr, offset).regs[q] = m.regs[q]
           /\ ~(offset < -ReachWords) => Addressed(m, addr, offset) = m
<1>1. CASE offset < -ReachWords
  <2>1. Addressed(m, addr, offset) = WithReg(m, addr, Junk)
    BY <1>1 DEF Addressed, WithReg
  <2>. QED BY <1>1, <2>1, RegWritten, WordWritten
<1>2. CASE ~(offset < -ReachWords)
  <2>1. Addressed(m, addr, offset) = m
    BY <1>2 DEF Addressed
  <2>. QED BY <2>1
<1>. QED BY <1>1, <1>2

(***************************************************************************)
(* A load brings the word to its register.                                 *)
(***************************************************************************)
LEMMA Loaded ==
    ASSUME NEW m, Complete(m), NEW dest \in RegName, NEW offset
    PROVE  /\ Complete(Load(m, dest, offset))
           /\ Load(m, dest, offset).mem = m.mem /\ Load(m, dest, offset).seen = m.seen
           /\ Load(m, dest, offset).regs[dest] = m.mem[offset]
           /\ \A q \in RegName : q \notin {dest, "t0", "t1"} => Load(m, dest, offset).regs[q] = m.regs[q]
           /\ ~(offset < -ReachWords) =>
                 \A q \in RegName : q # dest => Load(m, dest, offset).regs[q] = m.regs[q]
<1>1. PICK addr : addr = IF dest = "t0" THEN "t1" ELSE "t0"
  OBVIOUS
<1>2. addr \in {"t0", "t1"} /\ addr \in RegName
  BY <1>1 DEF RegName
<1>3. PICK n : n = Addressed(m, addr, offset)
  OBVIOUS
<1>4. /\ Complete(n) /\ n.mem = m.mem /\ n.seen = m.seen
      /\ \A q \in RegName : q # addr => n.regs[q] = m.regs[q]
      /\ ~(offset < -ReachWords) => n = m
  BY <1>2, <1>3, AddressComputed
<1>5. PICK k : k = WithReg(n, dest, n.mem[offset])
  OBVIOUS
<1>6. /\ Complete(k) /\ k.mem = n.mem /\ k.seen = n.seen /\ k.regs[dest] = n.mem[offset]
      /\ \A q \in RegName : q # dest => k.regs[q] = n.regs[q]
  BY <1>4, <1>5, RegWritten, WordWritten
<1>7. Load(m, dest, offset) = k
  BY <1>1, <1>3, <1>5 DEF Load, WithReg
<1>. QED BY <1>2, <1>4, <1>6, <1>7

(***************************************************************************)
(* A store, likewise.                                                      *)
(***************************************************************************)
LEMMA Stored ==
    ASSUME NEW m, Complete(m), NEW src \in RegName, NEW offset \in Frame
    PROVE  /\ Complete(Store(m, src, offset))
           /\ Store(m, src, offset).seen = m.seen
           /\ Store(m, src, offset).mem[offset] = m.regs[src]
           /\ \A w \in Frame : w # offset => Store(m, src, offset).mem[w] = m.mem[w]
           /\ \A q \in RegName : q \notin {"t0", "t1"} => Store(m, src, offset).regs[q] = m.regs[q]
<1>1. PICK addr : addr = IF src = "t0" THEN "t1" ELSE "t0"
  OBVIOUS
<1>2. addr \in {"t0", "t1"} /\ addr # src /\ addr \in RegName
  BY <1>1 DEF RegName
<1>3. PICK n : n = Addressed(m, addr, offset)
  OBVIOUS
<1>4. /\ Complete(n) /\ n.mem = m.mem /\ n.seen = m.seen
      /\ \A q \in RegName : q # addr => n.regs[q] = m.regs[q]
  BY <1>2, <1>3, AddressComputed
<1>5. PICK k : k = WithWord(n, offset, n.regs[src])
  OBVIOUS
<1>6. /\ Complete(k) /\ k.regs = n.regs /\ k.seen = n.seen
      /\ k.mem[offset] = n.regs[src]
      /\ \A w \in Frame : w # offset => k.mem[w] = n.mem[w]
  BY <1>4, <1>5, RegWritten, WordWritten
<1>7. Store(m, src, offset) = k
  BY <1>1, <1>3, <1>5 DEF Store, WithWord
<1>. QED BY <1>2, <1>4, <1>6, <1>7

(***************************************************************************)
(* An operand is in the register load_operand answers.                     *)
(***************************************************************************)
LEMMA Gotten ==
    ASSUME NEW m, Complete(m), NEW p, Valid(p), NEW scratch \in RegName
    PROVE  /\ Complete(Get(m, p, scratch))
           /\ Get(m, p, scratch).mem = m.mem /\ Get(m, p, scratch).seen = m.seen
           /\ Got(p, scratch) \in RegName
           /\ Get(m, p, scratch).regs[Got(p, scratch)] = At(m, p)
           /\ \A q \in RegName : q \notin {scratch, "t0", "t1"} => Get(m, p, scratch).regs[q] = m.regs[q]
           /\ p.kind = "reg" \/ ~(p.at < -ReachWords) =>
                 \A q \in RegName : q # scratch => Get(m, p, scratch).regs[q] = m.regs[q]
<1>1. CASE p.kind = "reg"
  BY <1>1 DEF Get, Got, At, Valid
<1>2. CASE p.kind # "reg"
  <2>1. Get(m, p, scratch) = Load(m, scratch, p.at) /\ Got(p, scratch) = scratch /\ At(m, p) = m.mem[p.at]
    BY <1>2 DEF Get, Got, At
  <2>. QED BY <1>2, <2>1, Loaded
<1>. QED BY <1>1, <1>2

(***************************************************************************)
(* A place gets what the register has, and every other proper place keeps  *)
(* what it has.                                                            *)
(***************************************************************************)
LEMMA PutThere ==
    ASSUME NEW m, Complete(m), NEW p, Valid(p), NEW from \in RegName
    PROVE  /\ Complete(Put(m, p, from)) /\ Put(m, p, from).seen = m.seen
           /\ At(Put(m, p, from), p) = m.regs[from]
           /\ \A q : Proper(q) /\ Apart(q, p) => At(Put(m, p, from), q) = At(m, q)
<1>1. CASE p.kind = "reg"
  <2>1. PICK n : n = WithReg(m, p.at, m.regs[from])
    OBVIOUS
  <2>2. Put(m, p, from) = n
    BY <1>1, <2>1 DEF Put, Move, WithReg
  <2>3. p.at \in RegName
    BY <1>1 DEF Valid
  <2>4. /\ Complete(n) /\ n.mem = m.mem /\ n.seen = m.seen /\ n.regs[p.at] = m.regs[from]
        /\ \A q \in RegName : q # p.at => n.regs[q] = m.regs[q]
    BY <2>1, <2>3, RegWritten, WordWritten
  <2>. QED BY <1>1, <2>2, <2>4 DEF At, Proper, Valid, Apart
<1>2. CASE p.kind = "word"
  <2>1. PICK n : n = Store(m, from, p.at)
    OBVIOUS
  <2>2. Put(m, p, from) = n
    BY <1>2, <2>1 DEF Put
  <2>3. p.at \in Frame
    BY <1>2 DEF Valid
  <2>4. /\ Complete(n) /\ n.seen = m.seen /\ n.mem[p.at] = m.regs[from]
        /\ \A w \in Frame : w # p.at => n.mem[w] = m.mem[w]
        /\ \A q \in RegName : q \notin {"t0", "t1"} => n.regs[q] = m.regs[q]
    BY <2>1, <2>3, Stored
  <2>. QED BY <1>2, <2>2, <2>4 DEF At, Proper, Valid, Apart
<1>3. CASE p.kind = "sp"
  <2>1. PICK n : n = WithWord(m, p.at, m.regs[from])
    OBVIOUS
  <2>2. Put(m, p, from) = n
    BY <1>3, <2>1 DEF Put, WithWord
  <2>3. p.at \in Frame
    BY <1>3 DEF Valid
  <2>4. /\ Complete(n) /\ n.regs = m.regs /\ n.seen = m.seen /\ n.mem[p.at] = m.regs[from]
        /\ \A w \in Frame : w # p.at => n.mem[w] = m.mem[w]
    BY <2>1, <2>3, RegWritten, WordWritten
  <2>. QED BY <1>3, <2>2, <2>4 DEF At, Proper, Valid, Apart
<1>. QED BY <1>1, <1>2, <1>3 DEF Valid

-----------------------------------------------------------------------------
(* What a list of copies does                                               *)

\* A copy from one proper place to another, through t0 or the target itself.
Fit(c) == /\ Proper(c.from) /\ Proper(c.to)
          /\ c.via = "t0" \/ c.to = Reg(c.via)

\* What a copy brings.
Brought(m, c) == IF c.phi = NoValue THEN At(m, c.from) ELSE Coming(c.phi)

\* What it reads is what it expects.
Right(m, c) == c.value # NoValue => At(m, c.from) = Holds(c.value)

WithPlace(m, p, x) == IF p.kind = "reg" THEN WithReg(m, p.at, x) ELSE WithWord(m, p.at, x)

(***************************************************************************)
(* A write to a place.                                                     *)
(***************************************************************************)
LEMMA PlaceWritten ==
    ASSUME NEW m, Complete(m), NEW p, Valid(p), NEW x
    PROVE  /\ Complete(WithPlace(m, p, x)) /\ WithPlace(m, p, x).seen = m.seen
           /\ At(WithPlace(m, p, x), p) = x
           /\ \A q : Proper(q) /\ Apart(q, p) => At(WithPlace(m, p, x), q) = At(m, q)
<1>1. CASE p.kind = "reg"
  <2>1. PICK n : n = WithReg(m, p.at, x)
    OBVIOUS
  <2>2. WithPlace(m, p, x) = n /\ p.at \in RegName
    BY <1>1, <2>1 DEF WithPlace, Valid
  <2>3. /\ Complete(n) /\ n.mem = m.mem /\ n.seen = m.seen /\ n.regs[p.at] = x
        /\ \A q \in RegName : q # p.at => n.regs[q] = m.regs[q]
    BY <2>1, <2>2, RegWritten
  <2>. QED BY <1>1, <2>2, <2>3 DEF At, Proper, Valid, Apart
<1>2. CASE p.kind # "reg"
  <2>1. PICK n : n = WithWord(m, p.at, x)
    OBVIOUS
  <2>2. WithPlace(m, p, x) = n /\ p.at \in Frame
    BY <1>2, <2>1 DEF WithPlace, Valid
  <2>3. /\ Complete(n) /\ n.regs = m.regs /\ n.seen = m.seen /\ n.mem[p.at] = x
        /\ \A w \in Frame : w # p.at => n.mem[w] = m.mem[w]
    BY <2>1, <2>2, WordWritten
  <2>. QED BY <1>2, <2>2, <2>3 DEF At, Proper, Valid, Apart
<1>. QED BY <1>1, <1>2

(***************************************************************************)
(* The parts of a copy.                                                    *)
(***************************************************************************)
LEMMA CopyHas ==
    \A from, via, to : /\ Copy(from, via, to).from = from /\ Copy(from, via, to).via = via
                       /\ Copy(from, via, to).to = to
                       /\ Copy(from, via, to).value = NoValue /\ Copy(from, via, to).phi = NoValue
BY DEF Copy

(***************************************************************************)
(* The parts of one that reads a value.                                    *)
(***************************************************************************)
LEMMA PassHas ==
    \A v, to, phi : /\ Pass(v, to, phi).from = Home(v) /\ Pass(v, to, phi).via = "t0"
                    /\ Pass(v, to, phi).to = to
                    /\ Pass(v, to, phi).value = v /\ Pass(v, to, phi).phi = phi
BY DEF Pass

(***************************************************************************)
(* One copy: its target has what its source had, or is coming for its phi, *)
(* and every other proper place keeps what it has.                         *)
(***************************************************************************)
LEMMA CopiedDoes ==
    ASSUME NEW m, Complete(m), NEW c, Fit(c)
    PROVE  /\ Complete(Copied(m, c))
           /\ Honest(m) /\ Right(m, c) => Honest(Copied(m, c))
           /\ At(Copied(m, c), c.to) = Brought(m, c)
           /\ \A q : Proper(q) /\ Apart(q, c.to) => At(Copied(m, c), q) = At(m, q)
<1>1. /\ Valid(c.from) /\ Valid(c.to) /\ c.via \in RegName
      /\ \A q : Proper(q) /\ Apart(q, c.to) /\ q.kind = "reg" => q.at \notin {c.via, "t0", "t1"}
  BY DEF Fit, Proper, Valid, Apart, Reg, RegName
<1>2. PICK got : got = Get(m, c.from, c.via)
  OBVIOUS
<1>3. PICK r : r = Got(c.from, c.via)
  OBVIOUS
<1>4. /\ Complete(got) /\ got.mem = m.mem /\ got.seen = m.seen /\ r \in RegName
      /\ got.regs[r] = At(m, c.from)
      /\ \A q \in RegName : q \notin {c.via, "t0", "t1"} => got.regs[q] = m.regs[q]
  BY <1>1, <1>2, <1>3, Gotten
<1>5. PICK seeing : seeing = IF c.value = NoValue THEN got ELSE See(got, c.value, r)
  OBVIOUS
<1>6. /\ Complete(seeing) /\ seeing.regs = got.regs /\ seeing.mem = got.mem
      /\ Honest(m) /\ Right(m, c) => Honest(seeing)
  <2>1. CASE c.value = NoValue
    BY <2>1, <1>4, <1>5 DEF Honest
  <2>2. CASE c.value # NoValue
    <3>1. seeing = See(got, c.value, r)
      BY <2>2, <1>5
    <3>2. /\ Complete(seeing) /\ seeing.regs = got.regs /\ seeing.mem = got.mem
          /\ Honest(got) /\ got.regs[r] = Holds(c.value) => Honest(seeing)
      BY <1>4, <3>1, Noted
    <3>3. Honest(m) /\ Right(m, c) => Honest(got) /\ got.regs[r] = Holds(c.value)
      BY <1>4, <2>2 DEF Honest, Right
    <3>. QED BY <3>2, <3>3
  <2>. QED BY <2>1, <2>2
<1>7. PICK put : put = Put(seeing, c.to, r)
  OBVIOUS
<1>8. /\ Complete(put) /\ put.seen = seeing.seen
      /\ At(put, c.to) = seeing.regs[r]
      /\ \A q : Proper(q) /\ Apart(q, c.to) => At(put, q) = At(seeing, q)
  BY <1>1, <1>4, <1>6, <1>7, PutThere
<1>9. \A q : Proper(q) /\ Apart(q, c.to) => At(put, q) = At(m, q)
  <2>1. \A q : Proper(q) /\ Apart(q, c.to) => At(seeing, q) = At(m, q)
    BY <1>1, <1>4, <1>6 DEF At, Proper, Valid
  <2>. QED BY <1>8, <2>1
<1>10. At(put, c.to) = At(m, c.from)
  BY <1>4, <1>6, <1>8
<1>11. Honest(m) /\ Right(m, c) => Honest(put)
  BY <1>6, <1>8 DEF Honest
<1>12. CASE c.phi = NoValue
  <2>1. Copied(m, c) = put
    BY <1>12, <1>2, <1>3, <1>5, <1>7 DEF Copied
  <2>. QED BY <2>1, <1>8, <1>9, <1>10, <1>11, <1>12 DEF Brought
<1>13. CASE c.phi # NoValue
  <2>1. PICK n : n = WithPlace(put, c.to, Coming(c.phi))
    OBVIOUS
  <2>2. Copied(m, c) = n
    BY <1>13, <1>2, <1>3, <1>5, <1>7, <2>1 DEF Copied, WithPlace, WithReg, WithWord
  <2>3. /\ Complete(n) /\ n.seen = put.seen /\ At(n, c.to) = Coming(c.phi)
        /\ \A q : Proper(q) /\ Apart(q, c.to) => At(n, q) = At(put, q)
    BY <1>1, <1>8, <2>1, PlaceWritten
  <2>4. Honest(m) /\ Right(m, c) => Honest(n)
    BY <1>11, <2>3 DEF Honest
  <2>. QED BY <2>2, <2>3, <2>4, <1>9, <1>13 DEF Brought
<1>. QED BY <1>12, <1>13

(***************************************************************************)
(* Copies leave every proper place alone that none of them writes.         *)
(***************************************************************************)
LEMMA RunSpares ==
    ASSUME NEW m, Complete(m), NEW n \in Nat, NEW copies, Len(copies) = n,
           \A i \in 1..n : Fit(copies[i])
    PROVE  /\ Complete(Run(m, copies))
           /\ (Honest(m) /\ \A i \in 1..n : copies[i].value = NoValue) => Honest(Run(m, copies))
           /\ \A q : (Proper(q) /\ \A i \in 1..n : Apart(q, copies[i].to)) => At(Run(m, copies), q) = At(m, q)
<1>1. PICK a : Runs(a, n, m, copies) /\ Run(m, copies) = a[n]
  BY RunUnfolds
<1>. DEFINE Fine(i) == /\ Complete(a[i])
                       /\ (Honest(m) /\ \A j \in 1..n : copies[j].value = NoValue) => Honest(a[i])
                       /\ \A q : (Proper(q) /\ \A j \in 1..n : Apart(q, copies[j].to)) => At(a[i], q) = At(m, q)
<1>2. Fine(0)
  BY <1>1 DEF Runs
<1>3. ASSUME NEW i \in 0..(n - 1), Fine(i)
      PROVE  Fine(i + 1)
  <2>1. i + 1 \in 1..n /\ (i + 1) - 1 = i
    OBVIOUS
  <2>2. a[i + 1] = Copied(a[i], copies[i + 1])
    BY <1>1, <2>1 DEF Runs
  <2>3. PICK c : c = copies[i + 1]
    OBVIOUS
  <2>4. Fit(c)
    BY <2>1, <2>3
  <2>5. /\ Complete(Copied(a[i], c))
        /\ Honest(a[i]) /\ Right(a[i], c) => Honest(Copied(a[i], c))
        /\ \A q : Proper(q) /\ Apart(q, c.to) => At(Copied(a[i], c), q) = At(a[i], q)
    BY <1>3, <2>4, CopiedDoes
  <2>6. c.value = NoValue => Right(a[i], c)
    BY DEF Right
  <2>. QED BY <1>3, <2>1, <2>2, <2>3, <2>5, <2>6
<1>. HIDE DEF Fine
<1>. DEFINE Done == {i \in 0..n : Fine(i)}
<1>4. 0 \in Done /\ \A i \in 0..(n - 1) : i \in Done => i + 1 \in Done
  BY <1>2, <1>3
<1>5. n \in Done
  <2>. HIDE DEF Done
  <2>1. \A i \in 0..n : i \in Done
    BY <1>4, BoundedInduction
  <2>. QED BY <2>1
<1>. QED BY <1>1, <1>5 DEF Fine

(***************************************************************************)
(* Copies whose targets are apart, none of which writes what a later one   *)
(* reads, all bring what they should.                                      *)
(***************************************************************************)
LEMMA RunDoes ==
    ASSUME NEW m, Complete(m), Honest(m), NEW n \in Nat, NEW copies, Len(copies) = n,
           \A i \in 1..n : Fit(copies[i]) /\ Right(m, copies[i]),
           \A i \in 1..n : \A j \in 1..(i - 1) : /\ Apart(copies[i].from, copies[j].to)
                                                 /\ Apart(copies[j].to, copies[i].to)
    PROVE  /\ Honest(Run(m, copies))
           /\ \A i \in 1..n : At(Run(m, copies), copies[i].to) = Brought(m, copies[i])
<1>1. PICK a : Runs(a, n, m, copies) /\ Run(m, copies) = a[n]
  BY RunUnfolds
<1>. DEFINE Fine(i) == /\ Complete(a[i]) /\ Honest(a[i])
                       /\ \A j \in 1..i : At(a[i], copies[j].to) = Brought(m, copies[j])
                       /\ \A q : (Proper(q) /\ \A j \in 1..i : Apart(q, copies[j].to)) => At(a[i], q) = At(m, q)
<1>2. Fine(0)
  BY <1>1 DEF Runs
<1>3. ASSUME NEW i \in 0..(n - 1), Fine(i)
      PROVE  Fine(i + 1)
  <2>1. i + 1 \in 1..n /\ (i + 1) - 1 = i
    OBVIOUS
  <2>2. PICK c : c = copies[i + 1]
    OBVIOUS
  <2>3. PICK k : k = Copied(a[i], c)
    OBVIOUS
  <2>4. a[i + 1] = k
    BY <1>1, <2>1, <2>2, <2>3 DEF Runs
  <2>5. /\ Fit(c) /\ Right(m, c)
        /\ \A j \in 1..i : Apart(c.from, copies[j].to) /\ Apart(copies[j].to, c.to)
    BY <2>1, <2>2
  <2>6. At(a[i], c.from) = At(m, c.from)
    BY <1>3, <2>5 DEF Fit
  <2>7. Right(a[i], c) /\ Brought(a[i], c) = Brought(m, c)
    BY <2>5, <2>6 DEF Right, Brought
  <2>8. /\ Complete(k) /\ Honest(k) /\ At(k, c.to) = Brought(m, c)
        /\ \A q : Proper(q) /\ Apart(q, c.to) => At(k, q) = At(a[i], q)
    BY <1>3, <2>3, <2>5, <2>7, CopiedDoes
  <2>9. ASSUME NEW j \in 1..(i + 1)
        PROVE  At(k, copies[j].to) = Brought(m, copies[j])
    <3>1. CASE j = i + 1
      BY <2>2, <2>8, <3>1
    <3>2. CASE j # i + 1
      <4>1. j \in 1..i /\ j \in 1..n
        BY <3>2, <2>1
      <4>2. Apart(copies[j].to, c.to) /\ Proper(copies[j].to)
        BY <2>5, <4>1 DEF Fit
      <4>. QED BY <1>3, <2>8, <4>1, <4>2
    <3>. QED BY <3>1, <3>2
  <2>10. ASSUME NEW q, Proper(q), \A j \in 1..(i + 1) : Apart(q, copies[j].to)
         PROVE  At(k, q) = At(m, q)
    <3>1. Apart(q, c.to) /\ \A j \in 1..i : Apart(q, copies[j].to)
      BY <2>1, <2>2, <2>10
    <3>. QED BY <1>3, <2>8, <2>10, <3>1
  <2>. QED BY <2>4, <2>8, <2>9, <2>10
<1>. HIDE DEF Fine
<1>. DEFINE Done == {i \in 0..n : Fine(i)}
<1>4. 0 \in Done /\ \A i \in 0..(n - 1) : i \in Done => i + 1 \in Done
  BY <1>2, <1>3
<1>5. n \in Done
  <2>. HIDE DEF Done
  <2>1. \A i \in 0..n : i \in Done
    BY <1>4, BoundedInduction
  <2>. QED BY <2>1
<1>. QED BY <1>1, <1>5 DEF Fine

-----------------------------------------------------------------------------
(* What an instruction reads and what it defines                            *)

(***************************************************************************)
(* A new value in a register: the other values stay where they are.        *)
(***************************************************************************)
LEMMA Defined ==
    ASSUME NEW m, Complete(m), NEW v, NEW r \in RegName
    PROVE  /\ Complete(Define(m, v, r)) /\ Define(m, v, r).seen = m.seen
           /\ Define(m, v, r).regs[r] = Holds(v)
           /\ \A q, w : /\ Proper(q) /\ (q.kind = "reg" => q.at # r)
                        /\ w # v /\ At(m, q) = Holds(w)
                        => At(Define(m, v, r), q) = Holds(w)
<1>. DEFINE Fresh(tag) == IF tag = Holds(v) THEN Junk ELSE tag
<1>1. PICK n : n = Define(m, v, r)
  OBVIOUS
<1>2. n = [regs |-> [q \in DOMAIN m.regs |-> IF q = r THEN Holds(v) ELSE Fresh(m.regs[q])],
           mem  |-> [w \in DOMAIN m.mem |-> Fresh(m.mem[w])],
           seen |-> m.seen]
  BY <1>1 DEF Define, Complete
<1>3. /\ n.regs = [q \in RegName |-> IF q = r THEN Holds(v) ELSE Fresh(m.regs[q])]
      /\ n.mem = [w \in Frame |-> Fresh(m.mem[w])]
      /\ n.seen = m.seen
  BY <1>2 DEF Complete
<1>4. Complete(n)
  BY <1>2, <1>3 DEF Complete
<1>5. ASSUME NEW q, NEW w, Proper(q), q.kind = "reg" => q.at # r, w # v, At(m, q) = Holds(w)
      PROVE  At(n, q) = Holds(w)
  <2>1. Holds(w) # Holds(v)
    BY <1>5 DEF Holds
  <2>. QED BY <1>3, <1>5, <2>1 DEF At, Proper, Valid
<1>. QED BY <1>1, <1>3, <1>4, <1>5

(***************************************************************************)
(* The result of an instruction is at home after it, and the values in the *)
(* other places stay there.                                                *)
(***************************************************************************)
LEMMA ResultDone ==
    ASSUME NEW m, Complete(m), NEW v, Proper(Home(v)), NEW scratch \in {"t0", "t1"}
    PROVE  /\ Complete(Result(m, v, scratch)) /\ Result(m, v, scratch).seen = m.seen
           /\ At(Result(m, v, scratch), Home(v)) = Holds(v)
           /\ \A q, w : /\ Proper(q) /\ Apart(q, Home(v)) /\ w # v /\ At(m, q) = Holds(w)
                        => At(Result(m, v, scratch), q) = Holds(w)
<1>1. PICK p : p = Home(v)
  OBVIOUS
<1>2. PICK r : r = Got(p, scratch)
  OBVIOUS
<1>3. Valid(p) /\ r \in RegName
  BY <1>1, <1>2 DEF Proper, Valid, Got, RegName
<1>4. PICK n : n = Define(m, v, r)
  OBVIOUS
<1>5. /\ Complete(n) /\ n.seen = m.seen /\ n.regs[r] = Holds(v)
      /\ \A q, w : /\ Proper(q) /\ (q.kind = "reg" => q.at # r) /\ w # v /\ At(m, q) = Holds(w)
                   => At(n, q) = Holds(w)
  BY <1>3, <1>4, Defined
<1>6. PICK k : k = Put(n, p, r)
  OBVIOUS
<1>7. /\ Complete(k) /\ k.seen = n.seen /\ At(k, p) = n.regs[r]
      /\ \A q : Proper(q) /\ Apart(q, p) => At(k, q) = At(n, q)
  BY <1>3, <1>5, <1>6, PutThere
<1>8. Result(m, v, scratch) = k
  BY <1>1, <1>2, <1>4, <1>6 DEF Result
<1>9. ASSUME NEW q, NEW w, Proper(q), Apart(q, p), w # v, At(m, q) = Holds(w)
      PROVE  At(k, q) = Holds(w)
  <2>1. q.kind = "reg" => q.at # r
    BY <1>2, <1>9 DEF Apart, Got, Proper
  <2>. QED BY <1>5, <1>7, <1>9, <2>1
<1>. QED BY <1>1, <1>5, <1>7, <1>8, <1>9

(***************************************************************************)
(* An operand that is at home is found there.                              *)
(***************************************************************************)
LEMMA OperandRead ==
    ASSUME NEW m, Complete(m), Honest(m), NEW v, Proper(Home(v)), At(m, Home(v)) = Holds(v)
    PROVE  /\ Complete(Operand(m, v, "t0")) /\ Honest(Operand(m, v, "t0"))
           /\ \A q : Proper(q) => At(Operand(m, v, "t0"), q) = At(m, q)
<1>1. PICK p : p = Home(v)
  OBVIOUS
<1>2. PICK got : got = Get(m, p, "t0")
  OBVIOUS
<1>3. PICK r : r = Got(p, "t0")
  OBVIOUS
<1>4. Valid(p) /\ "t0" \in RegName
  BY <1>1 DEF Proper, RegName
<1>5. /\ Complete(got) /\ got.mem = m.mem /\ got.seen = m.seen /\ got.regs[r] = At(m, p)
      /\ \A q \in RegName : q \notin {"t0", "t1"} => got.regs[q] = m.regs[q]
  BY <1>2, <1>3, <1>4, Gotten
<1>6. PICK n : n = See(got, v, r)
  OBVIOUS
<1>7. /\ Complete(n) /\ n.regs = got.regs /\ n.mem = got.mem
      /\ Honest(got) /\ got.regs[r] = Holds(v) => Honest(n)
  BY <1>5, <1>6, Noted
<1>8. Honest(n)
  BY <1>1, <1>5, <1>7 DEF Honest
<1>9. \A q : Proper(q) => At(n, q) = At(m, q)
  BY <1>5, <1>7 DEF At, Proper, Valid
<1>. QED BY <1>1, <1>2, <1>3, <1>6, <1>7, <1>8, <1>9 DEF Operand

(***************************************************************************)
(* Two operands, unless the address of the second one costs the scratch    *)
(* register the first one is in (select.rs:449-463).                       *)
(***************************************************************************)
LEMMA BothRead ==
    ASSUME NEW m, Complete(m), Honest(m), NEW a, NEW b,
           Proper(Home(a)), At(m, Home(a)) = Holds(a), Proper(Home(b)), At(m, Home(b)) = Holds(b),
           Home(a).kind = "reg" \/ Home(b).kind = "reg" \/ Home(b).at >= -ReachWords
    PROVE  /\ Complete(BothOperands(m, a, b)) /\ Honest(BothOperands(m, a, b))
           /\ \A q : Proper(q) => At(BothOperands(m, a, b), q) = At(m, q)
<1>1. PICK p : p = Home(a)
  OBVIOUS
<1>2. PICK q : q = Home(b)
  OBVIOUS
<1>3. Valid(p) /\ Valid(q) /\ "t0" \in RegName /\ "t1" \in RegName
  BY <1>1, <1>2 DEF Proper, RegName
<1>4. PICK one : one = Get(m, p, "t0")
  OBVIOUS
<1>5. PICK r : r = Got(p, "t0")
  OBVIOUS
<1>6. PICK two : two = Get(one, q, "t1")
  OBVIOUS
<1>7. PICK s : s = Got(q, "t1")
  OBVIOUS
<1>8. /\ Complete(one) /\ one.mem = m.mem /\ one.seen = m.seen
      /\ r \in RegName /\ one.regs[r] = At(m, p)
      /\ \A x \in RegName : x \notin {"t0", "t1"} => one.regs[x] = m.regs[x]
  BY <1>3, <1>4, <1>5, Gotten
<1>9. /\ Complete(two) /\ two.mem = one.mem /\ two.seen = one.seen
      /\ two.regs[s] = At(one, q)
      /\ \A x \in RegName : x \notin {"t0", "t1"} => two.regs[x] = one.regs[x]
      /\ q.kind = "reg" \/ ~(q.at < -ReachWords) =>
            \A x \in RegName : x # "t1" => two.regs[x] = one.regs[x]
  BY <1>3, <1>6, <1>7, <1>8, Gotten
<1>10. two.regs[r] = Holds(a)
  <2>1. CASE p.kind = "reg"
    <3>1. r \notin {"t0", "t1"}
      BY <1>1, <1>5, <2>1 DEF Got, Proper
    <3>. QED BY <1>1, <1>8, <1>9, <3>1
  <2>2. CASE p.kind # "reg"
    <3>1. r = "t0" /\ r # "t1"
      BY <1>5, <2>2 DEF Got
    <3>2. q.kind = "reg" \/ ~(q.at < -ReachWords)
      <4>1. CASE q.kind = "reg"
        BY <4>1
      <4>2. CASE q.kind # "reg"
        <5>1. q.at \in Int /\ q.at >= -ReachWords
          BY <1>1, <1>2, <1>3, <2>2, <4>2 DEF Valid, Frame
        <5>. QED BY <5>1, RegistersAssumption
      <4>. QED BY <4>1, <4>2
    <3>. QED BY <1>1, <1>8, <1>9, <3>1, <3>2
  <2>. QED BY <2>1, <2>2
<1>11. two.regs[s] = Holds(b)
  <2>1. At(one, q) = At(m, q)
    BY <1>2, <1>8 DEF At, Proper, Valid
  <2>. QED BY <1>2, <1>9, <2>1
<1>12. PICK first : first = See(two, a, r)
  OBVIOUS
<1>13. PICK n : n = See(first, b, s)
  OBVIOUS
<1>14. /\ Complete(first) /\ first.regs = two.regs /\ first.mem = two.mem
       /\ Honest(two) /\ two.regs[r] = Holds(a) => Honest(first)
  BY <1>9, <1>12, Noted
<1>15. /\ Complete(n) /\ n.regs = first.regs /\ n.mem = first.mem
       /\ Honest(first) /\ first.regs[s] = Holds(b) => Honest(n)
  BY <1>13, <1>14, Noted
<1>16. Honest(n)
  BY <1>8, <1>9, <1>10, <1>11, <1>14, <1>15 DEF Honest
<1>17. \A x : Proper(x) => At(n, x) = At(m, x)
  BY <1>8, <1>9, <1>14, <1>15 DEF At, Proper, Valid
<1>. QED BY <1>1, <1>2, <1>4, <1>5, <1>6, <1>7, <1>12, <1>13, <1>15, <1>16, <1>17 DEF BothOperands

-----------------------------------------------------------------------------
(* The places of the frame                                                  *)

StackArgAt(i) == StackPointer + i - Len(ArgRegs) - 1
ParamWordAt(i) == i - Len(ArgRegs) - 1

(***************************************************************************)
(* The words from sp up to the caller's last stack argument.               *)
(***************************************************************************)
LEMMA FrameWordsAre ==
    ASSUME Framed
    PROVE  /\ StackPointer \in Int /\ Frame \subseteq Int
           /\ \A w \in Int : StackPointer <= w /\ w <= -1 => w \in Frame
           /\ \A i \in 1..Len(fn.params) : i > Len(ArgRegs) => ParamWordAt(i) \in Frame /\ ParamWordAt(i) >= 0
<1>1. PICK top : top = Max({-1, Len(fn.params) - Len(ArgRegs) - 1})
  OBVIOUS
<1>2. Len(fn.params) \in Nat /\ Len(ArgRegs) \in Nat
  BY RegistersAssumption, ProgramAssumption DEF Framed
<1>3. top \in Int /\ top >= -1 /\ top >= Len(fn.params) - Len(ArgRegs) - 1
  <2>2. PICK S : S = {-1, Len(fn.params) - Len(ArgRegs) - 1}
    OBVIOUS
  <2>3. S \in SUBSET Int /\ S # {} /\ -1 \in S /\ (Len(fn.params) - Len(ArgRegs) - 1) \in S
    BY <1>2, <2>2
  <2>4. IsFiniteSet(S)
    <3>1. S = ({} \cup {-1}) \cup {Len(fn.params) - Len(ArgRegs) - 1}
      BY <2>2
    <3>. QED BY <3>1, FS_EmptySet, FS_AddElement
  <2>5. Max(S) \in S /\ \A y \in S : Max(S) >= y
    BY <2>3, <2>4, MaxOfFinite
  <2>. QED BY <1>1, <2>2, <2>3, <2>5
<1>4. Frame = StackPointer..top
  BY <1>1 DEF Frame
<1>5. StackPointer \in Int /\ BackupAt(1) \in Int /\ BackupAt(1) <= -2 /\ StackPointer <= -1
  <2>1. PICK L \in Nat, N \in Nat, B \in Nat : L = Len(Saved) /\ N = nextSlot /\ B = BackupSlots
    BY SavedFacts, BackupFacts DEF Framed
  <2>2. BackupAt(1) = -2 - L - N - B + (1 - 1)
    BY <2>1 DEF BackupAt
  <2>3. BackupAt(1) \in Int /\ BackupAt(1) <= -2
    BY <2>1, <2>2
  <2>4. PICK w \in Nat : w = BufferWords * Cardinality(Allocas)
    BY FrameFacts, RegistersAssumption
  <2>5. StackPointer \in Int /\ StackPointer <= BackupAt(1) - w
    BY <2>4, FrameFacts
  <2>. QED BY <2>3, <2>4, <2>5
<1>6. \A i \in 1..Len(fn.params) : i > Len(ArgRegs) => ParamWordAt(i) \in Frame /\ ParamWordAt(i) >= 0
  <2>. SUFFICES ASSUME NEW i \in 1..Len(fn.params), i > Len(ArgRegs)
                PROVE  ParamWordAt(i) \in Frame /\ ParamWordAt(i) >= 0
    OBVIOUS
  <2>1. ParamWordAt(i) = i - Len(ArgRegs) - 1
    BY DEF ParamWordAt
  <2>. QED BY <1>2, <1>3, <1>4, <1>5, <2>1
<1>. QED BY <1>3, <1>4, <1>5, <1>6

(***************************************************************************)
(* The slots of the backup area: apart from each other, below the saved    *)
(* registers, and above the words that carry stack arguments (select.rs:   *)
(* 83-107, 396-430).                                                       *)
(***************************************************************************)
LEMMA Shelves ==
    ASSUME Framed
    PROVE  /\ \A i \in 1..BackupSlots : BackupAt(i) \in Int /\ Proper(Word(BackupAt(i)))
           /\ \A i \in 1..BackupSlots : BackupAt(i) < -2 - Len(Saved)
           /\ \A i, j \in 1..BackupSlots : i < j => BackupAt(i) < BackupAt(j)
           /\ \A i \in 1..BackupSlots : i > Len(ArgRegs) =>
                 /\ StackArgAt(i) \in Int /\ Proper(OnTop(StackArgAt(i)))
                 /\ \A j \in i..BackupSlots : StackArgAt(i) < BackupAt(j)
           /\ \A i, j \in 1..BackupSlots : i < j => StackArgAt(i) < StackArgAt(j)
<1>1. PICK L \in Nat, N \in Nat, B \in Nat : L = Len(Saved) /\ N = nextSlot /\ B = BackupSlots
  BY SavedFacts, BackupFacts DEF Framed
<1>2. \A i \in Int : BackupAt(i) = -2 - L - N - B + (i - 1)
  BY <1>1 DEF BackupAt
<1>3. BackupAt(1) = -2 - L - N - B
  BY <1>2
<1>4. PICK w \in Nat : w = BufferWords * Cardinality(Allocas)
  BY FrameFacts, RegistersAssumption
<1>5. PICK sp \in Int : sp = StackPointer
  BY FrameFacts
<1>6. sp <= BackupAt(1) - w
  BY <1>4, <1>5, FrameFacts
<1>7. sp <= -2 - L - N - B
  BY <1>3, <1>4, <1>6
<1>8. PICK n \in Nat : n = Len(ArgRegs) /\ n >= 1
  BY RegistersAssumption
<1>9. \A i \in Int : StackArgAt(i) = sp + i - n - 1
  BY <1>5, <1>8 DEF StackArgAt
<1>10. ASSUME NEW i \in 1..BackupSlots
       PROVE  BackupAt(i) \in Int /\ BackupAt(i) < -2 - Len(Saved) /\ Proper(Word(BackupAt(i)))
  <2>1. BackupAt(i) = -2 - L - N - B + (i - 1) /\ i \in 1..B
    BY <1>1, <1>2
  <2>2. BackupAt(i) \in Int /\ BackupAt(i) < -2 - Len(Saved) /\ sp <= BackupAt(i) /\ BackupAt(i) <= -1
    BY <1>1, <1>7, <2>1
  <2>3. BackupAt(i) \in Frame
    BY <1>5, <2>2, FrameWordsAre
  <2>. QED BY <2>2, <2>3 DEF Proper, Valid, Word
<1>11. ASSUME NEW i \in 1..BackupSlots, i > Len(ArgRegs)
       PROVE  /\ StackArgAt(i) \in Int /\ Proper(OnTop(StackArgAt(i)))
              /\ \A j \in i..BackupSlots : StackArgAt(i) < BackupAt(j)
  <2>0. i \in 1..B /\ i \in Int /\ i > n
    BY <1>1, <1>8, <1>11
  <2>1. StackArgAt(i) = sp + i - n - 1 /\ i \in 1..B /\ i > n
    BY <1>9, <2>0
  <2>2. StackArgAt(i) \in Int /\ sp <= StackArgAt(i) /\ StackArgAt(i) <= -1
    BY <1>7, <1>8, <2>1
  <2>3. StackArgAt(i) \in Frame
    BY <1>5, <2>2, FrameWordsAre
  <2>4. ASSUME NEW j \in i..BackupSlots
        PROVE  StackArgAt(i) < BackupAt(j)
    <3>1. BackupAt(j) = -2 - L - N - B + (j - 1) /\ j \in i..B
      BY <1>1, <1>2
    <3>. QED BY <1>7, <1>8, <2>1, <3>1
  <2>. QED BY <2>2, <2>3, <2>4 DEF Proper, Valid, OnTop
<1>12. ASSUME NEW i \in 1..BackupSlots, NEW j \in 1..BackupSlots, i < j
       PROVE  BackupAt(i) < BackupAt(j) /\ StackArgAt(i) < StackArgAt(j)
  <2>1. i \in Int /\ j \in Int
    BY <1>1
  <2>2. /\ BackupAt(i) = -2 - L - N - B + (i - 1) /\ BackupAt(j) = -2 - L - N - B + (j - 1)
        /\ StackArgAt(i) = sp + i - n - 1 /\ StackArgAt(j) = sp + j - n - 1
    BY <1>2, <1>9, <2>1
  <2>. QED BY <1>12, <2>1, <2>2
<1>. QED BY <1>10, <1>11, <1>12

(***************************************************************************)
(* The home of a placed value is no scratch register, and its slot lies    *)
(* between the saved registers and the backup slots.                       *)
(***************************************************************************)
LEMMA HomesFit ==
    ASSUME Framed, NEW v, alloc[v] \in Places
    PROVE  /\ Proper(Home(v)) /\ Home(v).kind \in {"reg", "word"}
           /\ Home(v).kind = "word" => /\ Home(v).at \in Int /\ Home(v).at < -2 - Len(Saved)
                                       /\ \A i \in 1..BackupSlots : BackupAt(i) < Home(v).at
           /\ Home(v) = [kind |-> Home(v).kind, at |-> Home(v).at]
<1>1. CASE \E r \in ToSet(CallerPool) \cup usedCallee : alloc[v] = Scan!LS!InReg(r)
  <2>1. PICK r \in ToSet(CallerPool) \cup usedCallee : alloc[v] = Scan!LS!InReg(r)
    BY <1>1
  <2>2. Home(v) = Reg(r) /\ Home(v).kind = "reg" /\ Home(v).at = r
    BY <2>1 DEF Home, Reg, Scan!LS!InReg
  <2>3. r \in RegName /\ r \notin {"t0", "t1"}
    BY RegistersAssumption DEF RegName, Framed
  <2>. QED BY <2>2, <2>3 DEF Proper, Valid, Reg
<1>2. CASE \E n \in 0..(nextSlot - 1) : alloc[v] = Scan!LS!InSlot(n)
  <2>1. PICK n \in 0..(nextSlot - 1) : alloc[v] = Scan!LS!InSlot(n)
    BY <1>2
  <2>2. Home(v) = Word(SpillAt(n)) /\ Home(v).kind = "word" /\ Home(v).at = SpillAt(n)
    BY <2>1 DEF Home, Word, Scan!LS!InSlot
  <2>3. PICK L \in Nat, N \in Nat, B \in Nat : L = Len(Saved) /\ N = nextSlot /\ B = BackupSlots
    BY SavedFacts, BackupFacts DEF Framed
  <2>4. SpillAt(n) = -2 - L - (n + 1) /\ n \in 0..(N - 1)
    BY <2>3 DEF SpillAt
  <2>5. ASSUME NEW i \in 1..BackupSlots
        PROVE  BackupAt(i) < SpillAt(n)
    <3>1. BackupAt(i) = -2 - L - N - B + (i - 1) /\ i \in 1..B
      BY <2>3 DEF BackupAt
    <3>. QED BY <2>3, <2>4, <3>1
  <2>6. SpillAt(n) \in Int /\ SpillAt(n) < -2 - Len(Saved) /\ SpillAt(n) <= -1
    BY <2>3, <2>4
  <2>7. StackPointer <= SpillAt(n)
    <3>1. SpillAt(n) >= BackupAt(1) /\ BackupAt(1) \in Int /\ StackPointer \in Int
      BY FrameFacts
    <3>2. PICK w \in Nat : w = BufferWords * Cardinality(Allocas)
      BY FrameFacts, RegistersAssumption
    <3>3. StackPointer <= BackupAt(1) - w
      BY <3>2, FrameFacts
    <3>. QED BY <2>6, <3>1, <3>2, <3>3
  <2>8. SpillAt(n) \in Frame
    BY <2>6, <2>7, FrameWordsAre
  <2>. QED BY <2>2, <2>5, <2>6, <2>8 DEF Proper, Valid, Word
<1>. QED BY <1>1, <1>2 DEF Places

(***************************************************************************)
(* Two homes that differ are apart, and a home is apart from every place   *)
(* that is not for values.                                                 *)
(***************************************************************************)
LEMMA HomesElsewhere ==
    ASSUME Framed, NEW v, alloc[v] \in Places
    PROVE  /\ \A i \in 1..BackupSlots : /\ Apart(Home(v), Word(BackupAt(i)))
                                        /\ Apart(Word(BackupAt(i)), Home(v))
           /\ \A i \in 1..BackupSlots : i > Len(ArgRegs) => Apart(Home(v), OnTop(StackArgAt(i)))
           /\ \A w \in Int : w >= 0 => Apart(Word(w), Home(v))
           /\ \A w : alloc[w] \in Places /\ Home(v) # Home(w) => Apart(Home(v), Home(w))
<1>1. /\ Proper(Home(v)) /\ Home(v).kind \in {"reg", "word"}
      /\ Home(v).kind = "word" => /\ Home(v).at \in Int /\ Home(v).at < -2 - Len(Saved)
                                  /\ \A i \in 1..BackupSlots : BackupAt(i) < Home(v).at
      /\ Home(v) = [kind |-> Home(v).kind, at |-> Home(v).at]
  BY HomesFit
<1>2. \A i \in 1..BackupSlots : BackupAt(i) \in Int
  BY Shelves
<1>3. \A i \in 1..BackupSlots : Apart(Home(v), Word(BackupAt(i))) /\ Apart(Word(BackupAt(i)), Home(v))
  BY <1>1, <1>2 DEF Apart, Word
<1>4. ASSUME NEW i \in 1..BackupSlots, i > Len(ArgRegs)
      PROVE  Apart(Home(v), OnTop(StackArgAt(i)))
  <2>1. i \in i..BackupSlots
    BY BackupFacts
  <2>2. StackArgAt(i) \in Int /\ StackArgAt(i) < BackupAt(i) /\ BackupAt(i) \in Int
    BY <1>4, <2>1, Shelves
  <2>. QED BY <1>1, <2>2 DEF Apart, OnTop
<1>5. ASSUME NEW w \in Int, w >= 0
      PROVE  Apart(Word(w), Home(v))
  <2>1. Len(Saved) \in Nat
    BY SavedFacts
  <2>. QED BY <1>1, <1>5, <2>1 DEF Apart, Word
<1>6. ASSUME NEW w, alloc[w] \in Places, Home(v) # Home(w)
      PROVE  Apart(Home(v), Home(w))
  <2>1. Home(w).kind \in {"reg", "word"} /\ Home(w) = [kind |-> Home(w).kind, at |-> Home(w).at]
    BY <1>6, HomesFit
  <2>. QED BY <1>1, <1>6, <2>1 DEF Apart
<1>. QED BY <1>3, <1>4, <1>5, <1>6

-----------------------------------------------------------------------------
(* When two values are alive together                                       *)

\* The scan is over, and the function is one the lowering is made for.
Sound == /\ Framed /\ Settled /\ Given /\ queue = <<>> /\ HomesApart /\ CallsSpared
         /\ Strict(fn)

Live(v, b, k) == Idx(fn, b, k) \in LivePoints(fn, v)

\* The interval of v has i and i + 1 in it.
Covers(v, i) == start[v] <= i /\ i + 1 <= end[v]

(***************************************************************************)
(* Strict gives what the facts about live points ask for.                  *)
(***************************************************************************)
LEMMA StrictIs ==
    ASSUME NEW f \in Program, Strict(f)
    PROVE  /\ Laid(f) /\ Linked(f) /\ Once(f) /\ NoValue \notin Values(f)
           /\ \A b \in Block(f) : \A k \in 1..Size(f, b) :
                 \E x \in Insts(f) : x.inst = f.body[b][k] /\ x.idx = Idx(f, b, k)
<1>1. Laid(f) /\ Once(f) /\ NoValue \notin Values(f)
  BY ProgramLaid DEF Strict, Once
<1>2. ASSUME NEW b \in Block(f), NEW k \in 1..Size(f, b)
      PROVE  \E x \in Insts(f) : x.inst = f.body[b][k] /\ x.idx = Idx(f, b, k)
  <2>1. PICK x : x = [idx |-> Idx(f, b, k), block |-> b, inst |-> f.body[b][k]]
    OBVIOUS
  <2>2. x \in Insts(f)
    BY <1>1, <2>1, InstsAt
  <2>. QED BY <2>1, <2>2
<1>3. ASSUME NEW b \in Block(f)
      PROVE  Successors(f, b) \subseteq Block(f) /\ Last(f.body[b]).res = NoValue
  <2>1. Successors(f, b) \subseteq Block(f)
    BY ProgramAssumption
  <2>2. PICK k : k = Size(f, b)
    OBVIOUS
  <2>3. k \in 1..Size(f, b) /\ DOMAIN f.body[b] = 1..Size(f, b) /\ Last(f.body[b]) = f.body[b][k]
    BY <1>1, <2>2, Sizes, IdxRange
  <2>4. PICK x \in Insts(f) : x.inst = f.body[b][k]
    BY <1>2, <2>3
  <2>5. x.inst.op \in {"jmp", "br", "ret"}
    BY <2>2, <2>3, <2>4, InstructionAssumption DEF Size
  <2>6. x.inst.res = NoValue
    BY <2>5 DEF Strict
  <2>. QED BY <2>1, <2>3, <2>4, <2>6
<1>. QED BY <1>1, <1>2, <1>3 DEF Linked

(***************************************************************************)
(* The intervals the scan was given are those of the live sets.            *)
(***************************************************************************)
LEMMA IntervalsGiven ==
    ASSUME Given
    PROVE  \E liveIns, liveOuts :
              /\ LiveSets(fn, liveIns, liveOuts)
              /\ \A v \in Values(fn) : /\ start[v] = IntervalStart(fn, liveIns, v)
                                       /\ end[v] = IntervalEnd(fn, liveIns, liveOuts, v)
<1>. DEFINE live == UNION {{<<v, i>> : i \in LivePoints(fn, v)} : v \in Values(fn)}
            liveIn == [b \in Block(fn) |-> {v \in Values(fn) : <<v, FirstIndex(fn, b)>> \in live}]
            liveOut == [b \in Block(fn) |-> UNION {liveIn[s] : s \in Successors(fn, b)}]
<1>1. \A v \in Values(fn) : /\ start[v] = IntervalStart(fn, liveIn, v)
                            /\ end[v] = IntervalEnd(fn, liveIn, liveOut, v)
  BY DEF Given, Interval
<1>2. \A v \in Values(fn) : \A i : <<v, i>> \in live <=> i \in LivePoints(fn, v)
  OBVIOUS
<1>3. LiveSets(fn, liveIn, liveOut)
  <2>. HIDE DEF live
  <2>. QED BY <1>2 DEF LiveSets
<1>. HIDE DEF liveIn, liveOut
<1>. QED BY <1>1, <1>3

(***************************************************************************)
(* A value alive before the next instruction has both in its interval.     *)
(***************************************************************************)
LEMMA LiveCovers ==
    ASSUME Sound, NEW v \in Values(fn), NEW b \in Block(fn), NEW k \in 1..(Size(fn, b) - 1),
           Live(v, b, k + 1)
    PROVE  /\ Covers(v, Idx(fn, b, k)) /\ Idx(fn, b, k) \in Nat
           /\ Idx(fn, b, k + 1) = Idx(fn, b, k) + 1
<1>1. fn \in Program /\ Laid(fn) /\ Linked(fn) /\ Once(fn) /\ v # NoValue
  BY StrictIs DEF Sound, Framed
<1>2. PICK liveIns, liveOuts :
         /\ LiveSets(fn, liveIns, liveOuts)
         /\ \A u \in Values(fn) : /\ start[u] = IntervalStart(fn, liveIns, u)
                                  /\ end[u] = IntervalEnd(fn, liveIns, liveOuts, u)
  BY IntervalsGiven DEF Sound
<1>3. k \in 1..Size(fn, b)
  BY <1>1, Sizes
<1>4. Idx(fn, b, k) \in Nat /\ Idx(fn, b, k + 1) = Idx(fn, b, k) + 1
  BY <1>1, <1>3, IdxRange
<1>5. Idx(fn, b, k + 1) \in LivePoints(fn, v)
  BY DEF Live
<1>6. /\ IntervalStart(fn, liveIns, v) <= Idx(fn, b, k)
      /\ Idx(fn, b, k + 1) <= IntervalEnd(fn, liveIns, liveOuts, v)
  BY <1>1, <1>2, <1>5, LiveSpans
<1>. QED BY <1>2, <1>4, <1>6 DEF Covers

(***************************************************************************)
(* A result is in its interval, and when somebody reads it, so is what is  *)
(* past the phis that follow it.                                           *)
(***************************************************************************)
LEMMA ResultCovers ==
    ASSUME Sound, NEW b \in Block(fn), NEW k \in 1..(Size(fn, b) - 1),
           NEW v \in Values(fn), fn.body[b][k].res = v,
           NEW h \in (k + 1)..Size(fn, b), \A i \in (k + 1)..(h - 1) : fn.body[b][i].op = "phi"
    PROVE  /\ Idx(fn, b, k) \in Nat /\ Idx(fn, b, h) \in Nat /\ Idx(fn, b, k) < Idx(fn, b, h)
           /\ start[v] \in Nat /\ end[v] \in Nat
           /\ start[v] <= Idx(fn, b, k) /\ Idx(fn, b, k) <= end[v]
           /\ UseIndices(fn, v) # {} => Idx(fn, b, h) <= end[v]
<1>1. fn \in Program /\ Laid(fn) /\ Linked(fn) /\ Once(fn) /\ v # NoValue
  BY StrictIs DEF Sound, Framed
<1>2. PICK liveIns, liveOuts :
         /\ LiveSets(fn, liveIns, liveOuts)
         /\ \A u \in Values(fn) : /\ start[u] = IntervalStart(fn, liveIns, u)
                                  /\ end[u] = IntervalEnd(fn, liveIns, liveOuts, u)
  BY IntervalsGiven DEF Sound
<1>3. k \in 1..Size(fn, b) /\ h \in 1..Size(fn, b) /\ ~(h <= k)
  BY <1>1, Sizes
<1>4. Idx(fn, b, k) \in Nat /\ Idx(fn, b, h) \in Nat /\ Idx(fn, b, k) < Idx(fn, b, h)
  <2>1. /\ Idx(fn, b, k) \in 1..MaxIndexOf(fn) /\ Idx(fn, b, h) \in 1..MaxIndexOf(fn)
        /\ Idx(fn, b, h) <= Idx(fn, b, k) <=> h <= k
        /\ MaxIndexOf(fn) \in Nat
    BY <1>1, <1>3, IdxRange
  <2>. QED BY <1>3, <2>1
<1>5. DefIndex(fn, v) = Idx(fn, b, k) /\ v \in Listed(fn)
  BY <1>1, <1>3, DefIndexAt
<1>6. /\ start[v] \in Nat /\ end[v] \in Nat /\ start[v] <= Idx(fn, b, k) /\ Idx(fn, b, k) <= end[v]
  BY <1>1, <1>2, <1>5, IntervalReaches
<1>7. UseIndices(fn, v) # {} => Idx(fn, b, h) <= end[v]
  <2>. SUFFICES ASSUME UseIndices(fn, v) # {}
                PROVE  Idx(fn, b, h) <= end[v]
    OBVIOUS
  <2>1. After(fn, DefIndex(fn, v)) \cap LivePoints(fn, v) # {}
    BY <1>5 DEF Sound, Strict
  <2>2. Idx(fn, b, h) <= IntervalEnd(fn, liveIns, liveOuts, v)
    BY <1>1, <1>2, <2>1, ResultSpans
  <2>. QED BY <1>2, <2>2
<1>. QED BY <1>4, <1>6, <1>7

(***************************************************************************)
(* Values whose intervals overlap have homes apart.                        *)
(***************************************************************************)
LEMMA OverlapApart ==
    ASSUME Sound, NEW v \in Values(fn), NEW w \in Values(fn), v # w,
           ~(end[v] <= start[w]), ~(end[w] <= start[v])
    PROVE  Apart(Home(v), Home(w))
<1>1. alloc[v] \in Places /\ alloc[w] \in Places
  BY DEF Sound, Settled
<1>2. Home(v) # Home(w)
  BY DEF Sound, HomesApart
<1>. QED BY <1>1, <1>2, HomesElsewhere DEF Sound

(***************************************************************************)
(* Two values whose intervals have i and i + 1 in them.                    *)
(***************************************************************************)
LEMMA CoversApart ==
    ASSUME Sound, NEW v \in Values(fn), NEW w \in Values(fn), v # w, NEW i \in Nat,
           Covers(v, i), Covers(w, i)
    PROVE  Apart(Home(v), Home(w))
<1>1. /\ start[v] \in Nat /\ end[v] \in Nat /\ start[w] \in Nat /\ end[w] \in Nat
  <2>1. MaxIndexOf(fn) \in Nat
    BY ProgramLaid, IdxRange DEF Sound, Framed
  <2>. QED BY <2>1, GivenFacts DEF Sound
<1>2. ~(end[v] <= start[w]) /\ ~(end[w] <= start[v])
  BY <1>1 DEF Covers
<1>. QED BY <1>2, OverlapApart

(***************************************************************************)
(* A value alive after an instruction that is not its own is alive before. *)
(***************************************************************************)
LEMMA StaysLive ==
    ASSUME Sound, NEW w \in Values(fn), NEW b \in Block(fn), NEW k \in 1..(Size(fn, b) - 1),
           Live(w, b, k + 1), fn.body[b][k].res # w
    PROVE  Live(w, b, k)
<1>1. fn \in Program /\ Laid(fn) /\ Linked(fn) /\ w # NoValue
  BY StrictIs DEF Sound, Framed
<1>2. <<Idx(fn, b, k), Idx(fn, b, k + 1)>> \in FlowPast(fn, w)
  BY <1>1, FlowPastAt
<1>3. \A e \in FlowPast(fn, w) : e[2] \in LivePoints(fn, w) => e[1] \in LivePoints(fn, w)
  BY <1>1, LivePointsLeast
<1>. QED BY <1>2, <1>3 DEF Live

(***************************************************************************)
(* The result of an instruction has a home apart from that of every other  *)
(* value alive after it, whether anybody reads the result or not.          *)
(***************************************************************************)
LEMMA ResultApart ==
    ASSUME Sound, NEW b \in Block(fn), NEW k \in 1..(Size(fn, b) - 1),
           NEW v \in Values(fn), fn.body[b][k].res = v,
           NEW w \in Values(fn), w # v, Live(w, b, k + 1)
    PROVE  Apart(Home(w), Home(v))
<1>1. fn \in Program /\ Laid(fn) /\ Linked(fn) /\ Once(fn) /\ v # NoValue /\ w # NoValue
  BY StrictIs DEF Sound, Framed
<1>2. k \in 1..Size(fn, b) /\ k + 1 \in (k + 1)..Size(fn, b) /\ Size(fn, b) \in Nat
  BY <1>1, Sizes
<1>3. \A i \in (k + 1)..((k + 1) - 1) : fn.body[b][i].op = "phi"
  OBVIOUS
<1>4. /\ Idx(fn, b, k) \in Nat
      /\ start[v] \in Nat /\ end[v] \in Nat
      /\ start[v] <= Idx(fn, b, k) /\ Idx(fn, b, k) <= end[v]
      /\ UseIndices(fn, v) # {} => Idx(fn, b, k + 1) <= end[v]
  BY <1>2, <1>3, ResultCovers
<1>5. Covers(w, Idx(fn, b, k)) /\ Idx(fn, b, k + 1) = Idx(fn, b, k) + 1
  BY LiveCovers
<1>6. start[w] \in Nat /\ end[w] \in Nat
  <2>1. MaxIndexOf(fn) \in Nat
    BY <1>1, IdxRange
  <2>. QED BY <2>1, GivenFacts DEF Sound
<1>7. ~(end[w] <= start[v])
  BY <1>4, <1>5, <1>6 DEF Covers
<1>8. CASE UseIndices(fn, v) # {}
  <2>1. ~(end[v] <= start[w])
    BY <1>4, <1>5, <1>6, <1>8 DEF Covers
  <2>. QED BY <1>7, <2>1, OverlapApart
<1>9. CASE UseIndices(fn, v) = {}
  <2>1. Live(w, b, k)
    BY StaysLive
  <2>2. PICK liveIns, liveOuts :
           /\ LiveSets(fn, liveIns, liveOuts)
           /\ \A u \in Values(fn) : /\ start[u] = IntervalStart(fn, liveIns, u)
                                    /\ end[u] = IntervalEnd(fn, liveIns, liveOuts, u)
    BY IntervalsGiven DEF Sound
  <2>3. \/ \E i \in 1..(k - 1) : fn.body[b][i].res = w /\ start[w] <= Idx(fn, b, i)
        \/ /\ Idx(fn, b, 1) \in LivePoints(fn, w)
           /\ start[w] <= Idx(fn, b, 1)
    <3>1. Idx(fn, b, k) \in LivePoints(fn, w)
      BY <2>1 DEF Live
    <3>. QED BY <1>1, <1>2, <2>2, <3>1, Spans
  <2>4. /\ \A i \in 1..Size(fn, b) : Idx(fn, b, i) \in Nat
        /\ \A i \in 1..(k - 1) : Idx(fn, b, i) < Idx(fn, b, k)
        /\ FirstIndex(fn, b) = Idx(fn, b, 1)
    <3>1. \A i \in 1..Size(fn, b) : Idx(fn, b, i) \in Nat
      BY <1>1, IdxRange
    <3>2. ASSUME NEW i \in 1..(k - 1)
          PROVE  Idx(fn, b, i) < Idx(fn, b, k)
      <4>1. i \in 1..Size(fn, b) /\ ~(k <= i)
        BY <1>2
      <4>2. Idx(fn, b, k) <= Idx(fn, b, i) <=> k <= i
        BY <1>1, <1>2, <4>1, IdxRange
      <4>. QED BY <1>4, <3>1, <4>1, <4>2
    <3>. QED BY <1>1, <3>1, <3>2, IdxRange
  <2>5. start[w] < Idx(fn, b, k)
    <3>1. CASE \E i \in 1..(k - 1) : start[w] <= Idx(fn, b, i)
      <4>1. PICK i \in 1..(k - 1) : start[w] <= Idx(fn, b, i)
        BY <3>1
      <4>2. i \in 1..Size(fn, b)
        BY <1>2
      <4>. QED BY <1>4, <1>6, <2>4, <4>1, <4>2
    <3>2. CASE Idx(fn, b, 1) \in LivePoints(fn, w) /\ start[w] <= Idx(fn, b, 1)
      <4>1. CASE k # 1
        <5>1. 1 \in 1..(k - 1) /\ 1 \in 1..Size(fn, b)
          BY <1>2, <4>1
        <5>. QED BY <1>4, <1>6, <2>4, <3>2, <5>1
      <4>2. CASE k = 1
        <5>1. fn.body[b][1].res # NoValue /\ UseIndices(fn, fn.body[b][1].res) = {}
          BY <1>1, <1>9, <4>2
        <5>2. DefIndex(fn, w) < FirstIndex(fn, b)
          BY <2>4, <3>2, <5>1 DEF Sound, Strict
        <5>3. start[w] <= DefIndex(fn, w) /\ DefIndex(fn, w) \in Nat
          BY <1>1, <2>2, IntervalReaches, DefIndexAt, IdxRange
        <5>. QED BY <1>4, <1>6, <2>4, <4>2, <5>2, <5>3
      <4>. QED BY <4>1, <4>2
    <3>. QED BY <2>3, <3>1, <3>2
  <2>6. ~(end[v] <= start[w])
    BY <1>4, <1>6, <2>5
  <2>. QED BY <1>7, <2>6, OverlapApart
<1>. QED BY <1>8, <1>9

(***************************************************************************)
(* A value alive after a call is in no register the callee may write.      *)
(***************************************************************************)
LEMMA CallSpares ==
    ASSUME Sound, NEW b \in Block(fn), NEW k \in 1..(Size(fn, b) - 1), fn.body[b][k].op = "call",
           NEW w \in Values(fn), Live(w, b, k + 1), Home(w).kind = "reg"
    PROVE  Home(w).at \notin CallerClobbered
<1>1. Covers(w, Idx(fn, b, k)) /\ Idx(fn, b, k) \in Nat
  BY LiveCovers
<1>2. end[w] \in Nat
  <2>1. MaxIndexOf(fn) \in Nat
    BY ProgramLaid, IdxRange DEF Sound, Framed
  <2>. QED BY <2>1, GivenFacts DEF Sound
<1>3. Idx(fn, b, k) \in calls
  <2>1. k \in 1..Size(fn, b)
    BY ProgramLaid, Sizes DEF Sound, Framed
  <2>2. PICK x \in Insts(fn) : x.inst = fn.body[b][k] /\ x.idx = Idx(fn, b, k)
    BY <2>1, StrictIs DEF Sound, Framed
  <2>. QED BY <2>2 DEF Sound, Given, CallIndices
<1>4. start[w] <= Idx(fn, b, k) /\ Idx(fn, b, k) <= end[w]
  BY <1>1, <1>2 DEF Covers
<1>. QED BY <1>3, <1>4 DEF Sound, CallsSpared

(***************************************************************************)
(* What an instruction reads is alive before it.                           *)
(***************************************************************************)
LEMMA OperandsLive ==
    ASSUME Sound, NEW b \in Block(fn), NEW k \in 1..Size(fn, b), fn.body[b][k].op # "phi",
           NEW v \in ToSet(fn.body[b][k].args)
    PROVE  v \in Values(fn) /\ Live(v, b, k)
<1>1. fn \in Program /\ Laid(fn) /\ Linked(fn) /\ NoValue \notin Values(fn)
  BY StrictIs DEF Sound, Framed
<1>2. PICK x \in Insts(fn) : x.inst = fn.body[b][k] /\ x.idx = Idx(fn, b, k)
  BY StrictIs DEF Sound, Framed
<1>3. v \in Values(fn)
  BY <1>2 DEF Sound, Strict
<1>4. Idx(fn, b, k) \in UseIndices(fn, v)
  BY <1>1, UsesAt
<1>5. UseIndices(fn, v) \subseteq LivePoints(fn, v)
  BY <1>1, <1>3, LivePointsLeast
<1>. QED BY <1>3, <1>4, <1>5 DEF Live

(***************************************************************************)
(* All parameters are alive at the entry, so their homes are apart; nothing*)
(* else is alive there.                                                    *)
(***************************************************************************)
LEMMA ParamsApart ==
    ASSUME Sound
    PROVE  /\ \A v, w \in ToSet(fn.params) : v # w => Apart(Home(v), Home(w))
           /\ \A v \in Values(fn) : Live(v, 1, 1) => v \in ToSet(fn.params)
           /\ ToSet(fn.params) \subseteq Values(fn)
<1>1. fn \in Program /\ Laid(fn) /\ Linked(fn) /\ Once(fn) /\ NoValue \notin Values(fn)
  BY StrictIs DEF Sound, Framed
<1>2. ToSet(fn.params) \subseteq Values(fn)
  BY DEF Values
<1>3. PICK liveIns, liveOuts :
         /\ LiveSets(fn, liveIns, liveOuts)
         /\ \A u \in Values(fn) : /\ start[u] = IntervalStart(fn, liveIns, u)
                                  /\ end[u] = IntervalEnd(fn, liveIns, liveOuts, u)
  BY IntervalsGiven DEF Sound
<1>4. ASSUME NEW v \in ToSet(fn.params)
      PROVE  Covers(v, 0)
  <2>1. v \in Values(fn) /\ v # NoValue /\ v \notin Listed(fn) /\ UseIndices(fn, v) # {}
    BY <1>1, <1>2 DEF Sound, Strict
  <2>2. DefIndex(fn, v) = 0
    BY <1>1, <2>1, DefIndexAt
  <2>3. PICK i \in UseIndices(fn, v) : TRUE
    BY <2>1
  <2>4. i \in 1..MaxIndexOf(fn) /\ MaxIndexOf(fn) \in Nat
    BY <1>1, <2>3, UsesAt, IdxRange
  <2>5. /\ start[v] \in Nat /\ end[v] \in Nat /\ start[v] <= 0 /\ i <= end[v]
    BY <1>1, <1>3, <2>1, <2>2, <2>3, IntervalReaches
  <2>. QED BY <2>4, <2>5 DEF Covers
<1>5. ASSUME NEW v \in Values(fn), Live(v, 1, 1)
      PROVE  v \in ToSet(fn.params)
  <2>1. 1 \in Block(fn)
    BY <1>1, Sizes
  <2>2. Idx(fn, 1, 1) = 1
    BY <1>1, <2>1, Numbering, IdxRange
  <2>. QED BY <1>5, <2>2 DEF Live, Sound, Strict
<1>. QED BY <1>2, <1>4, <1>5, CoversApart

-----------------------------------------------------------------------------
(* Instructions that go on to the next one                                  *)

LiveAt(b, k) == {v \in Values(fn) : Live(v, b, k)}

\* Every value alive before instruction k of b is at home.
Ready(m, b, k) == /\ Complete(m) /\ Honest(m)
                  /\ \A v \in LiveAt(b, k) : At(m, Home(v)) = Holds(v)

(***************************************************************************)
(* Homes are places.                                                       *)
(***************************************************************************)
LEMMA HomesProper ==
    ASSUME Sound
    PROVE  \A v \in Values(fn) : Proper(Home(v)) /\ alloc[v] \in Places
BY HomesFit DEF Sound, Settled

(***************************************************************************)
(* An instruction that defines its result last.                            *)
(***************************************************************************)
LEMMA ResultReady ==
    ASSUME Sound, NEW b \in Block(fn), NEW k \in 1..(Size(fn, b) - 1),
           NEW v \in Values(fn), fn.body[b][k].res = v,
           NEW m, Ready(m, b, k), NEW scratch \in {"t0", "t1"}
    PROVE  Ready(Result(m, v, scratch), b, k + 1)
<1>1. PICK n : n = Result(m, v, scratch)
  OBVIOUS
<1>2. Proper(Home(v)) /\ Complete(m) /\ Honest(m)
  BY HomesProper DEF Ready
<1>3. /\ Complete(n) /\ n.seen = m.seen /\ At(n, Home(v)) = Holds(v)
      /\ \A q, w : /\ Proper(q) /\ Apart(q, Home(v)) /\ w # v /\ At(m, q) = Holds(w)
                   => At(n, q) = Holds(w)
  BY <1>1, <1>2, ResultDone
<1>4. ASSUME NEW w \in Values(fn), Live(w, b, k + 1), w # v
      PROVE  At(n, Home(w)) = Holds(w)
  <2>1. Live(w, b, k)
    BY <1>4, StaysLive
  <2>2. At(m, Home(w)) = Holds(w)
    BY <2>1 DEF Ready, LiveAt
  <2>3. Apart(Home(w), Home(v)) /\ Proper(Home(w))
    BY <1>4, ResultApart, HomesProper
  <2>. QED BY <1>3, <1>4, <2>2, <2>3
<1>5. Honest(n)
  BY <1>2, <1>3 DEF Honest
<1>. QED BY <1>1, <1>3, <1>4, <1>5 DEF Ready, LiveAt

(***************************************************************************)
(* An instruction without a result.                                        *)
(***************************************************************************)
LEMMA PassedReady ==
    ASSUME Sound, NEW b \in Block(fn), NEW k \in 1..(Size(fn, b) - 1), fn.body[b][k].res = NoValue,
           NEW m, Ready(m, b, k)
    PROVE  Ready(m, b, k + 1)
<1>1. NoValue \notin Values(fn)
  BY StrictIs DEF Sound, Framed
<1>2. \A w \in LiveAt(b, k + 1) : w \in LiveAt(b, k)
  BY <1>1, StaysLive DEF LiveAt
<1>. QED BY <1>2 DEF Ready

(***************************************************************************)
(* A machine that has what another has in the proper places.               *)
(***************************************************************************)
LEMMA SameReady ==
    ASSUME Sound, NEW b, NEW k, NEW m, Ready(m, b, k),
           NEW n, Complete(n), Honest(n), \A q : Proper(q) => At(n, q) = At(m, q)
    PROVE  Ready(n, b, k)
BY HomesProper DEF Ready, LiveAt

(***************************************************************************)
(* Reading one operand, or two.                                            *)
(***************************************************************************)
LEMMA OperandReady ==
    ASSUME Sound, NEW b \in Block(fn), NEW k \in 1..Size(fn, b), fn.body[b][k].op # "phi",
           NEW v \in ToSet(fn.body[b][k].args), NEW m, Ready(m, b, k)
    PROVE  Ready(Operand(m, v, "t0"), b, k)
<1>1. v \in Values(fn) /\ v \in LiveAt(b, k)
  BY OperandsLive DEF LiveAt
<1>2. /\ Complete(m) /\ Honest(m) /\ Proper(Home(v)) /\ At(m, Home(v)) = Holds(v)
  BY <1>1, HomesProper DEF Ready
<1>3. PICK n : n = Operand(m, v, "t0")
  OBVIOUS
<1>4. Complete(n) /\ Honest(n) /\ \A q : Proper(q) => At(n, q) = At(m, q)
  BY <1>2, <1>3, OperandRead
<1>. QED BY <1>3, <1>4, SameReady

(***************************************************************************)
(* Both operands, where their homes allow it.                              *)
(***************************************************************************)
LEMMA BothReady ==
    ASSUME Sound, NEW b \in Block(fn), NEW k \in 1..Size(fn, b), fn.body[b][k].op # "phi",
           NEW u \in ToSet(fn.body[b][k].args), NEW v \in ToSet(fn.body[b][k].args),
           Home(u).kind = "reg" \/ Home(v).kind = "reg" \/ Home(v).at >= -ReachWords,
           NEW m, Ready(m, b, k)
    PROVE  Ready(BothOperands(m, u, v), b, k)
<1>1. u \in Values(fn) /\ u \in LiveAt(b, k) /\ v \in Values(fn) /\ v \in LiveAt(b, k)
  BY OperandsLive DEF LiveAt
<1>2. /\ Complete(m) /\ Honest(m) /\ Proper(Home(u)) /\ At(m, Home(u)) = Holds(u)
      /\ Proper(Home(v)) /\ At(m, Home(v)) = Holds(v)
  BY <1>1, HomesProper DEF Ready
<1>3. PICK n : n = BothOperands(m, u, v)
  OBVIOUS
<1>4. Complete(n) /\ Honest(n) /\ \A q : Proper(q) => At(n, q) = At(m, q)
  BY <1>2, <1>3, BothRead
<1>. QED BY <1>3, <1>4, SameReady

(***************************************************************************)
(* Where a call puts its arguments.                                        *)
(***************************************************************************)
ArgPlace(i) == IF i <= Len(ArgRegs) THEN Reg(ArgRegs[i]) ELSE OnTop(StackPointer + i - Len(ArgRegs) - 1)
ArgVia(i)   == IF i <= Len(ArgRegs) THEN ArgRegs[i] ELSE "t0"

Backups(args) == [i \in 1..Len(args) |-> Pass(args[i], Word(BackupAt(i)), NoValue)]
Passes(args)  == [i \in 1..Len(args) |-> Copy(Word(BackupAt(i)), ArgVia(i), ArgPlace(i))]

\* The machine when control is in the callee.
AtCallee(m, args) == Run(Run(m, Backups(args)), Passes(args))

Arrived(m, args) == {<<Holds(args[i]), IF i <= Len(ArgRegs) THEN m.regs[ArgRegs[i]]
                                       ELSE m.mem[ArgPlace(i).at]>> : i \in DOMAIN args}

\* And when it comes back.
Returned(m, args) == [m EXCEPT
    !.regs = [r \in RegName |-> IF r \in CallerClobbered THEN Junk ELSE m.regs[r]],
    !.seen = @ \cup Arrived(m, args)]

(***************************************************************************)
(* The places of the arguments are proper, apart, and no backup slot that  *)
(* is still to be read.                                                    *)
(***************************************************************************)
LEMMA ArgPlaces ==
    ASSUME Framed
    PROVE  /\ \A i \in 1..BackupSlots :
                 /\ Proper(ArgPlace(i))
                 /\ ArgVia(i) = "t0" \/ ArgPlace(i) = Reg(ArgVia(i))
           /\ \A i \in 1..BackupSlots : \A j \in 1..(i - 1) :
                 /\ Apart(Word(BackupAt(i)), ArgPlace(j))
                 /\ Apart(ArgPlace(j), ArgPlace(i))
           /\ \A v : \A i \in 1..BackupSlots :
                 /\ alloc[v] \in Places
                 /\ Home(v).kind = "reg" => Home(v).at \notin CallerClobbered
                 => Apart(Home(v), ArgPlace(i))
           /\ \A r \in ToSet(ArgRegs) : r \in CallerClobbered /\ r \in RegName
<1>1. PICK B \in Nat : B = BackupSlots
  BY BackupFacts
<1>2. PICK n \in Nat : n = Len(ArgRegs)
  BY RegistersAssumption
<1>3. \A i \in 1..n : /\ ArgRegs[i] \in ToSet(ArgRegs)
                      /\ \A j \in 1..n : i # j => ArgRegs[i] # ArgRegs[j]
  <2>1. DOMAIN ArgRegs = 1..n /\ IsInjective(ArgRegs)
    BY <1>2, RegistersAssumption
  <2>. QED BY <2>1 DEF ToSet, IsInjective
<1>4. \A r \in ToSet(ArgRegs) : r \in CallerClobbered /\ r \in RegName /\ r \notin {"t0", "t1"}
  BY RegistersAssumption DEF CallerClobbered, RegName
<1>5. ASSUME NEW i \in 1..BackupSlots
      PROVE  /\ Proper(ArgPlace(i))
             /\ ArgVia(i) = "t0" \/ ArgPlace(i) = Reg(ArgVia(i))
  <2>1. CASE i <= n
    <3>1. i \in 1..n
      BY <1>1, <2>1
    <3>2. ArgPlace(i) = Reg(ArgRegs[i]) /\ ArgVia(i) = ArgRegs[i]
      BY <1>2, <2>1 DEF ArgPlace, ArgVia
    <3>. QED BY <1>3, <1>4, <3>1, <3>2 DEF Proper, Valid, Reg
  <2>2. CASE ~(i <= n)
    <3>1. ArgPlace(i) = OnTop(StackArgAt(i)) /\ ArgVia(i) = "t0"
      BY <1>2, <2>2 DEF ArgPlace, ArgVia, StackArgAt
    <3>2. i > Len(ArgRegs)
      BY <1>1, <1>2, <2>2
    <3>. QED BY <3>1, <3>2, Shelves
  <2>. QED BY <2>1, <2>2
<1>6. ASSUME NEW i \in 1..BackupSlots, NEW j \in 1..(i - 1)
      PROVE  /\ Apart(Word(BackupAt(i)), ArgPlace(j))
             /\ Apart(ArgPlace(j), ArgPlace(i))
  <2>1. j \in 1..BackupSlots /\ i \in j..BackupSlots /\ j < i
    BY <1>1
  <2>2. CASE j <= n
    <3>1. ArgPlace(j) = Reg(ArgRegs[j])
      BY <1>2, <2>2 DEF ArgPlace
    <3>2. CASE i <= n
      <4>1. ArgPlace(i) = Reg(ArgRegs[i])
        BY <1>2, <3>2 DEF ArgPlace
      <4>2. i \in 1..n /\ j \in 1..n /\ i # j
        BY <1>1, <2>1, <2>2, <3>2
      <4>. QED BY <1>3, <3>1, <4>1, <4>2 DEF Apart, Reg, Word
    <3>3. CASE ~(i <= n)
      <4>1. ArgPlace(i) = OnTop(StackArgAt(i))
        BY <1>2, <3>3 DEF ArgPlace, StackArgAt
      <4>. QED BY <3>1, <4>1 DEF Apart, Reg, Word, OnTop
    <3>. QED BY <3>2, <3>3
  <2>3. CASE ~(j <= n)
    <3>1. ArgPlace(j) = OnTop(StackArgAt(j))
      BY <1>2, <2>3 DEF ArgPlace, StackArgAt
    <3>2. j > Len(ArgRegs) /\ ~(i <= n) /\ i > Len(ArgRegs)
      BY <1>1, <1>2, <2>1, <2>3
    <3>3. ArgPlace(i) = OnTop(StackArgAt(i))
      BY <1>2, <3>2 DEF ArgPlace, StackArgAt
    <3>4. /\ StackArgAt(j) \in Int /\ StackArgAt(i) \in Int /\ BackupAt(i) \in Int
          /\ StackArgAt(j) < BackupAt(i) /\ StackArgAt(j) < StackArgAt(i)
      BY <2>1, <3>2, Shelves
    <3>. QED BY <3>1, <3>3, <3>4 DEF Apart, Word, OnTop
  <2>. QED BY <2>2, <2>3
<1>7. ASSUME NEW v, NEW i \in 1..BackupSlots, alloc[v] \in Places,
             Home(v).kind = "reg" => Home(v).at \notin CallerClobbered
      PROVE  Apart(Home(v), ArgPlace(i))
  <2>1. CASE i <= n
    <3>1. ArgPlace(i) = Reg(ArgRegs[i]) /\ i \in 1..n
      BY <1>1, <1>2, <2>1 DEF ArgPlace
    <3>. QED BY <1>3, <1>4, <1>7, <3>1 DEF Apart, Reg
  <2>2. CASE ~(i <= n)
    <3>1. ArgPlace(i) = OnTop(StackArgAt(i)) /\ i > Len(ArgRegs)
      BY <1>1, <1>2, <2>2 DEF ArgPlace, StackArgAt
    <3>. QED BY <1>7, <3>1, HomesElsewhere
  <2>. QED BY <2>1, <2>2
<1>. QED BY <1>4, <1>5, <1>6, <1>7

(***************************************************************************)
(* Each argument is in its place when control is in the callee, and the    *)
(* values in places the callee leaves alone are still there.               *)
(***************************************************************************)
LEMMA ArgumentsArrive ==
    ASSUME Sound, NEW args, NEW k \in Nat, k = Len(args), k <= BackupSlots,
           NEW m, Complete(m), Honest(m),
           \A i \in 1..k : args[i] \in Values(fn) /\ At(m, Home(args[i])) = Holds(args[i])
    PROVE  /\ Complete(AtCallee(m, args)) /\ Honest(AtCallee(m, args))
           /\ \A i \in 1..k : At(AtCallee(m, args), ArgPlace(i)) = Holds(args[i])
           /\ \A w \in Values(fn) :
                 (Home(w).kind = "reg" => Home(w).at \notin CallerClobbered)
                 => At(AtCallee(m, args), Home(w)) = At(m, Home(w))
<1>1. Framed /\ \A v \in Values(fn) : Proper(Home(v)) /\ alloc[v] \in Places
  BY HomesProper DEF Sound
<1>2. \A i \in 1..k : i \in 1..BackupSlots
  BY BackupFacts, <1>1
<1>3. PICK backup : backup = Backups(args)
  OBVIOUS
<1>4. Len(backup) = k /\ \A i \in 1..k : backup[i] = Pass(args[i], Word(BackupAt(i)), NoValue)
  BY <1>3 DEF Backups
<1>5. \A i \in 1..k : /\ backup[i].from = Home(args[i]) /\ backup[i].to = Word(BackupAt(i))
                      /\ backup[i].via = "t0" /\ backup[i].value = args[i] /\ backup[i].phi = NoValue
  BY <1>4, PassHas
<1>6. \A i \in 1..k : Fit(backup[i]) /\ Right(m, backup[i])
  BY <1>1, <1>2, <1>5, Shelves DEF Fit, Right
<1>7. ASSUME NEW i \in 1..k, NEW j \in 1..(i - 1)
      PROVE  Apart(backup[i].from, backup[j].to) /\ Apart(backup[j].to, backup[i].to)
  <2>1. j \in 1..k /\ j < i
    OBVIOUS
  <2>2. Apart(Home(args[i]), Word(BackupAt(j)))
    BY <1>1, <1>2, <2>1, HomesElsewhere
  <2>3. BackupAt(j) < BackupAt(i) /\ BackupAt(j) \in Int /\ BackupAt(i) \in Int
    BY <1>1, <1>2, <2>1, Shelves
  <2>4. Apart(Word(BackupAt(j)), Word(BackupAt(i)))
    BY <2>3 DEF Apart, Word
  <2>. QED BY <1>5, <2>1, <2>2, <2>4
<1>8. PICK mid : mid = Run(m, backup)
  OBVIOUS
<1>9. Complete(mid) /\ \A q : (Proper(q) /\ \A i \in 1..k : Apart(q, backup[i].to)) => At(mid, q) = At(m, q)
  BY <1>4, <1>6, <1>8, RunSpares
<1>10. Honest(mid) /\ \A i \in 1..k : At(mid, backup[i].to) = Brought(m, backup[i])
  BY <1>4, <1>6, <1>7, <1>8, RunDoes
<1>11. \A i \in 1..k : At(mid, Word(BackupAt(i))) = Holds(args[i])
  BY <1>5, <1>10 DEF Brought
<1>12. \A w \in Values(fn) : At(mid, Home(w)) = At(m, Home(w))
  BY <1>1, <1>2, <1>5, <1>9, HomesElsewhere
<1>13. PICK pass : pass = Passes(args)
  OBVIOUS
<1>14. Len(pass) = k /\ \A i \in 1..k : pass[i] = Copy(Word(BackupAt(i)), ArgVia(i), ArgPlace(i))
  BY <1>13 DEF Passes
<1>15. \A i \in 1..k : /\ pass[i].from = Word(BackupAt(i)) /\ pass[i].to = ArgPlace(i)
                       /\ pass[i].via = ArgVia(i) /\ pass[i].value = NoValue /\ pass[i].phi = NoValue
  BY <1>14, CopyHas
<1>16. \A i \in 1..k : Fit(pass[i]) /\ Right(mid, pass[i])
  BY <1>1, <1>2, <1>15, Shelves, ArgPlaces DEF Fit, Right
<1>17. ASSUME NEW i \in 1..k, NEW j \in 1..(i - 1)
       PROVE  Apart(pass[i].from, pass[j].to) /\ Apart(pass[j].to, pass[i].to)
  <2>1. j \in 1..k
    OBVIOUS
  <2>2. Apart(Word(BackupAt(i)), ArgPlace(j)) /\ Apart(ArgPlace(j), ArgPlace(i))
    BY <1>1, <1>2, ArgPlaces
  <2>. QED BY <1>15, <2>1, <2>2
<1>18. PICK n : n = Run(mid, pass)
  OBVIOUS
<1>19. Complete(n) /\ \A q : (Proper(q) /\ \A i \in 1..k : Apart(q, pass[i].to)) => At(n, q) = At(mid, q)
  BY <1>9, <1>14, <1>16, <1>18, RunSpares
<1>20. Honest(n) /\ \A i \in 1..k : At(n, pass[i].to) = Brought(mid, pass[i])
  BY <1>9, <1>10, <1>14, <1>16, <1>17, <1>18, RunDoes
<1>21. \A i \in 1..k : At(n, ArgPlace(i)) = Holds(args[i])
  BY <1>11, <1>15, <1>20 DEF Brought
<1>22. ASSUME NEW w \in Values(fn), Home(w).kind = "reg" => Home(w).at \notin CallerClobbered
       PROVE  At(n, Home(w)) = At(m, Home(w))
  <2>1. \A i \in 1..k : Apart(Home(w), ArgPlace(i))
    BY <1>1, <1>2, <1>22, ArgPlaces
  <2>. QED BY <1>1, <1>12, <1>15, <1>19, <2>1
<1>23. AtCallee(m, args) = n
  BY <1>3, <1>8, <1>13, <1>18 DEF AtCallee
<1>. QED BY <1>19, <1>20, <1>21, <1>22, <1>23

(***************************************************************************)
(* The machine when control is back.                                       *)
(***************************************************************************)
LEMMA CallReturns ==
    ASSUME Sound, NEW args, NEW k \in Nat, k = Len(args), DOMAIN args = 1..k, k <= BackupSlots,
           NEW m, Complete(m), Honest(m),
           \A i \in 1..k : At(m, ArgPlace(i)) = Holds(args[i])
    PROVE  /\ Complete(Returned(m, args)) /\ Honest(Returned(m, args))
           /\ \A w \in Values(fn) :
                 (Home(w).kind = "reg" => Home(w).at \notin CallerClobbered)
                 => At(Returned(m, args), Home(w)) = At(m, Home(w))
<1>1. PICK arrived : arrived = Arrived(m, args)
  OBVIOUS
<1>2. PICK n : n = Returned(m, args)
  OBVIOUS
<1>3. n = [regs |-> [r \in RegName |-> IF r \in CallerClobbered THEN Junk ELSE m.regs[r]],
           mem |-> m.mem, seen |-> m.seen \cup arrived]
  BY <1>1, <1>2 DEF Returned, Complete
<1>4. /\ n.regs = [r \in RegName |-> IF r \in CallerClobbered THEN Junk ELSE m.regs[r]]
      /\ n.mem = m.mem /\ n.seen = m.seen \cup arrived
  BY <1>3
<1>5. Complete(n)
  BY <1>3, <1>4 DEF Complete
<1>6. ASSUME NEW i \in 1..k
      PROVE  (IF i <= Len(ArgRegs) THEN m.regs[ArgRegs[i]] ELSE m.mem[ArgPlace(i).at]) = Holds(args[i])
  <2>1. CASE i <= Len(ArgRegs)
    <3>1. ArgPlace(i) = Reg(ArgRegs[i])
      BY <2>1 DEF ArgPlace
    <3>. QED BY <2>1, <3>1 DEF At, Reg
  <2>2. CASE ~(i <= Len(ArgRegs))
    <3>1. ArgPlace(i).kind = "sp"
      BY <2>2 DEF ArgPlace, OnTop
    <3>. QED BY <2>2, <3>1 DEF At
  <2>. QED BY <2>1, <2>2
<1>7. \A s \in arrived : s[1] = s[2]
  <2>. SUFFICES ASSUME NEW s \in arrived PROVE s[1] = s[2]
    OBVIOUS
  <2>1. PICK i \in 1..k : s = <<Holds(args[i]), IF i <= Len(ArgRegs) THEN m.regs[ArgRegs[i]]
                                                ELSE m.mem[ArgPlace(i).at]>>
    BY <1>1 DEF Arrived
  <2>. QED BY <1>6, <2>1
<1>8. Honest(n)
  BY <1>4, <1>7 DEF Honest
<1>9. ASSUME NEW w \in Values(fn), Home(w).kind = "reg" => Home(w).at \notin CallerClobbered
      PROVE  At(n, Home(w)) = At(m, Home(w))
  <2>1. Proper(Home(w))
    BY HomesProper
  <2>. QED BY <1>4, <1>9, <2>1 DEF At, Proper, Valid
<1>. QED BY <1>2, <1>5, <1>8, <1>9

(***************************************************************************)
(* A call: its result arrives in the first argument register.              *)
(***************************************************************************)
LEMMA CallReady ==
    ASSUME Sound, NEW b \in Block(fn), NEW k \in 1..(Size(fn, b) - 1), fn.body[b][k].op = "call",
           NEW m, Ready(m, b, k)
    PROVE  Ready(Call(m, fn.body[b][k]), b, k + 1)
<1>1. PICK inst : inst = fn.body[b][k]
  OBVIOUS
<1>2. PICK args : args = inst.args
  OBVIOUS
<1>3. fn \in Program /\ Laid(fn) /\ Framed /\ NoValue \notin Values(fn)
  BY StrictIs DEF Sound, Framed
<1>4. k \in 1..Size(fn, b) /\ DOMAIN fn.body[b] = 1..Size(fn, b)
  BY <1>3, Sizes
<1>5. PICK x \in Insts(fn) : x.inst = inst
  BY <1>1, <1>3, <1>4, StrictIs DEF Sound
<1>6. PICK n \in Nat : n = Len(args) /\ DOMAIN args = 1..n /\ n <= BackupSlots
  <2>1. args \in Seq(ToSet(args))
    BY <1>1, <1>2, <1>3, <1>4, InstructionAssumption
  <2>2. x \in CallSites
    BY <1>1, <1>5 DEF CallSites
  <2>3. Len(args) <= BackupSlots
    BY <1>2, <1>3, <1>5, <2>2, BackupFacts
  <2>. QED BY <2>1, <2>3
<1>7. Complete(m) /\ Honest(m) /\ \A v \in LiveAt(b, k) : At(m, Home(v)) = Holds(v)
  BY DEF Ready
<1>8. \A i \in 1..n : args[i] \in Values(fn) /\ At(m, Home(args[i])) = Holds(args[i])
  <2>1. \A i \in 1..n : args[i] \in ToSet(args)
    BY <1>6 DEF ToSet
  <2>2. \A i \in 1..n : args[i] \in Values(fn) /\ Live(args[i], b, k)
    BY <1>1, <1>2, <1>4, <2>1, OperandsLive
  <2>. QED BY <1>7, <2>2 DEF LiveAt
<1>9. PICK passed : passed = AtCallee(m, args)
  OBVIOUS
<1>10. /\ Complete(passed) /\ Honest(passed)
       /\ \A i \in 1..n : At(passed, ArgPlace(i)) = Holds(args[i])
       /\ \A w \in Values(fn) :
             (Home(w).kind = "reg" => Home(w).at \notin CallerClobbered)
             => At(passed, Home(w)) = At(m, Home(w))
  BY <1>6, <1>7, <1>8, <1>9, ArgumentsArrive
<1>11. PICK back : back = Returned(passed, args)
  OBVIOUS
<1>12. /\ Complete(back) /\ Honest(back)
       /\ \A w \in Values(fn) :
             (Home(w).kind = "reg" => Home(w).at \notin CallerClobbered)
             => At(back, Home(w)) = At(passed, Home(w))
  BY <1>6, <1>10, <1>11, CallReturns
<1>13. ASSUME NEW w \in Values(fn), Live(w, b, k + 1), w # inst.res
       PROVE  At(back, Home(w)) = Holds(w)
  <2>1. Home(w).kind = "reg" => Home(w).at \notin CallerClobbered
    BY <1>13, CallSpares
  <2>2. w \in LiveAt(b, k)
    BY <1>1, <1>13, StaysLive DEF LiveAt
  <2>. QED BY <1>7, <1>10, <1>12, <2>1, <2>2
<1>14. Call(m, inst) = IF inst.res = NoValue THEN back
                       ELSE Put(Define(back, inst.res, ArgRegs[1]), Home(inst.res), ArgRegs[1])
  <2>. DEFINE Dest(i) == IF i <= Len(ArgRegs) THEN Reg(ArgRegs[i])
                         ELSE OnTop(StackPointer + i - Len(ArgRegs) - 1)
  <2>. DEFINE a == inst.args
  <2>. DEFINE first == [i \in 1..Len(a) |-> Pass(a[i], Word(BackupAt(i)), NoValue)]
  <2>. DEFINE second == [i \in 1..Len(a) |->
                  Copy(Word(BackupAt(i)), IF i <= Len(ArgRegs) THEN ArgRegs[i] ELSE "t0", Dest(i))]
  <2>. DEFINE after == Run(Run(m, first), second)
  <2>. DEFINE read == {<<Holds(a[i]), IF i <= Len(ArgRegs) THEN after.regs[ArgRegs[i]]
                                     ELSE after.mem[Dest(i).at]>> : i \in DOMAIN a}
  <2>. DEFINE returned == [after EXCEPT
                   !.regs = [r \in RegName |-> IF r \in CallerClobbered THEN Junk ELSE after.regs[r]],
                   !.seen = @ \cup read]
  <2>1. Call(m, inst) = IF inst.res = NoValue THEN returned
                        ELSE Put(Define(returned, inst.res, ArgRegs[1]), Home(inst.res), ArgRegs[1])
    BY DEF Call
  <2>2. first = Backups(args) /\ second = Passes(args)
    BY <1>2 DEF Backups, Passes, ArgVia, ArgPlace
  <2>3. after = passed
    <3>. HIDE DEF first, second
    <3>. QED BY <1>9, <2>2 DEF AtCallee
  <2>4. read = Arrived(passed, args)
    <3>. HIDE DEF after
    <3>. QED BY <1>2, <2>3 DEF Arrived, ArgPlace
  <2>5. returned = back
    <3>. HIDE DEF after, read
    <3>. QED BY <1>11, <2>3, <2>4 DEF Returned
  <2>. HIDE DEF returned
  <2>. QED BY <2>1, <2>5
<1>15. CASE inst.res = NoValue
  <2>1. \A w \in LiveAt(b, k + 1) : At(back, Home(w)) = Holds(w)
    BY <1>3, <1>13, <1>15 DEF LiveAt
  <2>. QED BY <1>1, <1>12, <1>14, <1>15, <2>1 DEF Ready
<1>16. CASE inst.res # NoValue
  <2>1. PICK v : v = inst.res
    OBVIOUS
  <2>2. v \in Values(fn)
    BY <1>1, <1>3, <1>4, <1>16, <2>1, InstIsListed
  <2>3. PICK r : r = ArgRegs[1]
    OBVIOUS
  <2>4. r \in RegName /\ r \in CallerClobbered /\ r \notin {"t0", "t1"}
    <3>1. r \in ToSet(ArgRegs)
      <4>1. 1 \in DOMAIN ArgRegs
        BY RegistersAssumption
      <4>. QED BY <2>3, <4>1 DEF ToSet
    <3>. QED BY <1>3, <3>1, ArgPlaces, RegistersAssumption
  <2>5. PICK defined : defined = Define(back, v, r)
    OBVIOUS
  <2>6. /\ Complete(defined) /\ defined.seen = back.seen /\ defined.regs[r] = Holds(v)
        /\ \A q, w : /\ Proper(q) /\ (q.kind = "reg" => q.at # r) /\ w # v /\ At(back, q) = Holds(w)
                     => At(defined, q) = Holds(w)
    BY <1>12, <2>4, <2>5, Defined
  <2>7. PICK home : home = Home(v)
    OBVIOUS
  <2>8. Proper(home) /\ Valid(home)
    BY <2>2, <2>7, HomesProper DEF Proper
  <2>9. PICK put : put = Put(defined, home, r)
    OBVIOUS
  <2>10. /\ Complete(put) /\ put.seen = defined.seen /\ At(put, home) = defined.regs[r]
         /\ \A q : Proper(q) /\ Apart(q, home) => At(put, q) = At(defined, q)
    BY <2>4, <2>6, <2>8, <2>9, PutThere
  <2>11. ASSUME NEW w \in Values(fn), Live(w, b, k + 1), w # v
         PROVE  At(put, Home(w)) = Holds(w)
    <3>1. At(back, Home(w)) = Holds(w)
      BY <1>13, <2>1, <2>11
    <3>2. Proper(Home(w)) /\ (Home(w).kind = "reg" => Home(w).at # r)
      BY <2>4, <2>11, CallSpares, HomesProper
    <3>3. At(defined, Home(w)) = Holds(w)
      BY <2>6, <2>11, <3>1, <3>2
    <3>4. Apart(Home(w), Home(v))
      BY <1>1, <2>1, <2>2, <2>11, ResultApart
    <3>. QED BY <2>7, <2>10, <3>2, <3>3, <3>4
  <2>12. \A w \in LiveAt(b, k + 1) : At(put, Home(w)) = Holds(w)
    BY <2>6, <2>7, <2>10, <2>11 DEF LiveAt
  <2>13. Honest(put)
    BY <1>12, <2>6, <2>10 DEF Honest
  <2>14. Ready(put, b, k + 1)
    BY <2>10, <2>12, <2>13 DEF Ready
  <2>15. Call(m, inst) = put
    BY <1>14, <1>16, <2>1, <2>3, <2>5, <2>7, <2>9
  <2>. QED BY <1>1, <2>14, <2>15
<1>. QED BY <1>15, <1>16

(***************************************************************************)
(* The arguments an instruction has.                                       *)
(***************************************************************************)
LEMMA ArgsAre ==
    ASSUME Sound, NEW b \in Block(fn), NEW k \in 1..Size(fn, b)
    PROVE  LET inst == fn.body[b][k] IN
           /\ \E x \in Insts(fn) : x.inst = inst
           /\ inst.op \in {"not", "load", "br", "add", "cmp", "store"} => inst.args[1] \in ToSet(inst.args)
           /\ inst.args # <<>> => inst.args[1] \in ToSet(inst.args)
           /\ inst.op \in {"add", "cmp", "store"} => inst.args[2] \in ToSet(inst.args)
           /\ inst.op \in {"store", "jmp", "br", "ret"} => inst.res = NoValue
           /\ inst.op \in {"const", "alloca", "not", "load", "add", "cmp"} => inst.res \in Values(fn)
<1>1. PICK inst : inst = fn.body[b][k]
  OBVIOUS
<1>2. fn \in Program /\ Laid(fn) /\ Strict(fn)
  BY ProgramLaid DEF Sound, Framed
<1>3. k \in DOMAIN fn.body[b]
  BY <1>2, Sizes
<1>4. PICK x \in Insts(fn) : x.inst = inst
  BY <1>1, <1>2, StrictIs
<1>5. inst.args \in Seq(ToSet(inst.args))
  BY <1>1, <1>2, <1>3, InstructionAssumption
<1>6. inst.args # <<>> => inst.args[1] \in ToSet(inst.args)
  <2>1. inst.args # <<>> => 1 \in DOMAIN inst.args
    BY <1>5
  <2>. QED BY <2>1 DEF ToSet
<1>7. Len(inst.args) >= 2 => inst.args[1] \in ToSet(inst.args) /\ inst.args[2] \in ToSet(inst.args)
  <2>1. Len(inst.args) >= 2 => 1 \in DOMAIN inst.args /\ 2 \in DOMAIN inst.args
    BY <1>5
  <2>. QED BY <2>1 DEF ToSet
<1>8. inst.op \in {"const", "alloca", "not", "load", "add", "cmp"} => inst.res \in Values(fn)
  BY <1>1, <1>2, <1>3, InstIsListed
<1>9. /\ inst.op \in {"not", "load", "br"} => inst.args # <<>>
      /\ inst.op \in {"add", "cmp", "store"} => Len(inst.args) >= 2
      /\ inst.op \in {"store", "jmp", "br", "ret"} => inst.res = NoValue
  BY <1>2, <1>4 DEF Strict
<1>. QED BY <1>1, <1>4, <1>6, <1>7, <1>8, <1>9

(***************************************************************************)
(* An instruction that goes on to the next one leaves a machine ready for  *)
(* it.                                                                     *)
(***************************************************************************)
LEMMA StraightReady ==
    ASSUME Sound, PairsInReach, block \in Block(fn), next \in 1..(Size(fn, block) - 1),
           Ready(Machine, block, next), Straight
    PROVE  \E m : Becomes(m) /\ Ready(m, block, next + 1)
<1>1. PICK inst : inst = fn.body[block][next]
  OBVIOUS
<1>2. PICK args : args = inst.args
  OBVIOUS
<1>3. PICK m : m = Machine
  OBVIOUS
<1>4. next \in 1..Size(fn, block) /\ Ready(m, block, next) /\ Inst = inst
  <2>1. Size(fn, block) \in Nat
    BY ProgramLaid, Sizes DEF Sound, Framed
  <2>. QED BY <1>1, <1>3, <2>1 DEF Inst
<1>5. PICK x \in Insts(fn) : x.inst = inst
  BY <1>1, <1>4, ArgsAre
<1>6. /\ inst.op \in {"not", "load", "add", "cmp", "store"} => args[1] \in ToSet(args)
      /\ inst.op \in {"add", "cmp", "store"} => args[2] \in ToSet(args)
      /\ inst.op = "store" => inst.res = NoValue
      /\ inst.op \in {"const", "alloca", "not", "load", "add", "cmp"} => inst.res \in Values(fn)
  BY <1>1, <1>2, <1>4, ArgsAre
<1>7. inst.op \in {"add", "cmp", "store"} =>
         Home(args[1]).kind = "reg" \/ Home(args[2]).kind = "reg" \/ Home(args[2]).at >= -ReachWords
  BY <1>2, <1>5 DEF PairsInReach
<1>8. "t0" \in {"t0", "t1"} /\ "t1" \in {"t0", "t1"}
  OBVIOUS
<1>9. CASE inst.op \in {"const", "alloca"} /\ Becomes(Nullary(m, inst.res))
  <2>1. Ready(Result(m, inst.res, "t0"), block, next + 1)
    BY <1>1, <1>4, <1>6, <1>8, <1>9, ResultReady
  <2>. QED BY <1>9, <2>1 DEF Nullary
<1>10. CASE inst.op \in {"not", "load"} /\ Becomes(Unary(m, inst.res, args[1]))
  <2>1. PICK read : read = Operand(m, args[1], "t0")
    OBVIOUS
  <2>2. Ready(read, block, next)
    BY <1>1, <1>2, <1>4, <1>6, <1>10, <2>1, OperandReady
  <2>3. Ready(Result(read, inst.res, "t1"), block, next + 1)
    BY <1>1, <1>4, <1>6, <1>8, <1>10, <2>2, ResultReady
  <2>. QED BY <1>10, <2>1, <2>3 DEF Unary
<1>11. CASE inst.op \in {"add", "cmp"} /\ Becomes(Binary(m, inst.res, args[1], args[2]))
  <2>1. PICK read : read = BothOperands(m, args[1], args[2])
    OBVIOUS
  <2>2. Ready(read, block, next)
    BY <1>1, <1>2, <1>4, <1>6, <1>7, <1>11, <2>1, BothReady
  <2>3. Ready(Result(read, inst.res, "t0"), block, next + 1)
    BY <1>1, <1>4, <1>6, <1>8, <1>11, <2>2, ResultReady
  <2>. QED BY <1>11, <2>1, <2>3 DEF Binary
<1>12. CASE inst.op = "store" /\ Becomes(BothOperands(m, args[1], args[2]))
  <2>1. PICK read : read = BothOperands(m, args[1], args[2])
    OBVIOUS
  <2>2. Ready(read, block, next)
    BY <1>1, <1>2, <1>4, <1>6, <1>7, <1>12, <2>1, BothReady
  <2>3. Ready(read, block, next + 1)
    BY <1>1, <1>6, <1>12, <2>2, PassedReady
  <2>. QED BY <1>12, <2>1, <2>3
<1>13. CASE inst.op = "call" /\ Becomes(Call(m, inst))
  BY <1>1, <1>4, <1>13, CallReady
<1>. QED BY <1>2, <1>3, <1>4, <1>9, <1>10, <1>11, <1>12, <1>13 DEF Straight

-----------------------------------------------------------------------------
(* Edges                                                                    *)

(***************************************************************************)
(* The phis of a block are its first instructions, and all of them have an *)
(* operand for an edge to it.                                              *)
(***************************************************************************)
LEMMA PhisFirst ==
    ASSUME Sound, NEW b \in Block(fn), NEW n, n = Len(Phis(fn, b))
    PROVE  /\ n \in Nat /\ n + 1 \in 1..Size(fn, b) /\ n <= BackupSlots
           /\ Phis(fn, b) \in Seq(ToSet(fn.body[b]))
           /\ \A i \in 1..n : /\ Phis(fn, b)[i] = fn.body[b][i] /\ fn.body[b][i].op = "phi"
                              /\ fn.body[b][i].res \in Values(fn)
           /\ \A p \in Block(fn) : b \in Successors(fn, p) => Taking(p, b) = Phis(fn, b)
<1>1. fn \in Program /\ Laid(fn) /\ Strict(fn) /\ Framed
  BY ProgramLaid DEF Sound, Framed
<1>2. PICK l : l = fn.body[b]
  OBVIOUS
<1>3. PICK L \in Nat : L = Len(l) /\ L = Size(fn, b) /\ l \in Seq(ToSet(l)) /\ DOMAIN l = 1..L
  BY <1>1, <1>2, Sizes DEF Laid, Size
<1>4. PICK S : S = {i \in ToSet(l) : i.op = "phi"}
  OBVIOUS
<1>5. Phis(fn, b) = Keep(l, S)
  BY <1>2, <1>4 DEF Phis
<1>6. PICK P : P = {0} \cup {j \in 1..L : l[j].op = "phi"}
  OBVIOUS
<1>7. PICK m \in 0..L : m \in P /\ \A j \in P : m >= j
  <2>1. P \in SUBSET (0..L) /\ P # {}
    BY <1>6
  <2>. QED BY <2>1, MaxExists
<1>8. \A i \in 1..m : l[i].op = "phi"
  <2>. SUFFICES ASSUME NEW i \in 1..m PROVE l[i].op = "phi"
    OBVIOUS
  <2>1. m \in 1..L /\ l[m].op = "phi" /\ i \in 1..L
    BY <1>6, <1>7
  <2>2. CASE i = m
    BY <2>1, <2>2
  <2>3. CASE i < m
    BY <1>1, <1>2, <1>3, <2>1, <2>3 DEF Strict
  <2>. QED BY <2>2, <2>3
<1>9. \A i \in (m + 1)..L : l[i].op # "phi"
  BY <1>6, <1>7
<1>10. \A i \in 1..L : l[i] \in ToSet(l)
  BY <1>3 DEF ToSet
<1>11. /\ \A i \in 1..m : l[i] \in S
       /\ \A i \in (m + 1)..L : l[i] \notin S
  BY <1>4, <1>8, <1>9, <1>10
<1>12. Len(Keep(l, S)) = m /\ \A i \in 1..m : Keep(l, S)[i] = l[i]
  BY <1>3, <1>11, KeepFront
<1>13. n = m /\ \A i \in 1..n : Phis(fn, b)[i] = l[i]
  BY <1>5, <1>12
<1>14. Phis(fn, b) \in Seq(ToSet(l)) /\ n + 1 \in DOMAIN l /\ n <= BackupSlots
  BY <1>1, <1>2, PhiFacts, BackupFacts
<1>15. \A i \in 1..n : l[i].res \in Values(fn)
  <2>. SUFFICES ASSUME NEW i \in 1..n PROVE l[i].res \in Values(fn)
    OBVIOUS
  <2>1. i \in DOMAIN l /\ l[i].op = "phi"
    BY <1>3, <1>7, <1>8, <1>13
  <2>. QED BY <1>1, <1>2, <2>1, InstIsListed
<1>16. ASSUME NEW p \in Block(fn), b \in Successors(fn, p)
       PROVE  Taking(p, b) = Phis(fn, b)
  <2>1. PICK q \in Seq(ToSet(l)) : q = Phis(fn, b) /\ Len(q) = n
    BY <1>14
  <2>2. PICK T : T = {i \in ToSet(q) : ComesFrom(i, p)}
    OBVIOUS
  <2>3. Taking(p, b) = Keep(q, T)
    BY <2>1, <2>2 DEF Taking
  <2>4. n \in 0..Len(q) /\ \A i \in 1..n : q[i] \in ToSet(q)
    <3>1. n \in Nat /\ DOMAIN q = 1..n
      BY <1>7, <1>13, <2>1
    <3>. QED BY <2>1, <3>1 DEF ToSet
  <2>5. \A i \in ToSet(q) : ComesFrom(i, p)
    BY <1>1, <1>16, <2>1 DEF Strict
  <2>6. /\ \A i \in 1..n : q[i] \in T
        /\ \A i \in (n + 1)..Len(q) : q[i] \notin T
    BY <2>1, <2>2, <2>4, <2>5
  <2>7. PICK r : r = Keep(q, T)
    OBVIOUS
  <2>8. r \in Seq(ToSet(l)) /\ Len(r) = n /\ \A i \in 1..n : r[i] = q[i]
    BY <2>1, <2>4, <2>6, <2>7, KeepFront, KeepFacts
  <2>9. r = q
    BY <2>1, <2>8
  <2>. QED BY <2>1, <2>3, <2>7, <2>9
<1>. QED BY <1>2, <1>3, <1>7, <1>8, <1>13, <1>14, <1>15, <1>16

(***************************************************************************)
(* The operand a phi takes on an edge is alive where the edge leaves.      *)
(***************************************************************************)
LEMMA IncomingLive ==
    ASSUME Sound, NEW p \in Block(fn), NEW b \in Block(fn), b \in Successors(fn, p),
           NEW i \in 1..Len(Phis(fn, b)), NEW v, v = Incoming(Phis(fn, b)[i], p)
    PROVE  v \in Values(fn) /\ Live(v, p, Size(fn, p))
<1>1. fn \in Program /\ Laid(fn) /\ Linked(fn) /\ Strict(fn) /\ NoValue \notin Values(fn)
  BY StrictIs DEF Sound, Framed
<1>2. PICK n : n = Len(Phis(fn, b))
  OBVIOUS
<1>3. PICK phi : phi = fn.body[b][i]
  OBVIOUS
<1>4. n \in Nat /\ i \in 1..Size(fn, b) /\ phi = Phis(fn, b)[i] /\ phi.op = "phi"
  <2>1. n \in Nat /\ n + 1 \in 1..Size(fn, b) /\ Size(fn, b) \in Nat
    BY <1>1, <1>2, PhisFirst, Sizes
  <2>2. i \in 1..n
    BY <1>2
  <2>3. Phis(fn, b)[i] = fn.body[b][i] /\ fn.body[b][i].op = "phi"
    BY <1>2, <2>2, PhisFirst
  <2>4. i \in 1..Size(fn, b)
    <3>1. PICK s \in Nat : s = Size(fn, b)
      BY <2>1
    <3>. QED BY <2>1, <2>2, <3>1
  <2>. QED BY <1>3, <2>1, <2>3, <2>4
<1>5. PICK x \in Insts(fn) : x.inst = phi
  <2>1. PICK k \in 1..Size(fn, b) : k = i /\ phi = fn.body[b][k]
    BY <1>3, <1>4
  <2>2. PICK y \in Insts(fn) : y.inst = fn.body[b][k] /\ y.idx = Idx(fn, b, k)
    BY <1>1, <2>1, StrictIs
  <2>. QED BY <2>1, <2>2
<1>6. phi.from \in Seq(Block(fn)) /\ Len(phi.from) = Len(phi.args) /\ ToSet(phi.args) \subseteq Values(fn)
  BY <1>1, <1>4, <1>5 DEF Strict
<1>7. phi.args \in Seq(ToSet(phi.args))
  <2>1. i \in DOMAIN fn.body[b]
    BY <1>1, <1>4, Sizes
  <2>. QED BY <1>1, <1>3, <2>1, InstructionAssumption
<1>8. PICK I : I = {k \in 1..Len(phi.from) : phi.from[k] = p}
  OBVIOUS
<1>9. I # {}
  <2>1. phi \in ToSet(Phis(fn, b))
    <3>1. i \in DOMAIN Phis(fn, b)
      BY <1>2, PhisFirst
    <3>. QED BY <1>4, <3>1 DEF ToSet
  <2>2. p \in ToSet(phi.from)
    BY <1>1, <2>1 DEF Strict, ComesFrom
  <2>3. PICK k \in DOMAIN phi.from : phi.from[k] = p
    BY <2>2 DEF ToSet
  <2>. QED BY <1>6, <1>8, <2>3
<1>10. PICK k : k = Min(I)
  OBVIOUS
<1>11. k \in I
  <2>1. PICK m \in Nat : m = Len(phi.from)
    BY <1>6
  <2>2. I \in SUBSET (0..m)
    BY <1>8, <2>1
  <2>. QED BY <1>9, <1>10, <2>1, <2>2, MinExists
<1>12. v = phi.args[k]
  BY <1>4, <1>8, <1>9, <1>10 DEF Incoming, SelectInSeq
<1>13. k \in DOMAIN phi.args /\ phi.from[k] = p
  BY <1>6, <1>7, <1>8, <1>11
<1>14. v \in Values(fn)
  BY <1>6, <1>12, <1>13 DEF ToSet
<1>15. v \in PhiOperands(fn, p)
  BY <1>4, <1>5, <1>12, <1>13, <1>14 DEF PhiOperands
<1>16. Idx(fn, p, Size(fn, p)) \in LivePoints(fn, v)
  BY <1>1, <1>14, <1>15, UsesAt, LivePointsLeast
<1>. QED BY <1>14, <1>16 DEF Live

(***************************************************************************)
(* The results of the phis of a block have homes apart from each other and *)
(* from that of any other value alive past the phis, which is alive before *)
(* every edge to the block, too.                                           *)
(***************************************************************************)
LEMMA PhiHomesApart ==
    ASSUME Sound, NEW b \in Block(fn), NEW n, n = Len(Phis(fn, b))
    PROVE  /\ \A i \in 1..n : \A j \in 1..(i - 1) :
                 Apart(Home(fn.body[b][j].res), Home(fn.body[b][i].res))
           /\ \A w \in LiveAt(b, n + 1) : (\A i \in 1..n : w # fn.body[b][i].res) =>
                 /\ \A i \in 1..n : Apart(Home(w), Home(fn.body[b][i].res))
                 /\ \A p \in Block(fn) : b \in Successors(fn, p) => w \in LiveAt(p, Size(fn, p))
<1>1. fn \in Program /\ Laid(fn) /\ Linked(fn) /\ Once(fn) /\ Strict(fn) /\ NoValue \notin Values(fn)
  BY StrictIs DEF Sound, Framed
<1>2. /\ n \in Nat /\ n + 1 \in 1..Size(fn, b) /\ Size(fn, b) \in Nat
      /\ \A i \in 1..n : fn.body[b][i].op = "phi" /\ fn.body[b][i].res \in Values(fn)
  BY <1>1, PhisFirst, Sizes
<1>3. PICK s \in Nat : s = Size(fn, b)
  BY <1>2
<1>4. \A i \in 1..n : i \in 1..(Size(fn, b) - 1) /\ n + 1 \in (i + 1)..Size(fn, b) /\ i \in 1..Size(fn, b) /\ n \in 1..(Size(fn, b) - 1) /\ n \in 1..Size(fn, b)
  BY <1>2, <1>3
<1>5. ASSUME NEW i \in 1..n
      PROVE  Covers(fn.body[b][i].res, Idx(fn, b, n)) /\ Idx(fn, b, n) \in Nat
  <2>1. PICK v : v = fn.body[b][i].res
    OBVIOUS
  <2>2. v \in Values(fn) /\ UseIndices(fn, v) # {}
    <3>1. PICK k \in 1..Size(fn, b) : k = i /\ v = fn.body[b][k].res /\ fn.body[b][k].op = "phi"
      BY <1>2, <1>4, <2>1
    <3>2. PICK y \in Insts(fn) : y.inst = fn.body[b][k] /\ y.idx = Idx(fn, b, k)
      BY <1>1, <3>1, StrictIs
    <3>3. y.inst.op = "phi" /\ y.inst.res = v
      BY <3>1, <3>2
    <3>. QED BY <1>1, <1>2, <2>1, <3>3 DEF Strict
  <2>3. \A j \in (i + 1)..((n + 1) - 1) : fn.body[b][j].op = "phi"
    BY <1>2
  <2>4. i \in 1..(Size(fn, b) - 1) /\ n + 1 \in (i + 1)..Size(fn, b)
    BY <1>4
  <2>5. start[v] <= Idx(fn, b, i) /\ Idx(fn, b, n + 1) <= end[v] /\ start[v] \in Nat
    BY <2>1, <2>2, <2>3, <2>4, ResultCovers
  <2>6. /\ Idx(fn, b, i) \in Nat /\ Idx(fn, b, n) \in Nat /\ Idx(fn, b, i) <= Idx(fn, b, n)
        /\ Idx(fn, b, n + 1) = Idx(fn, b, n) + 1
    <3>1. i \in 1..Size(fn, b) /\ n \in 1..Size(fn, b) /\ i <= n
      BY <1>2, <1>4
    <3>2. Idx(fn, b, i) <= Idx(fn, b, n) <=> i <= n
      BY <1>1, <3>1, IdxRange
    <3>. QED BY <1>1, <3>1, <3>2, IdxRange
  <2>. QED BY <2>1, <2>5, <2>6 DEF Covers
<1>6. ASSUME NEW i \in 1..n, NEW j \in 1..(i - 1)
      PROVE  Apart(Home(fn.body[b][j].res), Home(fn.body[b][i].res))
  <2>1. j \in 1..n /\ i # j
    BY <1>2
  <2>2. PICK v, u : v = fn.body[b][i].res /\ u = fn.body[b][j].res
    OBVIOUS
  <2>3. v \in Values(fn) /\ u \in Values(fn) /\ v # NoValue
    BY <1>1, <1>2, <2>1, <2>2
  <2>4. u # v
    <3>1. SUFFICES ASSUME u = v PROVE FALSE
      OBVIOUS
    <3>2. i \in 1..Size(fn, b) /\ j \in 1..Size(fn, b)
      BY <1>4, <2>1
    <3>3. DefIndex(fn, v) = Idx(fn, b, i) /\ DefIndex(fn, v) = Idx(fn, b, j)
      BY <1>1, <2>2, <2>3, <3>1, <3>2, DefIndexAt
    <3>. QED BY <1>1, <2>1, <3>2, <3>3, IdxUnique
  <2>5. Covers(v, Idx(fn, b, n)) /\ Covers(u, Idx(fn, b, n)) /\ Idx(fn, b, n) \in Nat
    BY <1>5, <2>1, <2>2
  <2>. QED BY <2>2, <2>3, <2>4, <2>5, CoversApart
<1>7. ASSUME NEW w \in LiveAt(b, n + 1), \A i \in 1..n : w # fn.body[b][i].res
      PROVE  /\ \A i \in 1..n : Apart(Home(w), Home(fn.body[b][i].res))
             /\ \A p \in Block(fn) : b \in Successors(fn, p) => w \in LiveAt(p, Size(fn, p))
  <2>1. w \in Values(fn) /\ w # NoValue /\ Live(w, b, n + 1)
    BY <1>1 DEF LiveAt
  <2>2. ASSUME NEW i \in 1..n
        PROVE  Apart(Home(w), Home(fn.body[b][i].res))
    <3>1. n \in 1..(Size(fn, b) - 1)
      BY <1>4
    <3>2. Covers(w, Idx(fn, b, n))
      BY <2>1, <3>1, LiveCovers
    <3>. QED BY <1>2, <1>5, <1>7, <2>1, <3>2, CoversApart
  <2>3. Idx(fn, b, 1) \in LivePoints(fn, w)
    <3>1. 1 \in 1..Size(fn, b) /\ n + 1 \in 1..Size(fn, b)
      BY <1>2, <1>3
    <3>2. \A i \in 1..((n + 1) - 1) : fn.body[b][i].res # w
      BY <1>2, <1>7
    <3>3. Idx(fn, b, n + 1) \in LivePoints(fn, w)
      BY <2>1 DEF Live
    <3>. QED BY <1>1, <2>1, <3>1, <3>2, <3>3, BackInBlock
  <2>4. ASSUME NEW p \in Block(fn), b \in Successors(fn, p)
        PROVE  w \in LiveAt(p, Size(fn, p))
    <3>1. <<Idx(fn, p, Size(fn, p)), Idx(fn, b, 1)>> \in FlowPast(fn, w)
      BY <1>1, <2>1, <2>4, FlowPastAt
    <3>2. \A e \in FlowPast(fn, w) : e[2] \in LivePoints(fn, w) => e[1] \in LivePoints(fn, w)
      BY <1>1, <2>1, LivePointsLeast
    <3>. QED BY <2>1, <2>3, <3>1, <3>2 DEF LiveAt, Live
  <2>. QED BY <2>2, <2>4
<1>. QED BY <1>6, <1>7

(***************************************************************************)
(* The moves of an edge: what is coming for each phi is in its home, and   *)
(* the other values stay where they are (select.rs:232-278).               *)
(***************************************************************************)
LEMMA EdgeMovesDo ==
    ASSUME Sound, NEW p \in Block(fn), NEW b \in Block(fn), b \in Successors(fn, p),
           NEW m, Ready(m, p, Size(fn, p)), NEW n, n = Len(Phis(fn, b))
    PROVE  /\ Complete(EdgeMoves(m, p, b)) /\ Honest(EdgeMoves(m, p, b))
           /\ \A i \in 1..n : At(EdgeMoves(m, p, b), Home(fn.body[b][i].res)) = Coming(fn.body[b][i].res)
           /\ \A w \in LiveAt(b, n + 1) : (\A i \in 1..n : w # fn.body[b][i].res) =>
                 At(EdgeMoves(m, p, b), Home(w)) = Holds(w)
<1>1. /\ Framed /\ \A v \in Values(fn) : Proper(Home(v)) /\ alloc[v] \in Places
      /\ NoValue \notin Values(fn)
  BY HomesProper, StrictIs DEF Sound, Framed
<1>2. /\ n \in Nat /\ n <= BackupSlots
      /\ Taking(p, b) = Phis(fn, b)
      /\ \A i \in 1..n : Phis(fn, b)[i] = fn.body[b][i] /\ fn.body[b][i].res \in Values(fn)
  BY PhisFirst
<1>3. \A i \in 1..n : i \in 1..BackupSlots
  BY <1>1, <1>2, BackupFacts
<1>. DEFINE Res(i) == fn.body[b][i].res
            From(i) == Incoming(fn.body[b][i], p)
<1>4. /\ Complete(m) /\ Honest(m)
      /\ \A i \in 1..n : From(i) \in Values(fn) /\ At(m, Home(From(i))) = Holds(From(i))
  <2>1. \A i \in 1..n : From(i) \in Values(fn) /\ Live(From(i), p, Size(fn, p))
    BY <1>2, IncomingLive
  <2>. QED BY <2>1 DEF Ready, LiveAt
<1>5. PICK read : read = [i \in 1..n |-> Pass(From(i), Word(BackupAt(i)), Res(i))]
  OBVIOUS
<1>6. PICK write : write = [i \in 1..n |-> Copy(Word(BackupAt(i)), "t0", Home(Res(i)))]
  OBVIOUS
<1>7. EdgeMoves(m, p, b) = Run(Run(m, read), write)
  <2>. DEFINE phis == Taking(p, b)
              first == [i \in 1..Len(phis) |-> Pass(Incoming(phis[i], p), Word(BackupAt(i)), phis[i].res)]
              second == [i \in 1..Len(phis) |-> Copy(Word(BackupAt(i)), "t0", Home(phis[i].res))]
  <2>1. EdgeMoves(m, p, b) = Run(Run(m, first), second)
    BY DEF EdgeMoves
  <2>2. first = read /\ second = write
    <3>1. Len(phis) = n /\ \A i \in 1..n : phis[i] = fn.body[b][i]
      BY <1>2
    <3>. HIDE DEF phis
    <3>. QED BY <1>5, <1>6, <3>1
  <2>. HIDE DEF first, second
  <2>. QED BY <2>1, <2>2
<1>. HIDE DEF Res, From
<1>8. \A i \in 1..n : Res(i) \in Values(fn) /\ Res(i) # NoValue
  BY <1>1, <1>2 DEF Res
<1>9. Len(read) = n /\ \A i \in 1..n : /\ read[i].from = Home(From(i)) /\ read[i].to = Word(BackupAt(i))
                                       /\ read[i].via = "t0" /\ read[i].value = From(i)
                                       /\ read[i].phi = Res(i)
  BY <1>2, <1>5, PassHas
<1>10. Len(write) = n /\ \A i \in 1..n : /\ write[i].from = Word(BackupAt(i)) /\ write[i].to = Home(Res(i))
                                         /\ write[i].via = "t0" /\ write[i].value = NoValue
                                         /\ write[i].phi = NoValue
  BY <1>2, <1>6, CopyHas
<1>11. \A i \in 1..n : Fit(read[i]) /\ Right(m, read[i])
  BY <1>1, <1>3, <1>4, <1>9, Shelves DEF Fit, Right
<1>12. ASSUME NEW i \in 1..n, NEW j \in 1..(i - 1)
       PROVE  /\ Apart(read[i].from, read[j].to) /\ Apart(read[j].to, read[i].to)
              /\ Apart(write[i].from, write[j].to) /\ Apart(write[j].to, write[i].to)
  <2>1. j \in 1..n /\ j < i /\ i \in 1..BackupSlots /\ j \in 1..BackupSlots
    BY <1>2, <1>3
  <2>2. BackupAt(j) < BackupAt(i) /\ BackupAt(j) \in Int /\ BackupAt(i) \in Int
    BY <1>1, <2>1, Shelves
  <2>3. Apart(Word(BackupAt(j)), Word(BackupAt(i)))
    BY <2>2 DEF Apart, Word
  <2>4. Apart(Home(From(i)), Word(BackupAt(j)))
    BY <1>1, <1>4, <2>1, HomesElsewhere
  <2>5. Apart(Word(BackupAt(i)), Home(Res(j)))
    BY <1>1, <1>8, <2>1, HomesElsewhere
  <2>6. Apart(Home(Res(j)), Home(Res(i)))
    BY PhiHomesApart DEF Res
  <2>. QED BY <1>9, <1>10, <2>1, <2>3, <2>4, <2>5, <2>6
<1>13. PICK mid : mid = Run(m, read)
  OBVIOUS
<1>14. Complete(mid) /\ \A q : (Proper(q) /\ \A i \in 1..n : Apart(q, read[i].to)) => At(mid, q) = At(m, q)
  BY <1>2, <1>4, <1>9, <1>11, <1>13, RunSpares
<1>15. Honest(mid) /\ \A i \in 1..n : At(mid, read[i].to) = Brought(m, read[i])
  BY <1>2, <1>4, <1>9, <1>11, <1>12, <1>13, RunDoes
<1>16. \A i \in 1..n : At(mid, Word(BackupAt(i))) = Coming(Res(i))
  BY <1>8, <1>9, <1>15 DEF Brought
<1>17. \A w \in Values(fn) : At(mid, Home(w)) = At(m, Home(w))
  BY <1>1, <1>3, <1>9, <1>14, HomesElsewhere
<1>18. \A i \in 1..n : Fit(write[i]) /\ Right(mid, write[i])
  BY <1>1, <1>3, <1>8, <1>10, Shelves DEF Fit, Right
<1>19. PICK k : k = Run(mid, write)
  OBVIOUS
<1>20. Complete(k) /\ \A q : (Proper(q) /\ \A i \in 1..n : Apart(q, write[i].to)) => At(k, q) = At(mid, q)
  BY <1>2, <1>10, <1>14, <1>18, <1>19, RunSpares
<1>21. Honest(k) /\ \A i \in 1..n : At(k, write[i].to) = Brought(mid, write[i])
  BY <1>2, <1>10, <1>12, <1>14, <1>15, <1>18, <1>19, RunDoes
<1>22. \A i \in 1..n : At(k, Home(Res(i))) = Coming(Res(i))
  BY <1>10, <1>16, <1>21 DEF Brought
<1>23. ASSUME NEW w \in LiveAt(b, n + 1), \A i \in 1..n : w # Res(i)
       PROVE  At(k, Home(w)) = Holds(w)
  <2>1. /\ \A i \in 1..n : Apart(Home(w), Home(Res(i)))
        /\ w \in LiveAt(p, Size(fn, p))
    BY <1>23, PhiHomesApart DEF Res
  <2>2. w \in Values(fn) /\ At(m, Home(w)) = Holds(w)
    BY <2>1 DEF Ready, LiveAt
  <2>. QED BY <1>1, <1>10, <1>17, <1>20, <2>1, <2>2
<1>24. EdgeMoves(m, p, b) = k
  BY <1>7, <1>13, <1>19
<1>. QED BY <1>20, <1>21, <1>22, <1>23, <1>24 DEF Res

(***************************************************************************)
(* Past the edge the machine is ready for the block's first instruction    *)
(* after the phis.                                                         *)
(***************************************************************************)
LEMMA ArriveReady ==
    ASSUME Sound, NEW p \in Block(fn), NEW b \in Block(fn), b \in Successors(fn, p),
           NEW m, Ready(m, p, Size(fn, p))
    PROVE  Ready(Arrive(m, p, b), b, Len(Phis(fn, b)) + 1)
<1>1. PICK n : n = Len(Phis(fn, b))
  OBVIOUS
<1>. DEFINE results == {i.res : i \in ToSet(Taking(p, b))}
            Now(tag) == IF \E v \in results : tag = Holds(v) THEN Junk
                        ELSE IF tag[1] = "phi" THEN Holds(tag[2]) ELSE tag
<1>2. PICK moved : moved = EdgeMoves(m, p, b)
  OBVIOUS
<1>3. /\ Complete(moved) /\ Honest(moved)
      /\ \A i \in 1..n : At(moved, Home(fn.body[b][i].res)) = Coming(fn.body[b][i].res)
      /\ \A w \in LiveAt(b, n + 1) : (\A i \in 1..n : w # fn.body[b][i].res) =>
             At(moved, Home(w)) = Holds(w)
  BY <1>1, <1>2, EdgeMovesDo
<1>4. PICK k : k = Arrive(m, p, b)
  OBVIOUS
<1>5. k = [regs |-> [r \in DOMAIN moved.regs |-> Now(moved.regs[r])],
           mem |-> [w \in DOMAIN moved.mem |-> Now(moved.mem[w])], seen |-> moved.seen]
  BY <1>2, <1>3, <1>4 DEF Arrive, Complete
<1>6. /\ k.regs = [r \in RegName |-> Now(moved.regs[r])]
      /\ k.mem = [w \in Frame |-> Now(moved.mem[w])] /\ k.seen = moved.seen
  BY <1>3, <1>5 DEF Complete
<1>7. Complete(k) /\ Honest(k)
  BY <1>3, <1>5, <1>6 DEF Complete, Honest
<1>8. results = {fn.body[b][i].res : i \in 1..n}
  <2>1. /\ Taking(p, b) = Phis(fn, b) /\ n \in Nat
        /\ Phis(fn, b) \in Seq(ToSet(fn.body[b]))
        /\ \A i \in 1..n : Phis(fn, b)[i] = fn.body[b][i]
    BY <1>1, PhisFirst
  <2>2. DOMAIN Phis(fn, b) = 1..n
    BY <1>1, <2>1
  <2>3. ToSet(Taking(p, b)) = {fn.body[b][i] : i \in 1..n}
    BY <2>1, <2>2 DEF ToSet
  <2>. QED BY <2>3
<1>9. \A q : Proper(q) => At(k, q) = Now(At(moved, q))
  <2>. HIDE DEF Now
  <2>. QED BY <1>6 DEF At, Proper, Valid
<1>10. ASSUME NEW w \in LiveAt(b, n + 1)
       PROVE  At(k, Home(w)) = Holds(w)
  <2>1. Proper(Home(w))
    BY HomesProper DEF LiveAt
  <2>2. CASE \E i \in 1..n : w = fn.body[b][i].res
    <3>1. At(moved, Home(w)) = Coming(w)
      BY <1>3, <2>2
    <3>2. Now(Coming(w)) = Holds(w)
      BY DEF Coming, Holds
    <3>. QED BY <1>9, <2>1, <3>1, <3>2
  <2>3. CASE \A i \in 1..n : w # fn.body[b][i].res
    <3>1. At(moved, Home(w)) = Holds(w)
      BY <1>3, <2>3
    <3>2. \A v \in results : Holds(w) # Holds(v)
      BY <1>8, <2>3 DEF Holds
    <3>3. Now(Holds(w)) = Holds(w)
      <4>. HIDE DEF results
      <4>. QED BY <3>2 DEF Holds
    <3>. QED BY <1>9, <2>1, <3>1, <3>3
  <2>. QED BY <2>2, <2>3
<1>. QED BY <1>1, <1>4, <1>7, <1>10 DEF Ready

-----------------------------------------------------------------------------
(* Entry and return                                                         *)

\* Where the caller has put parameter i.
ParamSource(i) == IF i <= Len(ArgRegs) THEN Reg(ArgRegs[i]) ELSE Word(ParamWordAt(i))

(***************************************************************************)
(* The words of ra, fp and the saved registers.                            *)
(***************************************************************************)
LEMMA SavedShelves ==
    ASSUME Framed
    PROVE  /\ Len(Saved) \in Nat /\ -1 \in Frame /\ -2 \in Frame
           /\ \A i \in 1..Len(Saved) : /\ SavedAt(i) \in Int /\ SavedAt(i) < 0
                                       /\ Proper(Word(SavedAt(i))) /\ Proper(Reg(Saved[i]))
                                       /\ Saved[i] \in ToSet(CalleePool)
<1>1. PICK L \in Nat, N \in Nat, B \in Nat : L = Len(Saved) /\ N = nextSlot /\ B = BackupSlots
  BY SavedFacts, BackupFacts DEF Framed
<1>2. StackPointer \in Int /\ StackPointer <= -2 - L
  <2>1. StackPointer \in Int /\ BackupAt(1) \in Int /\ StackPointer <= BackupAt(1) - BufferWords * Cardinality(Allocas)
    BY FrameFacts
  <2>2. BackupAt(1) = -2 - L - N - B + (1 - 1)
    BY <1>1 DEF BackupAt
  <2>3. PICK w \in Nat : w = BufferWords * Cardinality(Allocas)
    BY FrameFacts, RegistersAssumption
  <2>. QED BY <1>1, <2>1, <2>2, <2>3
<1>3. -1 \in Frame /\ -2 \in Frame
  BY <1>1, <1>2, FrameWordsAre
<1>4. ASSUME NEW i \in 1..Len(Saved)
      PROVE  /\ SavedAt(i) \in Int /\ SavedAt(i) < 0
             /\ Proper(Word(SavedAt(i))) /\ Proper(Reg(Saved[i]))
             /\ Saved[i] \in ToSet(CalleePool)
  <2>1. SavedAt(i) = -2 - i /\ i \in 1..L
    BY <1>1 DEF SavedAt
  <2>2. SavedAt(i) \in Int /\ SavedAt(i) <= -1 /\ StackPointer <= SavedAt(i)
    BY <1>1, <1>2, <2>1
  <2>3. SavedAt(i) \in Frame
    BY <1>2, <2>2, FrameWordsAre
  <2>4. Saved[i] \in ToSet(CalleePool)
    BY SavedFacts
  <2>5. Saved[i] \in RegName /\ Saved[i] \notin {"t0", "t1"}
    BY <2>4, RegistersAssumption DEF RegName
  <2>. QED BY <2>2, <2>3, <2>4, <2>5 DEF Proper, Valid, Word, Reg
<1>. QED BY <1>1, <1>3, <1>4

(***************************************************************************)
(* The sources of the parameters.                                          *)
(***************************************************************************)
LEMMA SourcesProper ==
    ASSUME Framed
    PROVE  \A i \in 1..Len(fn.params) :
              /\ Proper(ParamSource(i))
              /\ i <= Len(ArgRegs) => /\ ParamSource(i) = Reg(ArgRegs[i])
                                      /\ ArgRegs[i] \in ToSet(ArgRegs) /\ ArgRegs[i] \in RegName
              /\ ~(i <= Len(ArgRegs)) => /\ ParamSource(i) = Word(ParamWordAt(i))
                                         /\ ParamWordAt(i) \in Int /\ ParamWordAt(i) >= 0
                                         /\ ParamWordAt(i) \in Frame
<1>1. PICK a \in Nat, n \in Nat : a = Len(ArgRegs) /\ n = Len(fn.params) /\ DOMAIN ArgRegs = 1..a
  BY RegistersAssumption, ProgramAssumption DEF Framed
<1>2. ASSUME NEW i \in 1..Len(fn.params)
      PROVE  /\ Proper(ParamSource(i))
             /\ i <= Len(ArgRegs) => /\ ParamSource(i) = Reg(ArgRegs[i])
                                     /\ ArgRegs[i] \in ToSet(ArgRegs) /\ ArgRegs[i] \in RegName
             /\ ~(i <= Len(ArgRegs)) => /\ ParamSource(i) = Word(ParamWordAt(i))
                                        /\ ParamWordAt(i) \in Int /\ ParamWordAt(i) >= 0
                                        /\ ParamWordAt(i) \in Frame
  <2>1. CASE i <= Len(ArgRegs)
    <3>1. i \in DOMAIN ArgRegs
      BY <1>1, <2>1
    <3>2. ArgRegs[i] \in ToSet(ArgRegs)
      BY <3>1 DEF ToSet
    <3>3. ArgRegs[i] \in RegName /\ ArgRegs[i] \notin {"t0", "t1"}
      BY <3>2, RegistersAssumption DEF RegName
    <3>. QED BY <2>1, <3>2, <3>3 DEF ParamSource, Proper, Valid, Reg
  <2>2. CASE ~(i <= Len(ArgRegs))
    <3>1. i > Len(ArgRegs)
      BY <1>1, <2>2
    <3>2. ParamWordAt(i) \in Frame /\ ParamWordAt(i) >= 0 /\ ParamWordAt(i) \in Int
      BY <3>1, FrameWordsAre
    <3>. QED BY <2>2, <3>2 DEF ParamSource, Proper, Valid, Word
  <2>. QED BY <2>1, <2>2
<1>. QED BY <1>2

(***************************************************************************)
(* The caller's machine has every parameter at its source.                 *)
(***************************************************************************)
LEMMA ArgsPassedHas ==
    ASSUME Framed
    PROVE  /\ Complete(ArgsPassed) /\ Honest(ArgsPassed)
           /\ \A i \in 1..Len(fn.params) : At(ArgsPassed, ParamSource(i)) = Holds(fn.params[i])
<1>. DEFINE RegTag(r) == IF r \in ToSet(CalleePool) THEN Kept(r)
                 ELSE IF \E i \in DOMAIN fn.params : i <= Len(ArgRegs) /\ ArgRegs[i] = r
                      THEN Holds(fn.params[CHOOSE i \in DOMAIN ArgRegs : ArgRegs[i] = r])
                      ELSE Junk
<1>. DEFINE WordTag(w) == IF w >= 0 THEN Holds(fn.params[w + Len(ArgRegs) + 1])
                 ELSE IF \E i \in Allocas : w \in BufferAt(i)..(BufferAt(i) + BufferWords - 1)
                      THEN Buffer(CHOOSE i \in Allocas : w \in BufferAt(i)..(BufferAt(i) + BufferWords - 1))
                      ELSE Junk
<1>1. PICK m : m = ArgsPassed
  OBVIOUS
<1>2. m = [regs |-> [r \in RegName |-> RegTag(r)], mem |-> [w \in Frame |-> WordTag(w)], seen |-> {}]
  BY <1>1 DEF ArgsPassed, Frame
<1>3. m.regs = [r \in RegName |-> RegTag(r)] /\ m.mem = [w \in Frame |-> WordTag(w)] /\ m.seen = {}
  BY <1>2
<1>4. Complete(m) /\ Honest(m)
  BY <1>2, <1>3 DEF Complete, Honest
<1>5. PICK a \in Nat, n \in Nat : a = Len(ArgRegs) /\ n = Len(fn.params) /\ DOMAIN ArgRegs = 1..a /\ DOMAIN fn.params = 1..n
  BY RegistersAssumption, ProgramAssumption DEF Framed
<1>6. ASSUME NEW i \in 1..Len(fn.params)
      PROVE  At(m, ParamSource(i)) = Holds(fn.params[i])
  <2>1. CASE i <= Len(ArgRegs)
    <3>1. /\ ParamSource(i) = Reg(ArgRegs[i]) /\ ArgRegs[i] \in ToSet(ArgRegs) /\ ArgRegs[i] \in RegName
      BY <2>1, SourcesProper
    <3>2. ArgRegs[i] \notin ToSet(CalleePool)
      BY <3>1, RegistersAssumption
    <3>3. i \in DOMAIN fn.params /\ i \in DOMAIN ArgRegs
      BY <1>5, <2>1
    <3>4. PICK j : j = CHOOSE k \in DOMAIN ArgRegs : ArgRegs[k] = ArgRegs[i]
      OBVIOUS
    <3>5. j \in DOMAIN ArgRegs /\ ArgRegs[j] = ArgRegs[i]
      BY <3>3, <3>4
    <3>6. j = i
      BY <3>3, <3>5, RegistersAssumption DEF IsInjective
    <3>7. RegTag(ArgRegs[i]) = Holds(fn.params[i])
      BY <2>1, <3>2, <3>3, <3>4, <3>6
    <3>. HIDE DEF RegTag
    <3>. QED BY <1>3, <3>1, <3>7 DEF At, Reg
  <2>2. CASE ~(i <= Len(ArgRegs))
    <3>1. PICK w : w = ParamWordAt(i)
      OBVIOUS
    <3>2. ParamSource(i) = Word(w) /\ w \in Int /\ w >= 0 /\ w \in Frame
      BY <2>2, <3>1, SourcesProper
    <3>3. w + Len(ArgRegs) + 1 = i
      BY <1>5, <3>1 DEF ParamWordAt
    <3>4. WordTag(w) = Holds(fn.params[i])
      BY <3>2, <3>3
    <3>. HIDE DEF WordTag
    <3>. QED BY <1>3, <3>2, <3>4 DEF At, Word
  <2>. QED BY <2>1, <2>2
<1>. QED BY <1>1, <1>4, <1>6

(***************************************************************************)
(* The prologue leaves the sources of the parameters alone.                *)
(***************************************************************************)
LEMMA PrologueLeaves ==
    ASSUME Framed, NEW m, Complete(m), Honest(m)
    PROVE  /\ Complete(Prologue(m)) /\ Honest(Prologue(m))
           /\ \A i \in 1..Len(fn.params) : At(Prologue(m), ParamSource(i)) = At(m, ParamSource(i))
<1>1. PICK one : one = WithWord(m, -1, Kept("ra"))
  OBVIOUS
<1>2. PICK linked : linked = WithWord(one, -2, Kept("fp"))
  OBVIOUS
<1>3. /\ Complete(one) /\ one.regs = m.regs /\ one.seen = m.seen
      /\ \A q \in Frame : q # -1 => one.mem[q] = m.mem[q]
  BY <1>1, SavedShelves, WordWritten
<1>4. /\ Complete(linked) /\ linked.regs = one.regs /\ linked.seen = one.seen
      /\ \A q \in Frame : q # -2 => linked.mem[q] = one.mem[q]
  BY <1>2, <1>3, SavedShelves, WordWritten
<1>5. linked = [m EXCEPT !.mem[-1] = Kept("ra"), !.mem[-2] = Kept("fp")]
  BY <1>1, <1>2 DEF WithWord
<1>6. PICK copies : copies = [i \in 1..Len(Saved) |-> Copy(Reg(Saved[i]), "t0", Word(SavedAt(i)))]
  OBVIOUS
<1>7. PICK L \in Nat : L = Len(Saved)
  BY SavedShelves
<1>8. Len(copies) = L /\ \A i \in 1..L : /\ copies[i].from = Reg(Saved[i]) /\ copies[i].via = "t0"
                                         /\ copies[i].to = Word(SavedAt(i)) /\ copies[i].value = NoValue
  BY <1>6, <1>7, CopyHas
<1>9. \A i \in 1..L : Fit(copies[i])
  BY <1>7, <1>8, SavedShelves DEF Fit
<1>10. PICK n : n = Run(linked, copies)
  OBVIOUS
<1>11. /\ Complete(n)
       /\ (Honest(linked) /\ \A i \in 1..L : copies[i].value = NoValue) => Honest(n)
       /\ \A q : (Proper(q) /\ \A i \in 1..L : Apart(q, copies[i].to)) => At(n, q) = At(linked, q)
  BY <1>4, <1>8, <1>9, <1>10, RunSpares
<1>12. Honest(n)
  BY <1>3, <1>4, <1>8, <1>11 DEF Honest
<1>13. ASSUME NEW i \in 1..Len(fn.params)
       PROVE  At(n, ParamSource(i)) = At(m, ParamSource(i))
  <2>1. Proper(ParamSource(i))
    BY SourcesProper
  <2>2. CASE i <= Len(ArgRegs)
    <3>1. ParamSource(i) = Reg(ArgRegs[i]) /\ ArgRegs[i] \in RegName
      BY <2>2, SourcesProper
    <3>2. ASSUME NEW j \in 1..L
          PROVE  Apart(ParamSource(i), copies[j].to)
      <4>1. copies[j].to = Word(SavedAt(j))
        BY <1>8
      <4>. QED BY <3>1, <4>1 DEF Apart, Reg, Word
    <3>. QED BY <1>3, <1>4, <1>11, <2>1, <3>1, <3>2 DEF At, Reg
  <2>3. CASE ~(i <= Len(ArgRegs))
    <3>1. PICK w : w = ParamWordAt(i)
      OBVIOUS
    <3>2. ParamSource(i) = Word(w) /\ w \in Int /\ w >= 0 /\ w \in Frame
      BY <2>3, <3>1, SourcesProper
    <3>3. \A j \in 1..L : SavedAt(j) \in Int /\ SavedAt(j) < 0
      BY <1>7, SavedShelves
    <3>4. ASSUME NEW j \in 1..L
          PROVE  Apart(ParamSource(i), copies[j].to)
      <4>1. copies[j].to = Word(SavedAt(j))
        BY <1>8
      <4>2. PICK x \in Int : x = SavedAt(j) /\ x < 0
        BY <3>3
      <4>. QED BY <3>2, <4>1, <4>2 DEF Apart, Word
    <3>5. w # -1 /\ w # -2
      BY <3>2
    <3>. QED BY <1>3, <1>4, <1>11, <2>1, <3>2, <3>4, <3>5 DEF At, Word
  <2>. QED BY <2>2, <2>3
<1>14. Prologue(m) = n
  BY <1>5, <1>6, <1>10 DEF Prologue
<1>. QED BY <1>11, <1>12, <1>13, <1>14

(***************************************************************************)
(* Every parameter comes to its home: those in registers wait in the       *)
(* backup slots while the homes, which may be argument registers, are      *)
(* written (select.rs:192-226).                                            *)
(***************************************************************************)
LEMMA SaveParamsDo ==
    ASSUME Sound, NEW m, Complete(m), Honest(m),
           \A i \in 1..Len(fn.params) : At(m, ParamSource(i)) = Holds(fn.params[i])
    PROVE  /\ Complete(SaveParams(m)) /\ Honest(SaveParams(m))
           /\ \A i \in 1..Len(fn.params) : At(SaveParams(m), Home(fn.params[i])) = Holds(fn.params[i])
<1>1. PICK n \in Nat, a \in Nat : n = Len(fn.params) /\ a = Len(ArgRegs)
  BY RegistersAssumption, ProgramAssumption DEF Sound, Framed
<1>2. DOMAIN fn.params = 1..n
  BY <1>1, ProgramAssumption DEF Sound, Framed
<1>3. PICK k : k = Min({Len(fn.params), Len(ArgRegs)})
  OBVIOUS
<1>4. k \in Nat /\ k <= n /\ k <= a /\ (k = n \/ k = a)
  <2>1. PICK S : S = {n, a}
    OBVIOUS
  <2>2. n + a \in Nat /\ S \in SUBSET (0..(n + a)) /\ S # {}
    BY <2>1
  <2>3. Min(S) \in S /\ \A y \in S : Min(S) <= y
    BY <2>2, MinExists
  <2>. QED BY <1>1, <1>3, <2>1, <2>3
<1>. DEFINE From(i) == IF i <= k THEN BackupAt(i) ELSE i - Len(ArgRegs) - 1
<1>5. PICK backup : backup = [i \in 1..k |-> Copy(Reg(ArgRegs[i]), "t0", Word(BackupAt(i)))]
  OBVIOUS
<1>6. PICK place : place = [i \in 1..Len(fn.params) |-> Copy(Word(From(i)), "t0", Home(fn.params[i]))]
  OBVIOUS
<1>7. SaveParams(m) = Run(Run(m, backup), place)
  BY <1>3, <1>5, <1>6 DEF SaveParams
<1>8. PICK s \in Nat : s = BackupSlots /\ n <= s
  BY <1>1, BackupFacts DEF Sound
<1>9. \A i \in 1..k : i \in 1..BackupSlots
  BY <1>4, <1>8
<1>10. /\ Len(backup) = k
       /\ \A i \in 1..k : /\ backup[i].from = Reg(ArgRegs[i]) /\ backup[i].via = "t0"
                          /\ backup[i].to = Word(BackupAt(i))
                          /\ backup[i].value = NoValue /\ backup[i].phi = NoValue
  BY <1>4, <1>5, CopyHas
<1>11. /\ Len(place) = n
       /\ \A i \in 1..n : /\ place[i].from = Word(From(i)) /\ place[i].via = "t0"
                          /\ place[i].to = Home(fn.params[i])
                          /\ place[i].value = NoValue /\ place[i].phi = NoValue
  BY <1>1, <1>6, CopyHas
<1>. HIDE DEF From
<1>12. ASSUME NEW i \in 1..k
       PROVE  /\ i \in 1..n /\ i <= Len(ArgRegs)
              /\ ParamSource(i) = Reg(ArgRegs[i]) /\ Proper(Reg(ArgRegs[i]))
              /\ Proper(Word(BackupAt(i))) /\ BackupAt(i) \in Int /\ BackupAt(i) < 0
  <2>1. i \in 1..n /\ i <= Len(ArgRegs)
    BY <1>1, <1>4
  <2>2. ParamSource(i) = Reg(ArgRegs[i]) /\ Proper(ParamSource(i))
    BY <1>1, <2>1, SourcesProper DEF Sound
  <2>3. i \in 1..BackupSlots
    BY <1>9
  <2>4. Proper(Word(BackupAt(i))) /\ BackupAt(i) \in Int /\ BackupAt(i) < -2 - Len(Saved)
    BY <2>3, Shelves DEF Sound
  <2>5. Len(Saved) \in Nat
    BY SavedFacts DEF Sound
  <2>. QED BY <2>1, <2>2, <2>4, <2>5
<1>13. ASSUME NEW i \in 1..n, ~(i <= k)
       PROVE  /\ ~(i <= Len(ArgRegs)) /\ From(i) = ParamWordAt(i)
              /\ ParamSource(i) = Word(From(i)) /\ Proper(Word(From(i)))
              /\ From(i) \in Int /\ From(i) >= 0
  <2>1. ~(i <= Len(ArgRegs))
    BY <1>1, <1>4, <1>13
  <2>2. /\ ParamSource(i) = Word(ParamWordAt(i)) /\ ParamWordAt(i) \in Int /\ ParamWordAt(i) >= 0
        /\ Proper(ParamSource(i))
    BY <1>1, <2>1, SourcesProper DEF Sound
  <2>3. From(i) = ParamWordAt(i)
    BY <1>13 DEF From, ParamWordAt
  <2>. QED BY <2>1, <2>2, <2>3
<1>14. PICK mid : mid = Run(m, backup)
  OBVIOUS
<1>15. \A i \in 1..k : Fit(backup[i]) /\ Right(m, backup[i])
  BY <1>10, <1>12 DEF Fit, Right
<1>16. ASSUME NEW i \in 1..k, NEW j \in 1..(i - 1)
       PROVE  Apart(backup[i].from, backup[j].to) /\ Apart(backup[j].to, backup[i].to)
  <2>1. j \in 1..k /\ i \in 1..BackupSlots /\ j \in 1..BackupSlots /\ j < i
    BY <1>4, <1>8
  <2>2. BackupAt(j) < BackupAt(i) /\ BackupAt(j) \in Int /\ BackupAt(i) \in Int
    BY <2>1, Shelves DEF Sound
  <2>3. backup[i].from = Reg(ArgRegs[i]) /\ backup[i].to = Word(BackupAt(i)) /\ backup[j].to = Word(BackupAt(j))
    BY <1>10, <2>1
  <2>. QED BY <2>2, <2>3 DEF Apart, Reg, Word
<1>17. /\ Complete(mid) /\ Honest(mid)
       /\ \A q : (Proper(q) /\ \A i \in 1..k : Apart(q, backup[i].to)) => At(mid, q) = At(m, q)
  BY <1>4, <1>10, <1>14, <1>15, RunSpares
<1>18. \A i \in 1..k : At(mid, backup[i].to) = Brought(m, backup[i])
  BY <1>4, <1>10, <1>14, <1>15, <1>16, RunDoes
<1>19. ASSUME NEW i \in 1..n
       PROVE  At(mid, Word(From(i))) = Holds(fn.params[i]) /\ Proper(Word(From(i)))
  <2>1. At(m, ParamSource(i)) = Holds(fn.params[i])
    BY <1>1
  <2>2. CASE i <= k
    <3>1. i \in 1..k
      BY <2>2
    <3>2. /\ backup[i].to = Word(BackupAt(i)) /\ backup[i].from = Reg(ArgRegs[i])
          /\ backup[i].phi = NoValue
      BY <1>10, <3>1
    <3>3. At(mid, Word(BackupAt(i))) = At(m, Reg(ArgRegs[i]))
      BY <1>18, <3>1, <3>2 DEF Brought
    <3>4. From(i) = BackupAt(i)
      BY <2>2 DEF From
    <3>. QED BY <1>12, <2>1, <3>1, <3>3, <3>4
  <2>3. CASE ~(i <= k)
    <3>1. /\ ParamSource(i) = Word(From(i)) /\ Proper(Word(From(i)))
          /\ From(i) \in Int /\ From(i) >= 0
      BY <1>13, <2>3
    <3>2. ASSUME NEW j \in 1..k
          PROVE  Apart(Word(From(i)), backup[j].to)
      <4>1. backup[j].to = Word(BackupAt(j))
        BY <1>10
      <4>2. BackupAt(j) \in Int /\ BackupAt(j) < 0
        BY <1>12
      <4>. QED BY <3>1, <4>1, <4>2 DEF Apart, Word
    <3>3. At(mid, Word(From(i))) = At(m, Word(From(i)))
      BY <1>17, <3>1, <3>2
    <3>. QED BY <2>1, <3>1, <3>3
  <2>. QED BY <2>2, <2>3
<1>20. ASSUME NEW i \in 1..n
       PROVE  /\ fn.params[i] \in ToSet(fn.params) /\ fn.params[i] \in Values(fn)
              /\ alloc[fn.params[i]] \in Places /\ Proper(Home(fn.params[i]))
              /\ Apart(Word(From(i)), Home(fn.params[i]))
              /\ \A j \in 1..n : Apart(Word(From(i)), Home(fn.params[j]))
  <2>1. \A j \in 1..n : fn.params[j] \in ToSet(fn.params) /\ fn.params[j] \in Values(fn)
    BY <1>2, InstIsListed DEF Sound, Framed, ToSet
  <2>2. \A j \in 1..n : alloc[fn.params[j]] \in Places /\ Proper(Home(fn.params[j]))
    BY <2>1, HomesProper
  <2>3. ASSUME NEW j \in 1..n
        PROVE  Apart(Word(From(i)), Home(fn.params[j]))
    <3>1. alloc[fn.params[j]] \in Places
      BY <2>2
    <3>2. CASE i <= k
      <4>1. i \in 1..BackupSlots /\ From(i) = BackupAt(i)
        BY <1>8, <3>2 DEF From
      <4>. QED BY <3>1, <4>1, HomesElsewhere DEF Sound
    <3>3. CASE ~(i <= k)
      <4>1. From(i) \in Int /\ From(i) >= 0
        BY <1>13, <3>3
      <4>. QED BY <3>1, <4>1, HomesElsewhere DEF Sound
    <3>. QED BY <3>2, <3>3
  <2>. QED BY <2>1, <2>2, <2>3
<1>21. \A i \in 1..n : Fit(place[i]) /\ Right(mid, place[i])
  BY <1>11, <1>19, <1>20 DEF Fit, Right
<1>22. ASSUME NEW i \in 1..n, NEW j \in 1..(i - 1)
       PROVE  Apart(place[i].from, place[j].to) /\ Apart(place[j].to, place[i].to)
  <2>1. j \in 1..n /\ j # i
    OBVIOUS
  <2>2. /\ place[i].from = Word(From(i)) /\ place[i].to = Home(fn.params[i])
        /\ place[j].to = Home(fn.params[j])
    BY <1>11, <2>1
  <2>3. Apart(Word(From(i)), Home(fn.params[j]))
    BY <1>20, <2>1
  <2>4. fn.params[i] # fn.params[j]
    BY <1>2, <2>1, StrictIs DEF Sound, Strict, IsInjective
  <2>5. Apart(Home(fn.params[j]), Home(fn.params[i]))
    BY <1>20, <2>1, <2>4, ParamsApart
  <2>. QED BY <2>2, <2>3, <2>5
<1>23. PICK after : after = Run(mid, place)
  OBVIOUS
<1>24. Complete(after)
  BY <1>11, <1>17, <1>21, <1>23, RunSpares
<1>25. Honest(after) /\ \A i \in 1..n : At(after, place[i].to) = Brought(mid, place[i])
  BY <1>11, <1>17, <1>21, <1>22, <1>23, RunDoes
<1>26. ASSUME NEW i \in 1..n
       PROVE  At(after, Home(fn.params[i])) = Holds(fn.params[i])
  <2>1. place[i].to = Home(fn.params[i]) /\ place[i].from = Word(From(i)) /\ place[i].phi = NoValue
    BY <1>11
  <2>2. At(after, Home(fn.params[i])) = At(mid, Word(From(i)))
    BY <1>25, <2>1 DEF Brought
  <2>. QED BY <1>19, <2>2
<1>. QED BY <1>1, <1>7, <1>14, <1>23, <1>24, <1>25, <1>26

(***************************************************************************)
(* After the prologue the parameters are in their homes, and nothing else  *)
(* is live at the first instruction.                                       *)
(***************************************************************************)
LEMMA EnterReady ==
    ASSUME Sound
    PROVE  Ready(SaveParams(Prologue(ArgsPassed)), 1, 1)
<1>1. PICK m : m = Prologue(ArgsPassed)
  OBVIOUS
<1>2. Complete(ArgsPassed) /\ Honest(ArgsPassed)
  BY ArgsPassedHas DEF Sound
<1>3. Complete(m) /\ Honest(m)
  BY <1>1, <1>2, PrologueLeaves DEF Sound
<1>4. \A i \in 1..Len(fn.params) : At(m, ParamSource(i)) = Holds(fn.params[i])
  BY <1>1, <1>2, ArgsPassedHas, PrologueLeaves DEF Sound
<1>5. PICK n : n = SaveParams(m)
  OBVIOUS
<1>6. /\ Complete(n) /\ Honest(n)
      /\ \A i \in 1..Len(fn.params) : At(n, Home(fn.params[i])) = Holds(fn.params[i])
  BY <1>3, <1>4, <1>5, SaveParamsDo
<1>7. ASSUME NEW v \in LiveAt(1, 1)
      PROVE  At(n, Home(v)) = Holds(v)
  <2>1. v \in ToSet(fn.params)
    BY ParamsApart DEF LiveAt
  <2>2. DOMAIN fn.params = 1..Len(fn.params)
    BY ProgramAssumption DEF Sound, Framed
  <2>3. PICK i \in 1..Len(fn.params) : fn.params[i] = v
    BY <2>1, <2>2 DEF ToSet
  <2>. QED BY <1>6, <2>3
<1>. QED BY <1>1, <1>5, <1>6, <1>7 DEF Ready

(***************************************************************************)
(* The epilogue leaves the first argument register alone.                  *)
(***************************************************************************)
LEMMA EpilogueSpares ==
    ASSUME Sound, NEW m, Complete(m), Honest(m)
    PROVE  /\ Complete(Epilogue(m)) /\ Honest(Epilogue(m))
           /\ Epilogue(m).regs[ArgRegs[1]] = m.regs[ArgRegs[1]]
<1>1. /\ ArgRegs[1] \in RegName /\ ArgRegs[1] \notin {"t0", "t1"}
      /\ ArgRegs[1] \notin ToSet(CalleePool)
  <2>1. 1 \in DOMAIN ArgRegs
    BY RegistersAssumption
  <2>2. ArgRegs[1] \in ToSet(ArgRegs)
    BY <2>1 DEF ToSet
  <2>. QED BY <2>2, RegistersAssumption DEF RegName
<1>2. PICK L \in Nat : L = Len(Saved)
  BY SavedShelves DEF Sound
<1>3. PICK copies : copies = [i \in 1..Len(Saved) |-> Copy(Word(SavedAt(i)), Saved[i], Reg(Saved[i]))]
  OBVIOUS
<1>4. Len(copies) = L /\ \A i \in 1..L : /\ copies[i].from = Word(SavedAt(i)) /\ copies[i].via = Saved[i]
                                         /\ copies[i].to = Reg(Saved[i]) /\ copies[i].value = NoValue
  BY <1>2, <1>3, CopyHas
<1>5. \A i \in 1..L : Fit(copies[i])
  BY <1>2, <1>4, SavedShelves DEF Fit, Sound
<1>6. PICK n : n = Run(m, copies)
  OBVIOUS
<1>7. /\ Complete(n) /\ Honest(n)
      /\ \A q : (Proper(q) /\ \A i \in 1..L : Apart(q, copies[i].to)) => At(n, q) = At(m, q)
  BY <1>4, <1>5, <1>6, RunSpares
<1>8. ASSUME NEW i \in 1..L
      PROVE  Apart(Reg(ArgRegs[1]), copies[i].to)
  <2>1. copies[i].to = Reg(Saved[i])
    BY <1>4
  <2>2. Saved[i] \in ToSet(CalleePool)
    BY <1>2, SavedShelves DEF Sound
  <2>3. Saved[i] # ArgRegs[1]
    BY <1>1, <2>2
  <2>. QED BY <2>1, <2>3 DEF Apart, Reg
<1>9. Proper(Reg(ArgRegs[1]))
  BY <1>1 DEF Proper, Valid, Reg
<1>10. At(n, Reg(ArgRegs[1])) = At(m, Reg(ArgRegs[1]))
  BY <1>7, <1>8, <1>9
<1>11. n.regs[ArgRegs[1]] = m.regs[ArgRegs[1]]
  BY <1>10 DEF At, Reg
<1>12. Epilogue(m) = n
  BY <1>3, <1>6 DEF Epilogue
<1>. QED BY <1>7, <1>11, <1>12

(***************************************************************************)
(* The returned value, if there is one, is in the first argument register  *)
(* when the function returns, after the epilogue (select.rs:178-190,       *)
(* 440-448).                                                               *)
(***************************************************************************)
LEMMA ReturnDone ==
    ASSUME Sound, NEW m, Complete(m), Honest(m), NEW args,
           args # <<>> => args[1] \in Values(fn) /\ At(m, Home(args[1])) = Holds(args[1])
    PROVE  Honest(Leave(m, args))
<1>1. CASE args = <<>>
  BY <1>1, EpilogueSpares DEF Leave
<1>2. CASE args # <<>>
  <2>1. PICK v : v = args[1]
    OBVIOUS
  <2>2. v \in Values(fn) /\ At(m, Home(v)) = Holds(v)
    BY <1>2, <2>1
  <2>3. Proper(Home(v)) /\ "t0" \in RegName
    BY <2>2, HomesProper DEF RegName
  <2>4. PICK got, r : got = Get(m, Home(v), "t0") /\ r = Got(Home(v), "t0")
    OBVIOUS
  <2>5. Complete(got) /\ got.seen = m.seen /\ r \in RegName /\ got.regs[r] = Holds(v)
    BY <2>2, <2>3, <2>4, Gotten DEF Proper
  <2>6. PICK x : x = got.regs[r]
    OBVIOUS
  <2>7. PICK moved : moved = WithReg(got, ArgRegs[1], x)
    OBVIOUS
  <2>8. ArgRegs[1] \in RegName
    <3>1. 1 \in DOMAIN ArgRegs
      BY RegistersAssumption
    <3>2. ArgRegs[1] \in ToSet(ArgRegs)
      BY <3>1 DEF ToSet
    <3>. QED BY <3>2 DEF RegName
  <2>9. Complete(moved) /\ moved.seen = got.seen /\ moved.regs[ArgRegs[1]] = x
    BY <2>5, <2>7, <2>8, RegWritten
  <2>10. ToResult(m, v) = moved
    BY <2>4, <2>6, <2>7 DEF ToResult, Move, WithReg
  <2>11. Honest(moved)
    BY <2>5, <2>9 DEF Honest
  <2>12. PICK n : n = Epilogue(moved)
    OBVIOUS
  <2>13. Complete(n) /\ Honest(n) /\ n.regs[ArgRegs[1]] = Holds(v)
    BY <2>5, <2>6, <2>9, <2>11, <2>12, EpilogueSpares
  <2>14. Honest(See(n, v, ArgRegs[1]))
    BY <2>13, Noted
  <2>15. Leave(m, args) = See(n, v, ArgRegs[1])
    BY <1>2, <2>1, <2>10, <2>12 DEF Leave
  <2>. QED BY <2>14, <2>15
<1>. QED BY <1>1, <1>2

-----------------------------------------------------------------------------
(* The inductive invariant of the operands                                  *)

\* While the function runs, every value that is live at the next instruction is
\* in its home.
Placed ==
    /\ phase = "allocate" => seen = {} /\ block = 1 /\ next = Len(Phis(fn, 1)) + 1
    /\ Strict(fn) /\ PairsInReach =>
          /\ OperandsInPlace
          /\ phase = "run" => Ready(Machine, block, next)

(***************************************************************************)
(* Once the scan is over what it left is sound.                            *)
(***************************************************************************)
LEMMA SoundOnceScanned ==
    ASSUME CodegenInv, Given, HomesApart, CallsSpared, Strict(fn), queue = <<>>
    PROVE  Sound
<1>1. Framed /\ Scanned
  BY DEF CodegenInv, Scanned
<1>2. ToSet(queue) = {}
  BY DEF ToSet
<1>3. Settled
  BY <1>1, <1>2 DEF Scanned, Settled
<1>. QED BY <1>1, <1>3 DEF Sound

(***************************************************************************)
(* A step after the scan that leaves a machine which is ready, and one     *)
(* that leaves a machine which read what it expected.                      *)
(***************************************************************************)
LEMMA ReadyStep ==
    ASSUME UNCHANGED <<fn, scan>>, NEW m, Becomes(m)
    PROVE  /\ Honest(m) => OperandsInPlace'
           /\ Ready(m, block', next') => Ready(Machine, block, next)'
           /\ (Strict(fn) /\ PairsInReach)' => Strict(fn) /\ PairsInReach
<1>1. fn' = fn /\ alloc' = alloc /\ nextSlot' = nextSlot /\ usedCallee' = usedCallee
  BY DEF scan
<1>2. Honest(m) => OperandsInPlace'
  BY DEF Becomes, Honest, OperandsInPlace
<1>3. Saved' = Saved
  BY <1>1 DEF Saved
<1>4. \A k : SpillAt(k)' = SpillAt(k)
  BY <1>3 DEF SpillAt
<1>5. \A v : Home(v)' = Home(v)
  BY <1>1, <1>4 DEF Home
<1>6. Frame' = Frame
  <2>1. Allocas' = Allocas
    BY <1>1 DEF Allocas
  <2>2. BackupSlots' = BackupSlots
    BY <1>1 DEF BackupSlots
  <2>3. BackupAt(1)' = BackupAt(1)
    BY <1>1, <1>3, <2>2 DEF BackupAt
  <2>4. FrameWords' = FrameWords
    BY <2>1, <2>3 DEF FrameWords
  <2>5. StackPointer' = StackPointer
    BY <2>4 DEF StackPointer
  <2>. QED BY <1>1, <2>5 DEF Frame
<1>7. \A b, k : LiveAt(b, k)' = LiveAt(b, k)
  BY <1>1 DEF LiveAt, Live
<1>8. ASSUME Ready(m, block', next')
      PROVE  Ready(Machine, block, next)'
  <2>1. PICK n : n = Machine'
    OBVIOUS
  <2>2. n = [regs |-> m.regs, mem |-> m.mem, seen |-> {}]
    BY <2>1 DEF Machine, Becomes
  <2>3. n.regs = m.regs /\ n.mem = m.mem /\ n.seen = {}
    BY <2>2
  <2>4. Complete(n) /\ Honest(n)
    BY <1>8, <2>2, <2>3 DEF Complete, Honest, Ready
  <2>5. \A p : At(n, p) = At(m, p)
    BY <2>3 DEF At
  <2>6. PICK b, k : b = block' /\ k = next'
    OBVIOUS
  <2>7. \A v \in LiveAt(b, k) : At(n, Home(v)) = Holds(v)
    BY <1>8, <2>5, <2>6 DEF Ready
  <2>8. Complete(Machine)' /\ Honest(Machine)'
    <3>1. Complete(Machine)' <=> /\ n = [regs |-> n.regs, mem |-> n.mem, seen |-> n.seen]
                                 /\ DOMAIN n.regs = RegName /\ DOMAIN n.mem = Frame
      BY <1>6, <2>1 DEF Complete
    <3>2. Honest(Machine)' <=> \A s \in n.seen : s[1] = s[2]
      BY <2>1 DEF Honest
    <3>. QED BY <2>4, <3>1, <3>2 DEF Complete, Honest
  <2>9. (\A v \in LiveAt(block, next) : At(Machine, Home(v)) = Holds(v))'
    <3>1. LiveAt(block, next)' = LiveAt(b, k)
      BY <1>1, <2>6 DEF LiveAt, Live
    <3>2. \A v : At(Machine, Home(v))' = At(n, Home(v))
      BY <1>5, <2>1 DEF At
    <3>. QED BY <2>7, <3>1, <3>2
  <2>. QED BY <2>8, <2>9 DEF Ready
<1>9. (Strict(fn) /\ PairsInReach)' => Strict(fn) /\ PairsInReach
  <2>1. Strict(fn)' => Strict(fn)
    BY <1>1
  <2>2. PairsInReach' => PairsInReach
    BY <1>1, <1>5 DEF PairsInReach
  <2>. QED BY <2>1, <2>2
<1>. QED BY <1>2, <1>8, <1>9

(***************************************************************************)
(* Where control is at a jump or a branch.                                 *)
(***************************************************************************)
LEMMA AtTheEnd ==
    ASSUME CodegenInv, phase = "run"
    PROVE  /\ Size(fn, block) \in Nat /\ next \in 1..Size(fn, block) /\ Inst = fn.body[block][next]
           /\ block \in Block(fn) /\ Framed /\ queue = <<>>
           /\ Inst.op \notin {"jmp", "br", "ret"} => next \in 1..(Size(fn, block) - 1)
           /\ Inst.op \in {"jmp", "br"} => /\ next = Size(fn, block)
                                           /\ Successors(fn, block) = ToSet(Inst.to)
                                           /\ ToSet(Inst.to) \subseteq Block(fn)
           /\ Inst.op = "jmp" => Inst.to[1] \in ToSet(Inst.to)
<1>1. /\ Framed /\ queue = <<>> /\ fn \in Program
      /\ block \in Block(fn) /\ next \in DOMAIN fn.body[block] /\ Inst = fn.body[block][next]
      /\ Inst.op \in {"jmp", "br"} => ToSet(Inst.to) \subseteq Block(fn)
  BY Running DEF Framed
<1>2. PICK n \in Nat : n = Len(fn.body[block]) /\ DOMAIN fn.body[block] = 1..n /\ n = Size(fn, block)
  BY <1>1, ProgramAssumption DEF Size
<1>3. Inst.op \in {"jmp", "br", "ret"} <=> next = n
  BY <1>1, <1>2, InstructionAssumption
<1>4. ASSUME Inst.op \in {"jmp", "br"}
      PROVE  Successors(fn, block) = ToSet(Inst.to)
  <2>1. Inst = Last(fn.body[block]) /\ fn.body[block] # <<>>
    BY <1>1, <1>2, <1>3, <1>4, ProgramAssumption DEF Last
  <2>. QED BY <1>4, <2>1 DEF Successors
<1>5. ASSUME Inst.op = "jmp"
      PROVE  Inst.to[1] \in ToSet(Inst.to)
  <2>1. PICK to : to = Inst.to /\ to \in Seq(ToSet(to)) /\ to # <<>>
    BY <1>1, <1>5, InstructionAssumption
  <2>2. 1 \in DOMAIN to
    BY <2>1
  <2>. QED BY <2>1, <2>2 DEF ToSet
<1>. QED BY <1>1, <1>2, <1>3, <1>4, <1>5

(***************************************************************************)
(* An edge from the end of a block.                                        *)
(***************************************************************************)
LEMMA GoToReady ==
    ASSUME Sound, UNCHANGED <<fn, scan>>, block \in Block(fn), NEW b \in Successors(fn, block),
           NEW m, Ready(m, block, Size(fn, block)), GoTo(m, b)
    PROVE  OperandsInPlace' /\ Ready(Machine, block, next)'
<1>1. b \in Block(fn)
  BY ProgramAssumption DEF Sound, Framed
<1>2. PICK p, n : p = block /\ n = Arrive(m, p, b)
  OBVIOUS
<1>3. Becomes(n) /\ block' = b /\ next' = Len(Phis(fn, b)) + 1
  BY <1>2 DEF GoTo
<1>4. Ready(n, b, Len(Phis(fn, b)) + 1)
  BY <1>1, <1>2, ArriveReady
<1>5. Honest(n)
  BY <1>4 DEF Ready
<1>. QED BY <1>3, <1>4, <1>5, ReadyStep

(***************************************************************************)
(* Every step keeps the values that are live in their homes, and reads     *)
(* what it expects.                                                        *)
(***************************************************************************)
LEMMA PlacedStep ==
    ASSUME CodegenInv, Given, HomesApart, CallsSpared, Placed, [Next]_vars
    PROVE  Placed'
<1>1. CASE Allocate
  <2>1. fn' = fn /\ phase = "allocate" /\ phase' = phase /\ block' = block /\ next' = next /\ seen' = seen
    BY <1>1 DEF Allocate, machine
  <2>2. seen' = {}
    BY <2>1 DEF Placed
  <2>. QED BY <2>1, <2>2 DEF Placed, OperandsInPlace
<1>2. CASE Enter
  <2>1. PICK m : m = SaveParams(Prologue(ArgsPassed))
    OBVIOUS
  <2>2. /\ Becomes(m) /\ UNCHANGED <<fn, scan>> /\ queue = <<>> /\ phase = "allocate" /\ phase' = "run"
        /\ block' = block /\ next' = next
    BY <1>2, <2>1 DEF Enter
  <2>3. block = 1 /\ next = Len(Phis(fn, 1)) + 1
    BY <2>2 DEF Placed
  <2>4. ASSUME Strict(fn), PairsInReach
        PROVE  OperandsInPlace' /\ Ready(Machine, block, next)'
    <3>1. Sound
      BY <2>2, <2>4, SoundOnceScanned
    <3>2. Ready(m, 1, 1)
      BY <2>1, <3>1, EnterReady
    <3>3. Phis(fn, 1) = <<>>
      BY <2>4 DEF Strict
    <3>4. block' = 1 /\ next' = 1
      BY <2>2, <2>3, <3>3
    <3>. QED BY <2>2, <3>2, <3>4, ReadyStep DEF Ready
  <2>5. (Strict(fn) /\ PairsInReach)' => Strict(fn) /\ PairsInReach
    BY <2>2, ReadyStep
  <2>. QED BY <2>2, <2>4, <2>5 DEF Placed
<1>3. ASSUME phase = "run", phase' \in {"run", "returned"}, UNCHANGED <<fn, scan>>, NEW m, Becomes(m),
             Strict(fn) /\ PairsInReach /\ Sound /\ Ready(Machine, block, next) =>
                 OperandsInPlace' /\ (phase' = "run" => Ready(Machine, block, next)')
      PROVE  Placed'
  <2>1. (Strict(fn) /\ PairsInReach)' => Strict(fn) /\ PairsInReach
    BY <1>3, ReadyStep
  <2>2. Strict(fn) /\ PairsInReach => Sound /\ Ready(Machine, block, next)
    BY <1>3, SoundOnceScanned DEF CodegenInv, Placed
  <2>. QED BY <1>3, <2>1, <2>2 DEF Placed
<1>4. CASE Straight
  <2>1. phase = "run" /\ UNCHANGED <<fn, scan>> /\ phase' = phase /\ block' = block /\ next' = next + 1
    BY <1>4 DEF Straight
  <2>2. \E m : Becomes(m)
    BY <1>4 DEF Straight
  <2>3. ASSUME PairsInReach, Sound, Ready(Machine, block, next)
        PROVE  OperandsInPlace' /\ Ready(Machine, block, next)'
    <3>1. block \in Block(fn) /\ next \in 1..(Size(fn, block) - 1)
      <4>1. Inst.op \notin {"jmp", "br", "ret"}
        BY <1>4 DEF Straight
      <4>. QED BY <2>1, <4>1, AtTheEnd
    <3>2. PICK m : Becomes(m) /\ Ready(m, block, next + 1)
      BY <1>4, <2>3, <3>1, StraightReady
    <3>3. Ready(m, block', next')
      BY <2>1, <3>2
    <3>4. Honest(m)
      BY <3>2 DEF Ready
    <3>. QED BY <2>1, <3>2, <3>3, <3>4, ReadyStep
  <2>. QED BY <1>3, <2>1, <2>2, <2>3
<1>5. CASE Jump
  <2>1. PICK m, b : m = Machine /\ b = Inst.to[1]
    OBVIOUS
  <2>2. phase = "run" /\ Inst.op = "jmp" /\ GoTo(m, b)
    BY <1>5, <2>1 DEF Jump
  <2>3. UNCHANGED <<fn, scan>> /\ phase' = phase /\ Becomes(Arrive(m, block, b))
    BY <2>2 DEF GoTo
  <2>4. block \in Block(fn) /\ next = Size(fn, block) /\ b \in Successors(fn, block)
    BY <2>1, <2>2, AtTheEnd
  <2>5. Sound /\ Ready(m, block, next) => OperandsInPlace' /\ Ready(Machine, block, next)'
    BY <2>2, <2>3, <2>4, GoToReady
  <2>. QED BY <1>3, <2>1, <2>2, <2>3, <2>5
<1>6. CASE Branch
  <2>1. PICK c, m : c = Inst.args[1] /\ m = Operand(Machine, c, "t0")
    OBVIOUS
  <2>2. phase = "run" /\ Inst.op = "br" /\ \E b \in ToSet(Inst.to) : GoTo(m, b)
    BY <1>6, <2>1 DEF Branch
  <2>3. PICK b \in ToSet(Inst.to) : GoTo(m, b)
    BY <2>2
  <2>4. UNCHANGED <<fn, scan>> /\ phase' = phase /\ Becomes(Arrive(m, block, b))
    BY <2>3 DEF GoTo
  <2>5. /\ block \in Block(fn) /\ next = Size(fn, block) /\ b \in Successors(fn, block)
        /\ next \in 1..Size(fn, block) /\ Inst = fn.body[block][next]
    BY <2>2, AtTheEnd
  <2>6. ASSUME Sound, Ready(Machine, block, next)
        PROVE  OperandsInPlace' /\ Ready(Machine, block, next)'
    <3>1. c \in ToSet(fn.body[block][next].args)
      BY <2>1, <2>2, <2>5, <2>6, ArgsAre
    <3>2. fn.body[block][next].op # "phi"
      BY <2>2, <2>5
    <3>3. PICK k : k = Machine
      OBVIOUS
    <3>4. Ready(m, block, next)
      BY <2>1, <2>5, <2>6, <3>1, <3>2, <3>3, OperandReady
    <3>. QED BY <2>3, <2>4, <2>5, <2>6, <3>4, GoToReady
  <2>. QED BY <1>3, <2>2, <2>4, <2>6
<1>7. CASE Return
  <2>1. PICK m, args : m = Machine /\ args = Inst.args
    OBVIOUS
  <2>2. PICK n : n = Leave(m, args)
    OBVIOUS
  <2>3. /\ phase = "run" /\ phase' = "returned" /\ Inst.op = "ret" /\ Becomes(n)
        /\ UNCHANGED <<fn, scan, block, next>>
    BY <1>7, <2>1, <2>2 DEF Return
  <2>4. block \in Block(fn) /\ next \in 1..Size(fn, block) /\ Inst = fn.body[block][next]
    BY <2>3, AtTheEnd
  <2>5. ASSUME Sound, Ready(Machine, block, next)
        PROVE  OperandsInPlace'
    <3>1. Complete(m) /\ Honest(m)
      BY <2>1, <2>5 DEF Ready
    <3>2. ASSUME args # <<>>
          PROVE  args[1] \in Values(fn) /\ At(m, Home(args[1])) = Holds(args[1])
      <4>1. PICK v : v = args[1]
        OBVIOUS
      <4>2. v \in ToSet(fn.body[block][next].args)
        BY <2>1, <2>4, <2>5, <3>2, <4>1, ArgsAre
      <4>3. fn.body[block][next].op # "phi"
        BY <2>3, <2>4
      <4>4. v \in Values(fn) /\ Live(v, block, next)
        BY <2>4, <2>5, <4>2, <4>3, OperandsLive
      <4>5. At(m, Home(v)) = Holds(v)
        BY <2>1, <2>5, <4>4 DEF Ready, LiveAt
      <4>. QED BY <4>1, <4>4, <4>5
    <3>3. Honest(n)
      BY <2>2, <2>5, <3>1, <3>2, ReturnDone
    <3>. QED BY <2>3, <3>3, ReadyStep
  <2>. QED BY <1>3, <2>3, <2>5
<1>8. CASE UNCHANGED vars
  <2>1. UNCHANGED <<fn, phase, scan, block, next, regs, mem, seen>>
    BY <1>8 DEF vars, machine
  <2>2. PICK m : m = [regs |-> regs, mem |-> mem, seen |-> seen]
    OBVIOUS
  <2>3. m.regs = regs /\ m.mem = mem /\ m.seen = seen
    BY <2>2
  <2>4. Becomes(m)
    BY <2>1, <2>3 DEF Becomes
  <2>5. OperandsInPlace => OperandsInPlace'
    BY <2>1 DEF OperandsInPlace
  <2>6. PICK b, k : b = block /\ k = next
    OBVIOUS
  <2>7. Ready(Machine, b, k) /\ OperandsInPlace => Ready(m, b, k)
    <3>1. PICK n : n = Machine
      OBVIOUS
    <3>2. n.regs = m.regs /\ n.mem = m.mem
      BY <2>3, <3>1 DEF Machine
    <3>3. \A p : At(n, p) = At(m, p)
      BY <3>2 DEF At
    <3>4. Complete(n) => Complete(m)
      BY <2>2, <2>3, <3>2 DEF Complete
    <3>. QED BY <2>3, <3>1, <3>3, <3>4 DEF Ready, Honest, OperandsInPlace
  <2>8. (Strict(fn) /\ PairsInReach)' => Strict(fn) /\ PairsInReach
    BY <2>1, <2>4, ReadyStep
  <2>9. block' = b /\ next' = k /\ fn' = fn /\ phase' = phase /\ seen' = seen
    BY <2>1, <2>6
  <2>10. Ready(m, b, k) => Ready(Machine, block, next)'
    BY <2>1, <2>4, <2>9, ReadyStep
  <2>. QED BY <2>5, <2>6, <2>7, <2>8, <2>9, <2>10 DEF Placed
<1>. QED BY <1>1, <1>2, <1>4, <1>5, <1>6, <1>7, <1>8 DEF Next

-----------------------------------------------------------------------------
(* The linear scan of a function is LinearScanList                          *)

\* One index for every function, and the intervals that run to it.
AnyIndex == Max({0} \cup {MaxIndexOf(f) : f \in Program})

\* What f says of the values of fn; the values of other functions come last.
Padded(f) == [v \in AnyValue |-> IF v \in Values(fn) THEN f[v] ELSE AnyIndex]

Others == AnyValue \ Values(fn)
Rest   == CHOOSE q \in SetToSeqs(Others) : TRUE

\* The linear scan over the values of all functions, of which only fn's have
\* their turn.
Whole == INSTANCE LinearScanListProofs WITH
            Value <- AnyValue,
            MaxIndex <- AnyIndex,
            start <- Padded(start),
            end <- Padded(end),
            queue <- queue \o Rest,
            alloc <- [v \in AnyValue |-> IF v \in Values(fn) THEN alloc[v] ELSE Scan!LS!Unplaced]

(***************************************************************************)
(* There are finitely many values, and an index above all.                 *)
(***************************************************************************)
LEMMA AnyIndexBounds ==
    /\ IsFiniteSet(AnyValue) /\ AnyIndex \in Nat
    /\ \A f \in Program : MaxIndexOf(f) \in Nat /\ MaxIndexOf(f) <= AnyIndex
<1>1. PICK S : S = {0} \cup {MaxIndexOf(f) : f \in Program}
  OBVIOUS
<1>2. \A f \in Program : MaxIndexOf(f) \in Nat
  BY ProgramLaid, IdxRange
<1>3. S \in SUBSET Int /\ S # {} /\ IsFiniteSet(S)
  <2>1. PICK g : g = [f \in Program |-> MaxIndexOf(f)]
    OBVIOUS
  <2>2. PICK T : T = {MaxIndexOf(f) : f \in Program}
    OBVIOUS
  <2>3. g \in Surjection(Program, T)
    BY <2>1, <2>2 DEF Surjection
  <2>4. IsFiniteSet(T)
    BY <2>3, ProgramAssumption, FS_Surjection
  <2>5. IsFiniteSet({0})
    BY FS_Singleton
  <2>6. IsFiniteSet({0} \cup T)
    BY <2>4, <2>5, FS_Union
  <2>. QED BY <1>1, <1>2, <2>2, <2>6
<1>4. Max(S) \in S /\ \A y \in S : Max(S) >= y
  BY <1>3, MaxOfFinite
<1>5. AnyIndex \in Nat /\ \A f \in Program : MaxIndexOf(f) <= AnyIndex
  BY <1>1, <1>2, <1>4 DEF AnyIndex
<1>6. IsFiniteSet(AnyValue)
  <2>1. PICK V : V = {Values(f) : f \in Program}
    OBVIOUS
  <2>2. PICK g : g = [f \in Program |-> Values(f)]
    OBVIOUS
  <2>3. g \in Surjection(Program, V)
    BY <2>1, <2>2 DEF Surjection
  <2>4. IsFiniteSet(V)
    BY <2>3, ProgramAssumption, FS_Surjection
  <2>5. \A T \in V : IsFiniteSet(T)
    BY <2>1, ValuesFinite
  <2>6. IsFiniteSet(UNION V)
    BY <2>4, <2>5, FS_UNION
  <2>. QED BY <2>1, <2>6 DEF AnyValue
<1>. QED BY <1>2, <1>5, <1>6

(***************************************************************************)
(* The pools are what LinearScanList asks for (regalloc.rs:5-15).          *)
(***************************************************************************)
LEMMA WholePools == Whole!ListPoolsAssumption
<1>1. \A s : Whole!ToSet(s) = ToSet(s)
  BY DEF Whole!ToSet, ToSet
<1>2. \A s : Whole!IsInjective(s) <=> IsInjective(s)
  BY DEF Whole!IsInjective, IsInjective
<1>3. IsInjective(CallerPool \o CalleePool) /\ CallerPool \in Seq(ToSet(CallerPool))
      /\ CalleePool \in Seq(ToSet(CalleePool))
  BY RegistersAssumption
<1>4. Whole!IsInjective(CallerPool \o CalleePool)
  BY <1>2, <1>3
<1>5. Whole!IsFiniteSet(AnyValue) <=> IsFiniteSet(AnyValue)
  BY DEF Whole!IsFiniteSet, IsFiniteSet
<1>. QED BY <1>1, <1>3, <1>4, <1>5, AnyIndexBounds DEF Whole!ListPoolsAssumption

-----------------------------------------------------------------------------
(* The scan over all values                                                 *)

(***************************************************************************)
(* The values that never have their turn, once each.                       *)
(***************************************************************************)
LEMMA RestFacts ==
    /\ Rest \in Seq(Others) /\ Len(Rest) = Cardinality(Others)
    /\ \A i, j \in 1..Len(Rest) : Rest[i] = Rest[j] => i = j
<1>1. IsFiniteSet(Others)
  <2>1. Others \in SUBSET AnyValue
    BY DEF Others
  <2>. QED BY <2>1, AnyIndexBounds, FS_Subset
<1>2. PICK n \in Nat : n = Cardinality(Others)
  BY <1>1, FS_CardinalityType
<1>3. PICK g : g \in Bijection(1..n, Others)
  BY <1>1, <1>2, FS_CardinalityType DEF ExistsBijection
<1>4. g \in SetToSeqs(Others)
  <2>1. g \in [1..n -> Others] /\ \A i, j \in 1..n : i # j => g[i] # g[j]
    BY <1>3 DEF Bijection, Injection, IsInjective
  <2>. QED BY <1>2, <2>1 DEF SetToSeqs
<1>5. Rest \in SetToSeqs(Others)
  BY <1>4 DEF Rest
<1>6. Rest \in [1..n -> Others] /\ \A i, j \in 1..n : i # j => Rest[i] # Rest[j]
  BY <1>2, <1>5 DEF SetToSeqs
<1>. QED BY <1>2, <1>6

(***************************************************************************)
(* The start of the scan is a start of LinearScanList (regalloc.rs:217-232)*)
(***************************************************************************)
LEMMA WholeInit == Init => Whole!Init
<1>. SUFFICES ASSUME Init PROVE Whole!Init
  OBVIOUS
<1>1. /\ fn \in Program /\ queue \in ByStart(fn) /\ active = <<>>
      /\ callerStack = Reverse(CallerPool) /\ calleeStack = Reverse(CalleePool)
      /\ usedCallee = {} /\ nextSlot = 0
      /\ alloc = [v \in Values(fn) |-> Scan!LS!Unplaced]
  BY DEF Init
<1>2. Given
  BY DEF Init, Given
<1>. PICK V, s, e : V = Values(fn) /\ s = Padded(start) /\ e = Padded(end)
  OBVIOUS
<1>3. /\ V \subseteq AnyValue /\ AnyIndex \in Nat /\ MaxIndexOf(fn) \in Nat /\ MaxIndexOf(fn) <= AnyIndex
      /\ \A v \in V : s[v] = start[v] /\ e[v] = end[v]
      /\ \A v \in Others : s[v] = AnyIndex /\ e[v] = AnyIndex
      /\ Others = AnyValue \ V
  BY <1>1, AnyIndexBounds DEF AnyValue, Padded, Others
<1>4. /\ \A v \in V : start[v] \in 0..AnyIndex /\ end[v] \in 0..AnyIndex /\ start[v] <= end[v]
      /\ calls \in SUBSET (1..AnyIndex)
  <2>1. /\ \A v \in V : /\ start[v] \in 0..MaxIndexOf(fn) /\ end[v] \in 0..MaxIndexOf(fn)
                        /\ start[v] <= end[v]
        /\ calls \subseteq 1..MaxIndexOf(fn)
    BY <1>2, GivenFacts
  <2>. QED BY <1>3, <2>1
<1>5. /\ s \in [AnyValue -> 0..AnyIndex] /\ e \in [AnyValue -> 0..AnyIndex]
      /\ \A v \in AnyValue : s[v] <= e[v]
  <2>1. \A v \in AnyValue : v \in V \/ v \in Others
    BY <1>3
  <2>2. \A v \in AnyValue : s[v] \in 0..AnyIndex /\ e[v] \in 0..AnyIndex /\ s[v] <= e[v]
    BY <1>3, <1>4, <2>1
  <2>3. s = [v \in AnyValue |-> s[v]] /\ e = [v \in AnyValue |-> e[v]]
    BY DEF Padded
  <2>. QED BY <2>2, <2>3
<1>6. V \cup Others = AnyValue /\ V \cap Others = {}
  BY <1>3
<1>7. SortedList(queue, V, s)
  <2>1. SortedList(queue, V, start)
    BY <1>1, ByStartHoldsAll
  <2>2. \A i \in 1..Cardinality(V) : s[queue[i]] = start[queue[i]]
    BY <1>3, <2>1 DEF SortedList
  <2>. QED BY <2>1, <2>2 DEF SortedList
<1>8. SortedList(Rest, Others, s)
  <2>1. Others \in SUBSET AnyValue
    BY DEF Others
  <2>2. IsFiniteSet(Others)
    BY <2>1, AnyIndexBounds, FS_Subset
  <2>3. Rest \in [1..Len(Rest) -> Others] /\ Len(Rest) = Cardinality(Others)
    <3>1. Rest \in Seq(Others) /\ Len(Rest) = Cardinality(Others)
      BY RestFacts
    <3>. QED BY ONLY <3>1
  <2>4. \A i, j \in 1..Len(Rest) : Rest[i] = Rest[j] => i = j
    BY RestFacts
  <2>5. \A i \in 1..Len(Rest) : s[Rest[i]] = AnyIndex
    BY <1>3, <2>3
  <2>6. \A i, j \in 1..Len(Rest) : s[Rest[i]] <= s[Rest[j]]
    BY <1>3, <2>5
  <2>. QED BY <2>2, <2>3, <2>4, <2>6 DEF SortedList
<1>9. \A u \in V, v \in Others : s[u] <= s[v]
  BY <1>3, <1>4
<1>10. PICK q : q = queue \o Rest
  OBVIOUS
<1>11. SortedList(q, AnyValue, s)
  BY <1>6, <1>7, <1>8, <1>9, <1>10, SortedTogether
<1>12. q \in Whole!SortedByStart
  <2>1. Whole!Cardinality(AnyValue) = Cardinality(AnyValue)
    BY DEF Whole!Cardinality, Cardinality
  <2>2. q \in Whole!SetToSeqs(AnyValue)
    BY <1>11, <2>1 DEF Whole!SetToSeqs, SortedList
  <2>3. DOMAIN q = 1..Cardinality(AnyValue)
    BY <1>11 DEF SortedList
  <2>. QED BY <1>11, <2>2, <2>3 DEF Whole!SortedByStart, SortedList
<1>13. callerStack = Whole!Reverse(CallerPool) /\ calleeStack = Whole!Reverse(CalleePool)
  BY <1>1 DEF Whole!Reverse, Reverse
<1>14. [v \in AnyValue |-> IF v \in Values(fn) THEN alloc[v] ELSE Scan!LS!Unplaced]
         = [v \in AnyValue |-> Whole!LS!Unplaced]
  BY <1>1 DEF Scan!LS!Unplaced, Whole!LS!Unplaced
<1>. QED BY <1>1, <1>4, <1>5, <1>10, <1>12, <1>13, <1>14 DEF Whole!Init

-----------------------------------------------------------------------------
(* Every step of the scan is a step of LinearScanList                       *)

(***************************************************************************)
(* The library's operators are the same in LinearScanList and here.        *)
(***************************************************************************)
LEMMA WholeOperators ==
    /\ \A l, S : Whole!Keep(l, S) = Keep(l, S)
    /\ \A l : Whole!ToSet(l) = ToSet(l) /\ Whole!Last(l) = Last(l) /\ Whole!Front(l) = Front(l)
    /\ \A S : Whole!Max(S) = Max(S)
    /\ \A l, i : Whole!RemoveAt(l, i) = RemoveAt(l, i)
    /\ \A l, i, a : Whole!InsertAt(l, i, a) = InsertAt(l, i, a)
<1>1. \A l, S : Whole!Keep(l, S) = Keep(l, S)
  BY DEF Whole!Keep, Keep
<1>2. \A l : Whole!ToSet(l) = ToSet(l) /\ Whole!Last(l) = Last(l) /\ Whole!Front(l) = Front(l)
  BY DEF Whole!ToSet, ToSet, Whole!Last, Last, Whole!Front, Front
<1>3. \A S : Whole!Max(S) = Max(S)
  BY DEF Whole!Max, Max
<1>4. \A l, i : Whole!RemoveAt(l, i) = RemoveAt(l, i)
  BY DEF Whole!RemoveAt, RemoveAt
<1>5. \A l, i, a : Whole!InsertAt(l, i, a) = InsertAt(l, i, a)
  BY DEF Whole!InsertAt, InsertAt
<1>. QED BY <1>1, <1>2, <1>3, <1>4, <1>5

(***************************************************************************)
(* What f says of the values of fn is unchanged.                           *)
(***************************************************************************)
LEMMA PaddedIs ==
    ASSUME fn \in Program
    PROVE  Values(fn) \subseteq AnyValue /\ \A f : \A v \in Values(fn) : Padded(f)[v] = f[v]
BY DEF Padded, AnyValue

(***************************************************************************)
(* The insertion point is the same, and the candidate.                     *)
(***************************************************************************)
LEMMA WholeInsert ==
    ASSUME fn \in Program, NEW R, NEW list \in Seq(Values(fn) \X R), NEW a \in Values(fn) \X R
    PROVE  Whole!InsertByEnd(list, a) = Scan!InsertByEnd(list, a)
<1>1. PICK P : P = Padded(end)
  OBVIOUS
<1>2. \A v \in Values(fn) : P[v] = end[v]
  BY <1>1, PaddedIs
<1>3. a[1] \in Values(fn) /\ \A i \in 1..Len(list) : list[i][1] \in Values(fn)
  OBVIOUS
<1>4. PICK I : I = {i \in 1..Len(list) : end[list[i][1]] <= end[a[1]]}
  OBVIOUS
<1>5. I = {i \in 1..Len(list) : P[list[i][1]] <= P[a[1]]}
  BY <1>2, <1>3, <1>4
<1>6. PICK pos : pos = IF I # {} THEN Max(I) ELSE 0
  OBVIOUS
<1>7. Scan!InsertByEnd(list, a) = InsertAt(list, pos + 1, a)
  BY <1>4, <1>6, SameOperators DEF Scan!InsertByEnd, Scan!SelectLastInSeq
<1>8. Whole!InsertByEnd(list, a) = InsertAt(list, pos + 1, a)
  BY <1>1, <1>5, <1>6, WholeOperators DEF Whole!InsertByEnd, Whole!SelectLastInSeq
<1>. QED BY <1>7, <1>8

(***************************************************************************)
(* A value of fn crosses the same calls, and the candidate is the same.    *)
(***************************************************************************)
LEMMA WholeChoices ==
    ASSUME fn \in Program
    PROVE  /\ \A v \in Values(fn) : Whole!Crosses(v) = Scan!Crosses(v)
           /\ \A list, crosses : Whole!Candidate(list, crosses) = Scan!Candidate(list, crosses)
<1>1. \A v \in Values(fn) : Whole!Crosses(v) = Scan!Crosses(v)
  BY PaddedIs DEF Whole!Crosses, Scan!Crosses
<1>2. \A list, crosses : Whole!Candidate(list, crosses) = Scan!Candidate(list, crosses)
  <2>. SUFFICES ASSUME NEW list, NEW crosses
                PROVE  Whole!Candidate(list, crosses) = Scan!Candidate(list, crosses)
    OBVIOUS
  <2>1. PICK I : I = {i \in 1..Len(list) : crosses => list[i][2] \in ToSet(CalleePool)}
    OBVIOUS
  <2>2. Scan!Candidate(list, crosses) = IF I # {} THEN Max(I) ELSE 0
    BY <2>1, SameOperators DEF Scan!Candidate, Scan!SelectLastInSeq
  <2>3. Whole!Candidate(list, crosses) = IF I # {} THEN Max(I) ELSE 0
    BY <2>1, WholeOperators DEF Whole!Candidate, Whole!SelectLastInSeq
  <2>. QED BY <2>2, <2>3
<1>. QED BY <1>1, <1>2

(***************************************************************************)
(* The expire loop leaves and frees the same.                              *)
(***************************************************************************)
LEMMA WholeExpire ==
    ASSUME fn \in Program, Scanned, NEW s
    PROVE  /\ Whole!Running(s) = Scan!Running(s)
           /\ \A pool : Whole!Pushed(s, pool) = Scan!Pushed(s, pool)
<1>1. PICK P : P = Padded(end)
  OBVIOUS
<1>2. \A a \in ToSet(active) : P[a[1]] = end[a[1]]
  <2>1. \A a \in ToSet(active) : a[1] \in Values(fn)
    BY DEF Scanned, Entry, ToSet
  <2>. QED BY <1>1, <2>1, PaddedIs
<1>3. PICK S, T : S = {a \in ToSet(active) : end[a[1]] > s} /\ T = {a \in ToSet(active) : end[a[1]] <= s}
  OBVIOUS
<1>4. S = {a \in ToSet(active) : P[a[1]] > s} /\ T = {a \in ToSet(active) : P[a[1]] <= s}
  BY <1>2, <1>3
<1>5. Whole!Running(s) = Keep(active, S) /\ Whole!Over(s) = Keep(active, T)
  BY <1>1, <1>4, WholeOperators DEF Whole!Running, Whole!Over
<1>6. Scan!Running(s) = Keep(active, S) /\ Scan!Over(s) = Keep(active, T)
  BY <1>3, SameOperators DEF Scan!Running, Scan!Over
<1>7. ASSUME NEW pool PROVE Whole!Pushed(s, pool) = Scan!Pushed(s, pool)
  <2>1. PICK over, F : over = Keep(active, T) /\ F = {a \in ToSet(active) : a[2] \in ToSet(pool)}
    OBVIOUS
  <2>2. PICK freed : freed = Keep(over, F)
    OBVIOUS
  <2>3. Whole!Pushed(s, pool) = [i \in DOMAIN freed |-> freed[i][2]]
    BY <1>5, <2>1, <2>2, WholeOperators DEF Whole!Pushed
  <2>4. Scan!Pushed(s, pool) = [i \in DOMAIN freed |-> freed[i][2]]
    BY <1>6, <2>1, <2>2, SameOperators DEF Scan!Pushed
  <2>. QED BY <2>3, <2>4
<1>. QED BY <1>5, <1>6, <1>7

\* What the scan has decided so far, for all values.
Wider(a) == [v \in AnyValue |-> IF v \in Values(fn) THEN a[v] ELSE Scan!LS!Unplaced]

(***************************************************************************)
(* A decision about a value of fn is one about a value.                    *)
(***************************************************************************)
LEMMA WiderSet ==
    ASSUME fn \in Program, NEW a, DOMAIN a = Values(fn), NEW v \in Values(fn), NEW x
    PROVE  Wider([a EXCEPT ![v] = x]) = [Wider(a) EXCEPT ![v] = x]
<1>1. v \in AnyValue
  BY PaddedIs
<1>2. PICK b, W, X : b = [a EXCEPT ![v] = x] /\ W = Wider(a) /\ X = [W EXCEPT ![v] = x]
  OBVIOUS
<1>3. W \in [AnyValue -> {W[u] : u \in AnyValue}] /\ DOMAIN W = AnyValue
      /\ \A u \in AnyValue : W[u] = IF u \in Values(fn) THEN a[u] ELSE Scan!LS!Unplaced
  BY <1>2 DEF Wider
<1>4. DOMAIN X = AnyValue /\ \A u \in AnyValue : X[u] = IF u = v THEN x ELSE W[u]
  BY <1>2, <1>3
<1>5. \A u \in Values(fn) : b[u] = IF u = v THEN x ELSE a[u]
  BY <1>2
<1>6. \A u \in AnyValue : X[u] = IF u \in Values(fn) THEN b[u] ELSE Scan!LS!Unplaced
  BY <1>3, <1>4, <1>5
<1>7. X = [u \in AnyValue |-> X[u]]
  BY <1>2, <1>3
<1>8. X = Wider(b)
  BY <1>6, <1>7 DEF Wider
<1>. QED BY <1>2, <1>8

(***************************************************************************)
(* A value that gets a free register gets it in the scan of all values     *)
(* (regalloc.rs:254-270).                                                  *)
(***************************************************************************)
LEMMA WholeTakeFree ==
    ASSUME fn \in Program, fn' = fn, Scanned, NEW v \in Values(fn), NEW running \in Seq(Entry),
           NEW caller \in Seq(ToSet(CallerPool)), NEW callee \in Seq(ToSet(CalleePool)),
           Scan!TakeFree(v, running, caller, callee)
    PROVE  Whole!TakeFree(v, running, caller, callee)
<1>1. PICK fromCaller, r : /\ fromCaller = (~Scan!Crosses(v) /\ caller # <<>>)
                           /\ r = IF fromCaller THEN Last(caller) ELSE Last(callee)
  OBVIOUS
<1>2. /\ fromCaller \/ callee # <<>>
      /\ callerStack' = IF fromCaller THEN Front(caller) ELSE caller
      /\ calleeStack' = IF fromCaller THEN callee ELSE Front(callee)
      /\ usedCallee' = IF fromCaller THEN usedCallee ELSE usedCallee \cup {r}
      /\ alloc' = [alloc EXCEPT ![v] = Scan!LS!InReg(r)]
      /\ active' = Scan!InsertByEnd(running, <<v, r>>)
      /\ nextSlot' = nextSlot
  BY <1>1, SameOperators DEF Scan!TakeFree
<1>3. fromCaller = (~Whole!Crosses(v) /\ caller # <<>>)
  BY <1>1, WholeChoices
<1>4. Scan!InsertByEnd(running, <<v, r>>) = Whole!InsertByEnd(running, <<v, r>>)
  <2>1. PICK R : R = ToSet(CallerPool) \cup usedCallee \cup {r}
    OBVIOUS
  <2>2. Entry \subseteq Values(fn) \X R /\ <<v, r>> \in Values(fn) \X R
    BY <2>1 DEF Entry
  <2>3. running \in Seq(Values(fn) \X R)
    BY <2>2
  <2>. QED BY <2>2, <2>3, WholeInsert
<1>5. Scan!LS!InReg(r) = Whole!LS!InReg(r)
  BY DEF Scan!LS!InReg, Whole!LS!InReg
<1>6. Wider(alloc)' = [Wider(alloc) EXCEPT ![v] = Whole!LS!InReg(r)]
  <2>1. Wider(alloc)' = Wider([alloc EXCEPT ![v] = Scan!LS!InReg(r)])
    BY <1>2 DEF Wider
  <2>2. DOMAIN alloc = Values(fn)
    BY DEF Scanned
  <2>3. Wider([alloc EXCEPT ![v] = Scan!LS!InReg(r)]) = [Wider(alloc) EXCEPT ![v] = Scan!LS!InReg(r)]
    BY <2>2, WiderSet
  <2>. QED BY <1>5, <2>1, <2>3
<1>7. /\ fromCaller \/ callee # <<>>
      /\ callerStack' = IF fromCaller THEN Whole!Front(caller) ELSE caller
      /\ calleeStack' = IF fromCaller THEN callee ELSE Whole!Front(callee)
      /\ usedCallee' = IF fromCaller THEN usedCallee ELSE usedCallee \cup {r}
      /\ active' = Whole!InsertByEnd(running, <<v, r>>)
      /\ nextSlot' = nextSlot
      /\ r = IF fromCaller THEN Whole!Last(caller) ELSE Whole!Last(callee)
  BY <1>1, <1>2, <1>4, WholeOperators
<1>. QED BY <1>3, <1>6, <1>7 DEF Whole!TakeFree, Wider

(***************************************************************************)
(* A value that gets a slot, or takes another's register, does so in the   *)
(* scan of all values (regalloc.rs:272-306).                               *)
(***************************************************************************)
LEMMA WholeSpill ==
    ASSUME fn \in Program, fn' = fn, Scanned, NEW v \in Values(fn), NEW running \in Seq(Entry),
           NEW caller, NEW callee,
           Scan!Spill(v, running, caller, callee)
    PROVE  Whole!Spill(v, running, caller, callee)
<1>1. PICK i : i = Scan!Candidate(running, Scan!Crosses(v)) /\ i = Whole!Candidate(running, Whole!Crosses(v))
  BY WholeChoices
<1>2. i \in 0..Len(running)
  BY <1>1, CandidateRange
<1>3. PICK evict : evict = (i # 0 /\ end[running[i][1]] > end[v])
  OBVIOUS
<1>4. evict = (i # 0 /\ Padded(end)[running[i][1]] > Padded(end)[v])
  <2>1. i # 0 => running[i][1] \in Values(fn)
    <3>. SUFFICES ASSUME i # 0 PROVE running[i] \in Entry
      BY DEF Entry
    <3>1. i \in 1..Len(running)
      BY <1>2
    <3>. QED BY <3>1
  <2>. QED BY <1>3, <2>1, PaddedIs
<1>5. /\ callee = <<>> /\ (Scan!Crosses(v) \/ caller = <<>>)
      /\ callerStack' = caller /\ calleeStack' = callee
      /\ usedCallee' = usedCallee /\ nextSlot' = nextSlot + 1
      /\ \/ /\ evict
            /\ alloc' = [alloc EXCEPT ![running[i][1]] = Scan!LS!InSlot(nextSlot),
                                      ![v] = Scan!LS!InReg(running[i][2])]
            /\ active' = Scan!InsertByEnd(RemoveAt(running, i), <<v, running[i][2]>>)
         \/ /\ ~evict
            /\ alloc' = [alloc EXCEPT ![v] = Scan!LS!InSlot(nextSlot)]
            /\ active' = running
  BY <1>1, <1>3, SameOperators DEF Scan!Spill
<1>6. DOMAIN alloc = Values(fn)
  BY DEF Scanned
<1>7. /\ Scan!LS!InSlot(nextSlot) = Whole!LS!InSlot(nextSlot)
      /\ \A r : Scan!LS!InReg(r) = Whole!LS!InReg(r)
  BY DEF Scan!LS!InSlot, Whole!LS!InSlot, Scan!LS!InReg, Whole!LS!InReg
<1>8. \/ /\ evict
         /\ Wider(alloc)' = [Wider(alloc) EXCEPT ![running[i][1]] = Whole!LS!InSlot(nextSlot),
                                                 ![v] = Whole!LS!InReg(running[i][2])]
         /\ active' = Whole!InsertByEnd(Whole!RemoveAt(running, i), <<v, running[i][2]>>)
      \/ /\ ~evict
         /\ Wider(alloc)' = [Wider(alloc) EXCEPT ![v] = Whole!LS!InSlot(nextSlot)]
         /\ active' = running
  <2>1. CASE evict
    <3>0. i # 0
      BY <1>3, <2>1
    <3>1. i \in 1..Len(running)
      BY <1>2, <3>0
    <3>2. running[i] \in Entry
      BY <3>1
    <3>3. PICK o, r : o = running[i][1] /\ r = running[i][2] /\ o \in Values(fn) /\ <<v, r>> \in Entry
      BY <3>2 DEF Entry
    <3>4. PICK short : short = RemoveAt(running, i)
      OBVIOUS
    <3>5. short \in Seq(Entry)
      BY <3>1, <3>4, Removed
    <3>6. Scan!InsertByEnd(short, <<v, r>>) = Whole!InsertByEnd(short, <<v, r>>)
      <4>1. Entry = Values(fn) \X (ToSet(CallerPool) \cup usedCallee)
        BY DEF Entry
      <4>. QED BY <3>3, <3>5, <4>1, WholeInsert
    <3>7. PICK mid : mid = [alloc EXCEPT ![o] = Scan!LS!InSlot(nextSlot)]
      OBVIOUS
    <3>8. alloc' = [mid EXCEPT ![v] = Scan!LS!InReg(r)] /\ DOMAIN mid = Values(fn)
      BY <1>5, <1>6, <2>1, <3>3, <3>7
    <3>9. Wider(alloc)' = Wider([mid EXCEPT ![v] = Scan!LS!InReg(r)])
      BY <3>8 DEF Wider
    <3>10. Wider([mid EXCEPT ![v] = Scan!LS!InReg(r)]) = [Wider(mid) EXCEPT ![v] = Scan!LS!InReg(r)]
      BY <3>8, WiderSet
    <3>11. Wider(mid) = [Wider(alloc) EXCEPT ![o] = Scan!LS!InSlot(nextSlot)]
      BY <1>6, <3>3, <3>7, WiderSet
    <3>12. active' = Whole!InsertByEnd(Whole!RemoveAt(running, i), <<v, r>>)
      BY <1>5, <2>1, <3>3, <3>4, <3>6, WholeOperators
    <3>. QED BY <1>7, <2>1, <3>3, <3>9, <3>10, <3>11, <3>12
  <2>2. CASE ~evict
    <3>1. alloc' = [alloc EXCEPT ![v] = Scan!LS!InSlot(nextSlot)] /\ active' = running
      BY <1>5, <2>2
    <3>2. Wider(alloc)' = Wider([alloc EXCEPT ![v] = Scan!LS!InSlot(nextSlot)])
      BY <3>1 DEF Wider
    <3>3. Wider([alloc EXCEPT ![v] = Scan!LS!InSlot(nextSlot)])
            = [Wider(alloc) EXCEPT ![v] = Scan!LS!InSlot(nextSlot)]
      BY <1>6, WiderSet
    <3>. QED BY <1>7, <2>2, <3>1, <3>2, <3>3
  <2>. QED BY <2>1, <2>2
<1>9. callee = <<>> /\ (Whole!Crosses(v) \/ caller = <<>>)
  BY <1>5, WholeChoices
<1>. QED BY <1>1, <1>4, <1>5, <1>8, <1>9 DEF Whole!Spill, Wider

(***************************************************************************)
(* Every iteration of the loop is one of LinearScanList (regalloc.rs:      *)
(* 234-307).                                                               *)
(***************************************************************************)
LEMMA WholePlace ==
    ASSUME Given, Scanned, Scan!Place, fn' = fn
    PROVE  Whole!Place
<1>1. PICK v, s : v = Head(queue) /\ s = start[v]
  OBVIOUS
<1>2. PICK running, caller, callee :
         /\ running = Scan!Running(s)
         /\ caller = callerStack \o Scan!Pushed(s, CallerPool)
         /\ callee = calleeStack \o Scan!Pushed(s, CalleePool)
  OBVIOUS
<1>3. /\ queue # <<>> /\ queue' = Tail(queue)
      /\ UNCHANGED <<start, end, calls>>
      /\ Scan!TakeFree(v, running, caller, callee) \/ Scan!Spill(v, running, caller, callee)
  BY <1>1, <1>2 DEF Scan!Place
<1>4. /\ running \in Seq(Entry)
      /\ caller \in Seq(ToSet(CallerPool)) /\ callee \in Seq(ToSet(CalleePool))
  BY <1>2, ExpireKeeps
<1>5. fn \in Program
  BY DEF Given
<1>6. queue \in Seq(Values(fn)) /\ v \in Values(fn)
  BY <1>1, <1>3 DEF Scanned
<1>7. Whole!TakeFree(v, running, caller, callee) \/ Whole!Spill(v, running, caller, callee)
  BY <1>3, <1>4, <1>5, <1>6, WholeTakeFree, WholeSpill
<1>8. PICK q : q = queue \o Rest
  OBVIOUS
<1>9. q # <<>> /\ Head(q) = v /\ (queue \o Rest)' = Tail(q)
  <2>1. queue \in Seq(AnyValue) /\ Rest \in Seq(AnyValue)
    <3>1. Values(fn) \subseteq AnyValue /\ Others \subseteq AnyValue
      BY <1>5, PaddedIs DEF Others
    <3>2. Rest \in Seq(Others)
      BY RestFacts
    <3>. QED BY ONLY <1>6, <3>1, <3>2
  <2>2. q # <<>> /\ Head(q) = Head(queue) /\ Tail(q) = Tail(queue) \o Rest
    BY <1>3, <1>8, <2>1, JoinedTail
  <2>3. Rest' = Rest
    BY <1>3 DEF Rest, Others
  <2>. QED BY <1>1, <1>3, <2>2, <2>3
<1>10. Padded(start)[v] = s /\ UNCHANGED <<Padded(start), Padded(end), calls>>
  BY <1>1, <1>3, <1>5, <1>6, PaddedIs DEF Padded
<1>11. /\ running = Whole!Running(s)
       /\ caller = callerStack \o Whole!Pushed(s, CallerPool)
       /\ callee = calleeStack \o Whole!Pushed(s, CalleePool)
  BY <1>2, <1>5, WholeExpire
<1>12. /\ queue \o Rest # <<>> /\ (queue \o Rest)' = Tail(queue \o Rest)
       /\ v = Head(queue \o Rest) /\ s = Padded(start)[Head(queue \o Rest)]
  BY <1>8, <1>9, <1>10
<1>13. CASE Whole!TakeFree(v, running, caller, callee)
  <2>1. Whole!TakeFree(Head(queue \o Rest), Whole!Running(Padded(start)[Head(queue \o Rest)]),
          callerStack \o Whole!Pushed(Padded(start)[Head(queue \o Rest)], CallerPool),
          calleeStack \o Whole!Pushed(Padded(start)[Head(queue \o Rest)], CalleePool))
    BY <1>11, <1>12, <1>13 DEF Whole!TakeFree
  <2>. QED BY <1>10, <1>12, <2>1 DEF Whole!Place
<1>14. CASE Whole!Spill(v, running, caller, callee)
  <2>1. Whole!Spill(Head(queue \o Rest), Whole!Running(Padded(start)[Head(queue \o Rest)]),
          callerStack \o Whole!Pushed(Padded(start)[Head(queue \o Rest)], CallerPool),
          calleeStack \o Whole!Pushed(Padded(start)[Head(queue \o Rest)], CalleePool))
    BY <1>11, <1>12, <1>14 DEF Whole!Spill
  <2>. QED BY <1>10, <1>12, <2>1 DEF Whole!Place
<1>. QED BY <1>7, <1>13, <1>14

(***************************************************************************)
(* The compilation of a function runs the linear scan of LinearScanList:   *)
(* its allocation is one that loop makes, for any order of the intervals   *)
(* that start together, and the code that runs later does not touch it     *)
(* (regalloc.rs:70-314, select.rs:45-64).                                  *)
(***************************************************************************)
THEOREM AllocationIsLinearScan == Spec => Whole!Spec
<1>1. Init => Whole!Init
  BY WholeInit
<1>2. CodegenInv /\ Given /\ [Next]_vars => [Whole!Next]_(Whole!vars)
  <2>. SUFFICES ASSUME CodegenInv, Given, [Next]_vars PROVE [Whole!Next]_(Whole!vars)
    OBVIOUS
  <2>1. CASE Allocate
    <3>1. Scan!Place /\ fn' = fn /\ Scanned
      BY <2>1 DEF Allocate, CodegenInv
    <3>2. Whole!Place
      BY <3>1, WholePlace
    <3>. QED BY <3>2 DEF Whole!Next
  <2>2. CASE UNCHANGED <<fn, scan>>
    <3>1. /\ fn' = fn /\ start' = start /\ end' = end /\ calls' = calls /\ queue' = queue
          /\ active' = active /\ callerStack' = callerStack /\ calleeStack' = calleeStack
          /\ usedCallee' = usedCallee /\ alloc' = alloc /\ nextSlot' = nextSlot
      BY <2>2 DEF scan
    <3>2. Padded(start)' = Padded(start) /\ Padded(end)' = Padded(end) /\ Rest' = Rest
      BY <3>1 DEF Padded, Rest, Others
    <3>. QED BY <3>1, <3>2 DEF Whole!vars
  <2>3. CASE Enter \/ Straight \/ Return
    BY <2>2, <2>3 DEF Enter, Straight, Return
  <2>4. CASE Jump \/ Branch
    BY <2>2, <2>4 DEF Jump, Branch, GoTo
  <2>5. CASE UNCHANGED vars
    BY <2>2, <2>5 DEF vars
  <2>. QED BY <2>1, <2>3, <2>4, <2>5 DEF Next
<1>3. Spec => []CodegenInv /\ []Given
  BY CodegenInvariant, GivenAlways
<1>. QED BY <1>1, <1>2, <1>3, PTL DEF Spec, Whole!Spec

(***************************************************************************)
(* Once the scan is over no two values of the function that are alive      *)
(* together live in one register, or one word of the frame                 *)
(* (regalloc.rs:234-307, select.rs:66-83, 403-445).                        *)
(***************************************************************************)
THEOREM HomesAreApart == Spec => []HomesApart
<1>1. CodegenInv /\ Given /\ Whole!Proved!NoSharing /\ Whole!Proved!SlotsDisjoint => HomesApart
  <2>. SUFFICES ASSUME CodegenInv, Given, Whole!Proved!NoSharing, Whole!Proved!SlotsDisjoint, queue = <<>>,
                       NEW v \in Values(fn), NEW w \in Values(fn), v # w, Home(v) = Home(w)
                PROVE  end[v] <= start[w] \/ end[w] <= start[v]
    BY DEF HomesApart
  <2>1. fn \in Program /\ v \in AnyValue /\ w \in AnyValue
    BY PaddedIs DEF Given
  <2>2. /\ Padded(start)[v] = start[v] /\ Padded(start)[w] = start[w]
        /\ Padded(end)[v] = end[v] /\ Padded(end)[w] = end[w]
    BY <2>1, PaddedIs
  <2>3. PICK W : W = Wider(alloc)
    OBVIOUS
  <2>4. W[v] = alloc[v] /\ W[w] = alloc[w]
    BY <2>1, <2>3 DEF Wider
  <2>5. alloc[v] \in Places /\ alloc[w] \in Places
    <3>1. ToSet(queue) = {}
      BY DEF ToSet
    <3>. QED BY <3>1 DEF CodegenInv, Scanned
  <2>6. /\ W[v].kind = "reg" /\ W[w].kind = "reg" /\ W[v].reg = W[w].reg
             => end[v] <= start[w] \/ end[w] <= start[v]
        /\ W[v].kind = "slot" /\ W[w].kind = "slot" => W[v].slot # W[w].slot
    BY <2>1, <2>2, <2>3 DEF Wider, Whole!Proved!NoSharing, Whole!Proved!SlotsDisjoint,
       Whole!Proved!HasReg, Whole!Proved!RegHeld
  <2>7. CASE alloc[v].kind = "reg" /\ alloc[w].kind = "reg"
    BY <2>4, <2>6, <2>7 DEF Home, Reg
  <2>8. CASE alloc[v].kind = "slot" /\ alloc[w].kind = "slot"
    <3>1. SpillAt(alloc[v].slot) = SpillAt(alloc[w].slot)
      BY <2>8 DEF Home, Word
    <3>2. alloc[v].slot \in Int /\ alloc[w].slot \in Int /\ Len(Saved) \in Int
      <4>1. nextSlot \in Nat /\ Len(Saved) \in Nat
        BY SavedFacts DEF CodegenInv, Scanned, Framed
      <4>. QED BY <2>5, <2>8, <4>1 DEF Places, Scan!LS!InReg, Scan!LS!InSlot
    <3>3. alloc[v].slot = alloc[w].slot
      BY <3>1, <3>2 DEF SpillAt
    <3>. QED BY <2>4, <2>6, <2>8, <3>3
  <2>9. CASE alloc[v].kind # alloc[w].kind
    <3>1. Home(v).kind # Home(w).kind
      BY <2>5, <2>9 DEF Places, Home, Reg, Word, Scan!LS!InReg, Scan!LS!InSlot
    <3>. QED BY <3>1
  <2>10. /\ alloc[v].kind = "reg" \/ alloc[v].kind = "slot"
         /\ alloc[w].kind = "reg" \/ alloc[w].kind = "slot"
    BY <2>5 DEF Places, Scan!LS!InReg, Scan!LS!InSlot
  <2>. QED BY <2>7, <2>8, <2>9, <2>10
<1>2. Whole!Spec => []Whole!Proved!NoSharing /\ []Whole!Proved!SlotsDisjoint
  BY WholePools, Whole!ListsInherit
<1>. QED BY <1>1, <1>2, AllocationIsLinearScan, CodegenInvariant, GivenAlways, PTL

(***************************************************************************)
(* Once the scan is over a call overwrites the register of no value that   *)
(* is alive across it (regalloc.rs:252-283, select.rs:291-339).            *)
(***************************************************************************)
THEOREM CallsAreSpared == Spec => []CallsSpared
<1>1. Given /\ Whole!Proved!CallSafe => CallsSpared
  <2>. SUFFICES ASSUME Given, Whole!Proved!CallSafe, NEW v \in Values(fn), NEW i \in calls,
                       start[v] <= i, i <= end[v], Home(v).kind = "reg"
                PROVE  Home(v).at \notin CallerClobbered
    BY DEF CallsSpared
  <2>1. fn \in Program /\ v \in AnyValue /\ Padded(start)[v] = start[v] /\ Padded(end)[v] = end[v]
    BY PaddedIs DEF Given
  <2>2. PICK W : W = Wider(alloc)
    OBVIOUS
  <2>3. W[v] = alloc[v]
    BY <2>1, <2>2 DEF Wider
  <2>4. alloc[v].kind = "reg" /\ Home(v).at = alloc[v].reg
    BY DEF Home, Reg, Word
  <2>5. W[v].kind = "reg" => W[v].reg \in Whole!ToSet(CalleePool)
    BY <2>1, <2>2 DEF Wider, Whole!Proved!CallSafe, Whole!Proved!HasReg, Whole!Proved!RegHeld,
       Whole!Proved!CrossesCall
  <2>. QED BY <2>3, <2>4, <2>5, WholeOperators DEF CallerClobbered
<1>2. Whole!Spec => []Whole!Proved!CallSafe
  BY WholePools, Whole!ListsInherit
<1>. QED BY <1>1, <1>2, AllocationIsLinearScan, GivenAlways, PTL

-----------------------------------------------------------------------------
(* The operands                                                             *)

(***************************************************************************)
(* Whatever an instruction of a strict function reads is the value the IR  *)
(* says, on every path and for every size of the pools, of the frame and   *)
(* of an immediate, unless two operands that are read together are both in *)
(* memory and the second is out of reach: loading it then computes its     *)
(* address in the scratch register that holds the first                    *)
(* (regalloc.rs:70-314, select.rs:115-490).                                *)
(***************************************************************************)
THEOREM OperandsAreInPlace == Spec => [](Strict(fn) /\ PairsInReach => OperandsInPlace)
<1>1. Init => Placed
  BY DEF Init, Placed, OperandsInPlace
<1>2. CodegenInv /\ Given /\ HomesApart /\ CallsSpared /\ Placed /\ [Next]_vars => Placed'
  BY PlacedStep
<1>3. Placed => (Strict(fn) /\ PairsInReach => OperandsInPlace)
  BY DEF Placed
<1>. QED BY <1>1, <1>2, <1>3, CodegenInvariant, GivenAlways, HomesAreApart, CallsAreSpared, PTL DEF Spec
=============================================================================
