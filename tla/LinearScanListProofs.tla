------------------------- MODULE LinearScanListProofs -------------------------
(***************************************************************************)
(* LinearScanList implements LinearScan, for every set of values, every    *)
(* pair of pools and every set of intervals: the Vecs of regalloc.rs hold  *)
(* what the sets hold, and the one register they pop, or the one entry     *)
(* they evict, is one the sets allow.                                      *)
(***************************************************************************)
EXTENDS LinearScanList, Lists, TLAPS

-----------------------------------------------------------------------------
(* The invariant of the containers                                          *)

Caller == ToSet(CallerPool)
Callee == ToSet(CalleePool)
Entry  == Value \X (Caller \cup Callee)

\* The order of the interval Vec, and that no interval is in it twice.
Earlier == {p \in Value \X Value : p[1] # p[2] /\ start[p[1]] <= start[p[2]]}

\* The order of the active Vec, and that no value and no register is in it twice.
Apart == {p \in Entry \X Entry : /\ end[p[1][1]] <= end[p[2][1]]
                                 /\ p[1][1] # p[2][1]
                                 /\ p[1][2] # p[2][2]}

Firsts(S) == {a[1] : a \in S}

Intervals ==
    /\ start \in [Value -> 0..MaxIndex]
    /\ end \in [Value -> 0..MaxIndex]
    /\ DOMAIN alloc = Value
    /\ queue \in Seq(Value)
    /\ Chain(queue, Earlier)

ActiveSound ==
    /\ active \in Seq(Entry)
    /\ Chain(active, Apart)
    /\ \A a \in ToSet(active) : /\ a[1] \notin ToSet(queue)
                                /\ alloc[a[1]] = LS!InReg(a[2])
                                /\ a[2] \notin ToSet(callerStack) \cup ToSet(calleeStack)

StacksSound ==
    /\ callerStack \in Seq(Caller) /\ IsInjective(callerStack)
    /\ calleeStack \in Seq(Callee) /\ IsInjective(calleeStack)

ListInv == Intervals /\ ActiveSound /\ StacksSound

(***************************************************************************)
(* The two pools have no register in common and hold none twice, as the    *)
(* constants of the source do (regalloc.rs CALLER_SAVED_POOL and           *)
(* CALLEE_SAVED_POOL).                                                     *)
(***************************************************************************)
LEMMA Pools ==
    /\ CallerPool \in Seq(Caller) /\ IsInjective(CallerPool)
    /\ CalleePool \in Seq(Callee) /\ IsInjective(CalleePool)
    /\ Caller \cap Callee = {}
<1>1. CallerPool \in Seq(Caller) /\ CalleePool \in Seq(Callee)
  BY ListPoolsAssumption DEF Caller, Callee
<1>2. PICK A : A = Caller \cup Callee
  OBVIOUS
<1>3. CallerPool \in Seq(A) /\ CalleePool \in Seq(A)
  BY <1>1, <1>2
<1>4. PICK s, t : s = CallerPool /\ t = CalleePool
  OBVIOUS
<1>5. PICK r : r = s \o t
  OBVIOUS
<1>6. PICK m \in Nat, n \in Nat : m = Len(s) /\ n = Len(t)
  BY <1>3, <1>4
<1>7. /\ DOMAIN r = 1..(m + n) /\ DOMAIN s = 1..m /\ DOMAIN t = 1..n
      /\ \A i \in 1..m : r[i] = s[i]
      /\ \A i \in 1..n : r[m + i] = t[i]
  BY <1>3, <1>4, <1>5, <1>6, Joined
<1>8. \A i, j \in 1..(m + n) : r[i] = r[j] => i = j
  BY <1>4, <1>5, <1>7, ListPoolsAssumption DEF IsInjective
<1>9. IsInjective(s)
  <2>1. 1..m \subseteq 1..(m + n)
    BY <1>6
  <2>. QED BY <1>7, <1>8, <2>1 DEF IsInjective
<1>10. IsInjective(t)
  <2>1. \A i, j \in 1..n : m + i \in 1..(m + n) /\ (m + i = m + j => i = j)
    BY <1>6
  <2>. QED BY <1>7, <1>8, <2>1 DEF IsInjective
<1>11. ToSet(s) \cap ToSet(t) = {}
  <2>1. \A i \in 1..m, j \in 1..n : i \in 1..(m + n) /\ m + j \in 1..(m + n) /\ i # m + j
    BY <1>6
  <2>. QED BY <1>7, <1>8, <2>1 DEF ToSet
<1>. QED BY <1>1, <1>4, <1>9, <1>10, <1>11 DEF Caller, Callee

(***************************************************************************)
(* Two entries of the active Vec that share a value or a register are one. *)
(***************************************************************************)
LEMMA EntriesApart ==
    ASSUME NEW list \in Seq(Entry), Chain(list, Apart),
           NEW i \in DOMAIN list, NEW j \in DOMAIN list, i # j
    PROVE  list[i][1] # list[j][1] /\ list[i][2] # list[j][2]
<1>1. i \in Nat /\ j \in Nat
  OBVIOUS
<1>2. i < j \/ j < i
  BY <1>1
<1>3. CASE i < j
  <2>1. <<list[i], list[j]>> \in Apart
    BY <1>3 DEF Chain
  <2>. QED BY <2>1 DEF Apart
<1>4. CASE j < i
  <2>1. <<list[j], list[i]>> \in Apart
    BY <1>4 DEF Chain
  <2>. QED BY <2>1 DEF Apart
<1>. QED BY <1>2, <1>3, <1>4

(***************************************************************************)
(* An earlier entry of the active Vec ends no later.                       *)
(***************************************************************************)
LEMMA EntriesSorted ==
    ASSUME NEW list \in Seq(Entry), Chain(list, Apart),
           NEW i \in DOMAIN list, NEW j \in DOMAIN list, i < j
    PROVE  end[list[i][1]] <= end[list[j][1]]
<1>1. <<list[i], list[j]>> \in Apart
  BY DEF Chain
<1>. QED BY <1>1 DEF Apart

-----------------------------------------------------------------------------
(* The sorted Vec                                                           *)

(***************************************************************************)
(* partition_point and insert keep the active Vec sorted                   *)
(* (regalloc.rs:269-270, 294-295).                                         *)
(***************************************************************************)
LEMMA InsertSorted ==
    ASSUME end \in [Value -> 0..MaxIndex],
           NEW list \in Seq(Entry), Chain(list, Apart), NEW a \in Entry,
           \A b \in ToSet(list) : b[1] # a[1] /\ b[2] # a[2]
    PROVE  /\ InsertByEnd(list, a) \in Seq(Entry)
           /\ ToSet(InsertByEnd(list, a)) = ToSet(list) \cup {a}
           /\ Chain(InsertByEnd(list, a), Apart)
<1>1. PICK n \in Nat : n = Len(list)
  OBVIOUS
<1>2. PICK E : E = [i \in 1..n |-> end[list[i][1]]]
  OBVIOUS
<1>3. /\ end[a[1]] \in Int /\ DOMAIN list = 1..n
      /\ \A i \in 1..n : list[i] \in Entry /\ E[i] = end[list[i][1]] /\ E[i] \in Int
  <2>1. \A b \in Entry : end[b[1]] \in Int
    BY ListPoolsAssumption DEF Entry
  <2>. QED BY <1>1, <1>2, <2>1
<1>4. PICK I : I = {i \in 1..n : E[i] <= end[a[1]]}
  OBVIOUS
<1>5. PICK p : p = IF I # {} THEN Max(I) ELSE 0
  OBVIOUS
<1>6. InsertByEnd(list, a) = InsertAt(list, p + 1, a)
  <2>1. I = {i \in 1..Len(list) : end[list[i][1]] <= end[a[1]]}
    BY <1>1, <1>3, <1>4
  <2>. QED BY <1>5, <2>1 DEF InsertByEnd, SelectLastInSeq
<1>7. p \in 0..n /\ (p # 0 => p \in I) /\ \A i \in I : i <= p
  <2>1. CASE I = {}
    BY <1>1, <1>5, <2>1
  <2>2. CASE I # {}
    <3>1. I \in SUBSET (0..n)
      BY <1>1, <1>4
    <3>2. Max(I) \in I /\ \A y \in I : Max(I) >= y
      BY <1>1, <2>2, <3>1, MaxExists
    <3>3. p \in I /\ \A y \in I : p >= y
      BY <1>5, <2>2, <3>2
    <3>4. p \in 1..n
      BY <1>4, <3>3
    <3>5. \A y \in I : y \in 1..n
      BY <1>4
    <3>. QED BY <3>3, <3>4, <3>5
  <2>. QED BY <2>1, <2>2
<1>8. \A i, j \in 1..n : i < j => E[i] <= E[j]
  <2>. SUFFICES ASSUME NEW i \in 1..n, NEW j \in 1..n, i < j PROVE E[i] <= E[j]
    OBVIOUS
  <2>1. i \in DOMAIN list /\ j \in DOMAIN list
    BY <1>3
  <2>2. end[list[i][1]] <= end[list[j][1]]
    BY <2>1, EntriesSorted
  <2>. QED BY <1>3, <2>2
<1>9. ASSUME NEW i \in 1..n, i <= p PROVE E[i] <= end[a[1]]
  <2>1. p \in 1..n /\ p # 0
    BY <1>1, <1>7, <1>9
  <2>2. E[p] <= end[a[1]]
    BY <1>4, <1>7, <2>1
  <2>3. i < p \/ i = p
    BY <1>9, <2>1
  <2>4. E[i] <= E[p]
    BY <1>3, <1>8, <2>1, <2>3
  <2>. QED BY <1>3, <2>1, <2>2, <2>4
<1>10. ASSUME NEW i \in 1..n, i > p PROVE end[a[1]] <= E[i]
  <2>1. i \notin I
    BY <1>7, <1>10
  <2>. QED BY <1>3, <1>4, <2>1
<1>11. \A i \in 1..n : i <= p => <<list[i], a>> \in Apart
  BY <1>3, <1>9 DEF Apart, ToSet
<1>12. \A i \in 1..n : i > p => <<a, list[i]>> \in Apart
  BY <1>3, <1>10 DEF Apart, ToSet
<1>13. PICK q \in 1..(Len(list) + 1) : q = p + 1
  BY <1>1, <1>7
<1>14. \A i \in 1..n : (i < q => i <= p) /\ (i >= q => i > p)
  BY <1>7, <1>13
<1>15. /\ \A i \in DOMAIN list : i < q => <<list[i], a>> \in Apart
       /\ \A i \in DOMAIN list : i >= q => <<a, list[i]>> \in Apart
  BY <1>3, <1>11, <1>12, <1>14
<1>16. q \in 1..(Len(list) + 1)
  BY <1>13
<1>17. PICK r : r = InsertAt(list, q, a)
  OBVIOUS
<1>18. r \in Seq(Entry) /\ ToSet(r) = ToSet(list) \cup {a}
  BY <1>16, <1>17, InsertFacts
<1>19. Chain(r, Apart)
  BY <1>15, <1>16, <1>17, InsertFacts
<1>. QED BY <1>6, <1>13, <1>17, <1>18, <1>19

(***************************************************************************)
(* The rposition is the last entry whose register suits, hence one of the  *)
(* furthest end, and it is 0 only where no entry suits                     *)
(* (regalloc.rs:273-286).                                                  *)
(***************************************************************************)
LEMMA CandidateFurthest ==
    ASSUME end \in [Value -> 0..MaxIndex],
           NEW list \in Seq(Entry), Chain(list, Apart), NEW crosses \in BOOLEAN,
           NEW k, k = Candidate(list, crosses)
    PROVE  /\ k \in Nat
           /\ k = 0 => \A b \in ToSet(list) : crosses /\ b[2] \notin Callee
           /\ k # 0 => /\ k \in DOMAIN list
                       /\ crosses => list[k][2] \in Callee
                       /\ \A b \in ToSet(list) :
                            (crosses => b[2] \in Callee) => end[b[1]] <= end[list[k][1]]
<1>1. PICK n \in Nat : n = Len(list)
  OBVIOUS
<1>2. PICK I : I = {i \in 1..n : crosses => list[i][2] \in Callee}
  OBVIOUS
<1>3. k = IF I # {} THEN Max(I) ELSE 0
  <2>1. I = {i \in 1..Len(list) : crosses => list[i][2] \in ToSet(CalleePool)}
    BY <1>1, <1>2 DEF Callee
  <2>. QED BY <2>1 DEF Candidate, SelectLastInSeq
<1>4. DOMAIN list = 1..n /\ ToSet(list) = {list[i] : i \in 1..n}
  BY <1>1 DEF ToSet
<1>5. CASE I = {}
  <2>1. k = 0
    BY <1>3, <1>5
  <2>2. \A i \in 1..n : crosses /\ list[i][2] \notin Callee
    BY <1>2, <1>5
  <2>. QED BY <1>4, <2>1, <2>2
<1>6. CASE I # {}
  <2>1. I \in SUBSET (0..n)
    BY <1>1, <1>2
  <2>2. Max(I) \in I /\ \A y \in I : Max(I) >= y
    BY <1>1, <1>6, <2>1, MaxExists
  <2>3. k \in I /\ \A y \in I : k >= y
    BY <1>3, <1>6, <2>2
  <2>4. k \in 1..n /\ k # 0 /\ (crosses => list[k][2] \in Callee)
    BY <1>2, <2>3
  <2>5. ASSUME NEW i \in 1..n, crosses => list[i][2] \in Callee
        PROVE  end[list[i][1]] <= end[list[k][1]]
    <3>1. i \in I
      BY <1>2, <2>5
    <3>2. i = k \/ i < k
      BY <2>3, <2>4, <3>1
    <3>3. CASE i = k
      <4>1. \A b \in Entry : end[b[1]] \in Int
        BY ListPoolsAssumption DEF Entry
      <4>2. list[k] \in Entry
        BY <1>1, <2>4
      <4>. QED BY <3>3, <4>1, <4>2
    <3>4. CASE i < k
      <4>1. i \in DOMAIN list /\ k \in DOMAIN list
        BY <1>4, <2>4
      <4>. QED BY <3>4, <4>1, EntriesSorted
    <3>. QED BY <3>2, <3>3, <3>4
  <2>. QED BY <1>4, <2>4, <2>5
<1>. QED BY <1>5, <1>6

-----------------------------------------------------------------------------
(* The expire loop                                                          *)

(***************************************************************************)
(* Over and Running split the active Vec at the index s, each in the       *)
(* order of the Vec (regalloc.rs:234-250).                                 *)
(***************************************************************************)
LEMMA ActiveSplit ==
    ASSUME ListInv, NEW s \in Int
    PROVE  /\ Over(s) \in Seq(Entry) /\ Chain(Over(s), Apart)
           /\ ToSet(Over(s)) = {a \in ToSet(active) : end[a[1]] <= s}
           /\ Running(s) \in Seq(Entry) /\ Chain(Running(s), Apart)
           /\ ToSet(Running(s)) = {a \in ToSet(active) : end[a[1]] > s}
<1>1. active \in Seq(Entry) /\ Chain(active, Apart)
  BY DEF ListInv, ActiveSound
<1>2. PICK S, T : /\ S = {a \in ToSet(active) : end[a[1]] <= s}
                  /\ T = {a \in ToSet(active) : end[a[1]] > s}
  OBVIOUS
<1>3. Over(s) = Keep(active, S) /\ Running(s) = Keep(active, T)
  BY <1>2 DEF Over, Running
<1>4. /\ Over(s) \in Seq(Entry) /\ Chain(Over(s), Apart)
      /\ ToSet(Over(s)) = ToSet(active) \cap S
  BY <1>1, <1>3, KeepFacts
<1>5. /\ Running(s) \in Seq(Entry) /\ Chain(Running(s), Apart)
      /\ ToSet(Running(s)) = ToSet(active) \cap T
  BY <1>1, <1>3, KeepFacts
<1>. QED BY <1>2, <1>4, <1>5

(***************************************************************************)
(* The registers pushed back on a stack are those of its pool that the     *)
(* finished intervals held, each once (regalloc.rs:241-247).               *)
(***************************************************************************)
LEMMA PushedFacts ==
    ASSUME ListInv, NEW s \in Int, NEW pool
    PROVE  /\ Pushed(s, pool) \in Seq(ToSet(pool))
           /\ IsInjective(Pushed(s, pool))
           /\ ToSet(Pushed(s, pool)) = {a[2] : a \in {b \in ToSet(active) : end[b[1]] <= s}} \cap ToSet(pool)
<1>1. PICK S : S = {a \in ToSet(active) : a[2] \in ToSet(pool)}
  OBVIOUS
<1>2. PICK freed : freed = Keep(Over(s), S)
  OBVIOUS
<1>3. PICK q : q = [i \in DOMAIN freed |-> freed[i][2]]
  OBVIOUS
<1>4. Pushed(s, pool) = q
  BY <1>1, <1>2, <1>3 DEF Pushed
<1>5. /\ Over(s) \in Seq(Entry) /\ Chain(Over(s), Apart)
      /\ ToSet(Over(s)) = {a \in ToSet(active) : end[a[1]] <= s}
  BY ActiveSplit
<1>6. /\ freed \in Seq(Entry) /\ Chain(freed, Apart)
      /\ ToSet(freed) = ToSet(Over(s)) \cap S
  BY <1>2, <1>5, KeepFacts
<1>7. PICK n \in Nat : n = Len(freed)
  BY <1>6
<1>8. DOMAIN freed = 1..n /\ ToSet(freed) = {freed[i] : i \in 1..n}
  BY <1>6, <1>7 DEF ToSet
<1>9. \A i \in 1..n : q[i] = freed[i][2] /\ q[i] \in ToSet(pool)
  BY <1>1, <1>3, <1>6, <1>8
<1>10. q \in Seq(ToSet(pool)) /\ DOMAIN q = 1..n
  <2>1. q \in [1..n -> ToSet(pool)]
    BY <1>3, <1>8, <1>9
  <2>. QED BY <1>7, <2>1
<1>11. IsInjective(q)
  <2>1. \A i, j \in 1..n : i # j => freed[i][2] # freed[j][2]
    BY <1>6, <1>8, EntriesApart
  <2>. QED BY <1>9, <1>10, <2>1 DEF IsInjective
<1>12. ToSet(q) = {a[2] : a \in ToSet(freed)}
  <2>1. ToSet(q) = {q[i] : i \in 1..n}
    BY <1>10 DEF ToSet
  <2>. QED BY <1>8, <1>9, <2>1
<1>13. ToSet(q) = {a[2] : a \in ToSet(Over(s))} \cap ToSet(pool)
  BY <1>1, <1>5, <1>6, <1>12
<1>. QED BY <1>4, <1>5, <1>10, <1>11, <1>13

\* What an iteration has in hand once the expire loop is over.
Found(v, running, caller, callee) ==
    /\ v = Head(queue)
    /\ running = Running(start[v])
    /\ caller = callerStack \o Pushed(start[v], CallerPool)
    /\ callee = calleeStack \o Pushed(start[v], CalleePool)

(***************************************************************************)
(* What the next iteration finds: the interval it takes is one that may    *)
(* come next, and the Vec and the stacks it works on hold the intervals    *)
(* and the registers of the set model (regalloc.rs:218, 234-250).          *)
(***************************************************************************)
LEMMA Expire ==
    ASSUME ListInv, queue # <<>>,
           NEW v, NEW running, NEW caller, NEW callee, Found(v, running, caller, callee)
    PROVE  /\ v \in LS!Candidates
           /\ running \in Seq(Entry) /\ Chain(running, Apart)
           /\ ToSet(running) \subseteq ToSet(active)
           /\ Firsts(ToSet(running)) = LS!Live(v)
           /\ caller \in Seq(Caller) /\ IsInjective(caller) /\ ToSet(caller) = LS!CallerAfter(v)
           /\ callee \in Seq(Callee) /\ IsInjective(callee) /\ ToSet(callee) = LS!CalleeAfter(v)
           /\ \A a \in ToSet(running) : a[2] \notin ToSet(caller) \cup ToSet(callee)
<1>1. /\ start \in [Value -> 0..MaxIndex] /\ end \in [Value -> 0..MaxIndex]
      /\ queue \in Seq(Value) /\ Chain(queue, Earlier)
      /\ active \in Seq(Entry)
  BY DEF ListInv, Intervals, ActiveSound
<1>2. v \in Value /\ v \in ToSet(queue) /\ \A w \in ToSet(queue) : start[v] <= start[w]
  <2>1. PICK n \in Nat : n = Len(queue)
    BY <1>1
  <2>2. DOMAIN queue = 1..n /\ 1 \in 1..n /\ v = queue[1] /\ v \in Value
    BY <1>1, <2>1 DEF Found
  <2>3. \A x \in Value : start[x] \in Int
    BY <1>1, ListPoolsAssumption
  <2>4. ASSUME NEW i \in 1..n PROVE start[v] <= start[queue[i]]
    <3>1. CASE i = 1
      BY <2>2, <2>3, <3>1
    <3>2. CASE i # 1
      <4>1. 1 \in DOMAIN queue /\ i \in DOMAIN queue /\ 1 < i
        BY <2>1, <2>2, <3>2
      <4>2. <<queue[1], queue[i]>> \in Earlier
        BY <1>1, <4>1 DEF Chain
      <4>. QED BY <2>2, <4>2 DEF Earlier
    <3>. QED BY <3>1, <3>2
  <2>. QED BY <2>2, <2>4 DEF ToSet
<1>3. v \in LS!Candidates
  BY <1>2 DEF LS!Candidates
<1>4. PICK s \in Int : s = start[v]
  BY <1>1, <1>2, ListPoolsAssumption
<1>5. PICK E : E = ToSet(active)
  OBVIOUS
<1>6. /\ E \subseteq Entry
      /\ \A a \in E : end[a[1]] \in Int /\ LS!RegHeld(a[1]) = a[2]
      /\ \A a \in E : a[2] \notin ToSet(callerStack) \cup ToSet(calleeStack)
  <2>1. E \subseteq Entry
    BY <1>1, <1>5 DEF ToSet
  <2>2. \A a \in Entry : end[a[1]] \in Int
    BY <1>1, ListPoolsAssumption DEF Entry
  <2>3. ASSUME NEW a \in E PROVE LS!RegHeld(a[1]) = a[2]
    <3>1. alloc[a[1]] = LS!InReg(a[2])
      BY <1>5 DEF ListInv, ActiveSound
    <3>2. LS!InReg(a[2]).reg = a[2]
      BY DEF LS!InReg
    <3>. QED BY <3>1, <3>2 DEF LS!RegHeld
  <2>. QED BY <1>5, <2>1, <2>2, <2>3 DEF ListInv, ActiveSound
<1>7. /\ running \in Seq(Entry) /\ Chain(running, Apart)
      /\ ToSet(running) = {a \in E : end[a[1]] > s}
  BY <1>4, <1>5, ActiveSplit DEF Found
<1>8. LS!Expired(v) = Firsts({a \in E : end[a[1]] <= s})
  BY <1>4, <1>5 DEF LS!Expired, Firsts
<1>9. LS!Live(v) = Firsts(ToSet(running))
  <2>1. LS!Live(v) = Firsts(E) \ LS!Expired(v)
    BY <1>5 DEF LS!Live, Firsts
  <2>2. \A a \in E : end[a[1]] > s <=> ~(end[a[1]] <= s)
    BY <1>6
  <2>. QED BY <1>7, <1>8, <2>1, <2>2 DEF Firsts
<1>10. {LS!RegHeld(x) : x \in LS!Expired(v)} = {a[2] : a \in {b \in E : end[b[1]] <= s}}
  BY <1>6, <1>8 DEF Firsts
<1>11. PICK F : F = {a[2] : a \in {b \in E : end[b[1]] <= s}}
  OBVIOUS
<1>12. F \cap (ToSet(callerStack) \cup ToSet(calleeStack)) = {}
  BY <1>6, <1>11
<1>13. /\ Pushed(s, CallerPool) \in Seq(Caller) /\ IsInjective(Pushed(s, CallerPool))
       /\ ToSet(Pushed(s, CallerPool)) = F \cap Caller
  BY <1>4, <1>5, <1>11, PushedFacts DEF Caller
<1>14. /\ Pushed(s, CalleePool) \in Seq(Callee) /\ IsInjective(Pushed(s, CalleePool))
       /\ ToSet(Pushed(s, CalleePool)) = F \cap Callee
  BY <1>4, <1>5, <1>11, PushedFacts DEF Callee
<1>15. /\ callerStack \in Seq(Caller) /\ IsInjective(callerStack)
       /\ calleeStack \in Seq(Callee) /\ IsInjective(calleeStack)
  BY DEF ListInv, StacksSound
<1>16. /\ caller \in Seq(Caller) /\ IsInjective(caller)
       /\ ToSet(caller) = ToSet(callerStack) \cup (F \cap Caller)
  BY <1>4, <1>12, <1>13, <1>15, ConcatFacts DEF Found
<1>17. /\ callee \in Seq(Callee) /\ IsInjective(callee)
       /\ ToSet(callee) = ToSet(calleeStack) \cup (F \cap Callee)
  BY <1>4, <1>12, <1>14, <1>15, ConcatFacts DEF Found
<1>18. ToSet(caller) = LS!CallerAfter(v) /\ ToSet(callee) = LS!CalleeAfter(v)
  BY <1>10, <1>11, <1>16, <1>17 DEF LS!CallerAfter, LS!CalleeAfter, Caller, Callee
<1>19. \A a \in ToSet(running) : a[2] \notin F
  <2>1. \A i, j \in DOMAIN active : i # j => active[i][2] # active[j][2]
    BY <1>1, EntriesApart DEF ListInv, ActiveSound
  <2>2. \A a, b \in E : a # b => a[2] # b[2]
    BY <1>5, <2>1 DEF ToSet
  <2>3. \A a \in E : end[a[1]] > s => ~(end[a[1]] <= s)
    BY <1>6
  <2>. QED BY <1>7, <1>11, <2>2, <2>3
<1>20. \A a \in ToSet(running) : a[2] \notin ToSet(caller) \cup ToSet(callee)
  BY <1>6, <1>7, <1>16, <1>17, <1>19
<1>. QED BY <1>3, <1>5, <1>7, <1>9, <1>16, <1>17, <1>18, <1>20

-----------------------------------------------------------------------------
(* One iteration                                                            *)

(***************************************************************************)
(* The loop takes an interval of the Vec (regalloc.rs:234).                *)
(***************************************************************************)
LEMMA QueueHead ==
    ASSUME ListInv, queue # <<>>
    PROVE  Head(queue) \in Value /\ Head(queue) \in ToSet(queue)
<1>1. queue \in Seq(Value)
  BY DEF ListInv, Intervals
<1>2. 1 \in DOMAIN queue /\ Head(queue) = queue[1] /\ Head(queue) \in Value
  BY <1>1
<1>. QED BY <1>2 DEF ToSet

(***************************************************************************)
(* The interval Vec after the head is taken (regalloc.rs:234).             *)
(***************************************************************************)
LEMMA QueueStep ==
    ASSUME ListInv, queue # <<>>
    PROVE  /\ Tail(queue) \in Seq(Value)
           /\ Chain(Tail(queue), Earlier)
           /\ ToSet(Tail(queue)) = ToSet(queue) \ {Head(queue)}
<1>1. queue \in Seq(Value) /\ Chain(queue, Earlier)
  BY DEF ListInv, Intervals
<1>2. \A i, j \in DOMAIN queue : i < j => queue[i] # queue[j]
  BY <1>1 DEF Chain, Earlier
<1>. QED BY <1>1, <1>2, TailFacts

(***************************************************************************)
(* What an iteration must leave for the invariant to hold after it.        *)
(***************************************************************************)
LEMMA InvStep ==
    ASSUME ListInv, queue # <<>>, queue' = Tail(queue), UNCHANGED <<start, end, calls>>,
           DOMAIN alloc' = Value,
           active' \in Seq(Entry), Chain(active', Apart),
           \A a \in ToSet(active') : /\ a[1] \notin ToSet(Tail(queue))
                                     /\ alloc'[a[1]] = LS!InReg(a[2])
                                     /\ a[2] \notin ToSet(callerStack') \cup ToSet(calleeStack'),
           callerStack' \in Seq(Caller), IsInjective(callerStack'),
           calleeStack' \in Seq(Callee), IsInjective(calleeStack')
    PROVE  ListInv'
<1>1. Earlier' = Earlier /\ Apart' = Apart
  BY DEF Earlier, Apart
<1>2. Chain(queue, Earlier)' /\ Chain(active, Apart)'
  BY <1>1, QueueStep DEF Chain
<1>3. Intervals'
  BY <1>2, QueueStep DEF ListInv, Intervals
<1>4. ToSet(active)' = ToSet(active')
  OBVIOUS
<1>5. ActiveSound'
  BY <1>2 DEF ActiveSound, LS!InReg
<1>6. StacksSound'
  BY DEF StacksSound
<1>. QED BY <1>3, <1>5, <1>6 DEF ListInv

(***************************************************************************)
(* Which pool the next register comes from (regalloc.rs:252-262).          *)
(***************************************************************************)
LEMMA UsablePool ==
    ASSUME NEW v
    PROVE  /\ (LS!CrossesCall(v) \/ LS!CallerAfter(v) = {}) => LS!Usable(v) = LS!CalleeAfter(v)
           /\ (~LS!CrossesCall(v) /\ LS!CallerAfter(v) # {}) => LS!Usable(v) = LS!CallerAfter(v)
  BY DEF LS!Usable

(***************************************************************************)
(* A pop of a free list takes a register the sets allow, and keeps the     *)
(* containers sound (regalloc.rs:252-270).                                 *)
(***************************************************************************)
LEMMA TakeFreeStep ==
    ASSUME ListInv, queue # <<>>,
           NEW v, NEW running, NEW caller, NEW callee, Found(v, running, caller, callee),
           TakeFree(v, running, caller, callee),
           queue' = Tail(queue), UNCHANGED <<start, end, calls>>
    PROVE  LS!TakeFree(v) /\ ListInv'
<1>a. PICK fromCaller \in BOOLEAN : fromCaller = (~Crosses(v) /\ caller # <<>>)
  OBVIOUS
<1>b. PICK r : r = IF fromCaller THEN Last(caller) ELSE Last(callee)
  OBVIOUS
<1>c. PICK run, C, D : run = ToSet(running) /\ C = ToSet(caller) /\ D = ToSet(callee)
  OBVIOUS
<1>1. /\ running \in Seq(Entry) /\ Chain(running, Apart)
      /\ run \subseteq ToSet(active) /\ run \subseteq Entry
      /\ Firsts(run) = LS!Live(v)
      /\ \A a \in run : a[2] \notin C \cup D
  <2>1. running \in Seq(Entry) => ToSet(running) \subseteq Entry
    BY DEF ToSet
  <2>. QED BY <1>c, <2>1, Expire
<1>2. /\ caller \in Seq(Caller) /\ IsInjective(caller) /\ C = LS!CallerAfter(v) /\ C \subseteq Caller
      /\ callee \in Seq(Callee) /\ IsInjective(callee) /\ D = LS!CalleeAfter(v) /\ D \subseteq Callee
  <2>1. caller \in Seq(Caller) => ToSet(caller) \subseteq Caller
    BY DEF ToSet
  <2>2. callee \in Seq(Callee) => ToSet(callee) \subseteq Callee
    BY DEF ToSet
  <2>. QED BY <1>c, <2>1, <2>2, Expire
<1>3. v \in Value /\ v \in ToSet(queue)
  BY QueueHead DEF Found
<1>4. /\ fromCaller \/ callee # <<>>
      /\ callerStack' = IF fromCaller THEN Front(caller) ELSE caller
      /\ calleeStack' = IF fromCaller THEN callee ELSE Front(callee)
      /\ usedCallee' = IF fromCaller THEN usedCallee ELSE usedCallee \cup {r}
      /\ alloc' = [alloc EXCEPT ![v] = LS!InReg(r)]
      /\ active' = InsertByEnd(running, <<v, r>>)
      /\ UNCHANGED nextSlot
  BY <1>a, <1>b DEF TakeFree
<1>5. /\ r \in LS!Usable(v) /\ r \in C \cup D
      /\ r \in Caller \cup Callee
      /\ usedCallee' = usedCallee \cup ({r} \cap Callee)
      /\ ToSet(callerStack') = C \ {r} /\ ToSet(calleeStack') = D \ {r}
      /\ callerStack' \in Seq(Caller) /\ IsInjective(callerStack')
      /\ calleeStack' \in Seq(Callee) /\ IsInjective(calleeStack')
  <2>1. CASE fromCaller
    <3>1. /\ Front(caller) \in Seq(Caller) /\ IsInjective(Front(caller))
          /\ r \in C /\ ToSet(Front(caller)) = C \ {r}
      BY <1>a, <1>b, <1>c, <1>2, <2>1, PopFacts
    <3>2. r \in Caller /\ r \notin Callee /\ D \ {r} = D
      BY <1>2, <3>1, Pools
    <3>3. ~LS!CrossesCall(v) /\ LS!CallerAfter(v) # {}
      <4>1. ~Crosses(v)
        BY <1>a, <2>1
      <4>2. ~LS!CrossesCall(v)
        BY <4>1 DEF LS!CrossesCall, Crosses
      <4>. QED BY <1>2, <3>1, <4>2
    <3>4. LS!Usable(v) = LS!CallerAfter(v)
      BY <3>3, UsablePool
    <3>5. /\ callerStack' = Front(caller) /\ calleeStack' = callee
          /\ usedCallee' = usedCallee /\ {r} \cap Callee = {}
      BY <1>4, <2>1, <3>2
    <3>. QED BY <1>c, <1>2, <3>1, <3>2, <3>4, <3>5
  <2>2. CASE ~fromCaller
    <3>1. /\ Front(callee) \in Seq(Callee) /\ IsInjective(Front(callee))
          /\ r \in D /\ ToSet(Front(callee)) = D \ {r}
      BY <1>b, <1>c, <1>2, <1>4, <2>2, PopFacts
    <3>2. r \in Callee /\ r \notin Caller /\ C \ {r} = C
      BY <1>2, <3>1, Pools
    <3>3. LS!CrossesCall(v) \/ LS!CallerAfter(v) = {}
      <4>1. caller = <<>> => C = {}
        BY <1>c DEF ToSet
      <4>. QED BY <1>a, <1>2, <2>2, <4>1 DEF LS!CrossesCall, Crosses
    <3>4. LS!Usable(v) = LS!CalleeAfter(v)
      BY <3>3, UsablePool
    <3>5. /\ callerStack' = caller /\ calleeStack' = Front(callee)
          /\ usedCallee' = usedCallee \cup {r} /\ {r} \cap Callee = {r}
      BY <1>4, <2>2, <3>2
    <3>. QED BY <1>c, <1>2, <3>1, <3>2, <3>4, <3>5
  <2>. QED BY <2>1, <2>2
<1>6. \A a \in run : /\ a[1] \notin ToSet(queue) /\ a[1] # v
                     /\ alloc[a[1]] = LS!InReg(a[2])
                     /\ a[1] \in Value /\ a[2] # r
  BY <1>1, <1>3, <1>5 DEF ListInv, ActiveSound, Entry
<1>7. PICK e \in Entry : e = <<v, r>>
  BY <1>3, <1>5 DEF Entry
<1>8. /\ active' \in Seq(Entry) /\ Chain(active', Apart)
      /\ ToSet(active') = run \cup {e}
  <2>1. end \in [Value -> 0..MaxIndex]
    BY DEF ListInv, Intervals
  <2>2. \A b \in ToSet(running) : b[1] # e[1] /\ b[2] # e[2]
    BY <1>c, <1>6, <1>7
  <2>. QED BY <1>c, <1>1, <1>4, <1>7, <2>1, <2>2, InsertSorted
<1>9. DOMAIN alloc' = Value /\ alloc'[v] = LS!InReg(r) /\ \A w \in Value : w # v => alloc'[w] = alloc[w]
  BY <1>3, <1>4 DEF ListInv, Intervals
<1>10. ListInv'
  <2>1. \A a \in ToSet(active') : /\ a[1] \notin ToSet(Tail(queue))
                                  /\ alloc'[a[1]] = LS!InReg(a[2])
                                  /\ a[2] \notin ToSet(callerStack') \cup ToSet(calleeStack')
    <3>. SUFFICES ASSUME NEW a \in run \cup {e}
                  PROVE  /\ a[1] \notin ToSet(Tail(queue))
                         /\ alloc'[a[1]] = LS!InReg(a[2])
                         /\ a[2] \notin ToSet(callerStack') \cup ToSet(calleeStack')
      BY <1>8
    <3>1. ToSet(Tail(queue)) = ToSet(queue) \ {v}
      BY QueueStep DEF Found
    <3>2. CASE a \in run
      BY <1>1, <1>5, <1>6, <1>9, <3>1, <3>2
    <3>3. CASE a = e
      <4>1. a[1] = v /\ a[2] = r
        BY <1>7, <3>3
      <4>. QED BY <1>5, <1>9, <3>1, <4>1
    <3>. QED BY <3>2, <3>3
  <2>. QED BY <1>5, <1>8, <1>9, <2>1, InvStep
<1>11. {a[1] : a \in ToSet(active')} = LS!Live(v) \cup {v}
  BY <1>1, <1>7, <1>8 DEF Firsts
<1>12. LS!TakeFree(v)
  BY <1>2, <1>4, <1>5, <1>11 DEF LS!TakeFree, LS!InReg, Callee
<1>. QED BY <1>10, <1>12

(***************************************************************************)
(* A spill, of the rposition or of the new interval, is one the sets       *)
(* allow, and keeps the containers sound (regalloc.rs:271-306).            *)
(***************************************************************************)
LEMMA SpillStep ==
    ASSUME ListInv, queue # <<>>,
           NEW v, NEW running, NEW caller, NEW callee, Found(v, running, caller, callee),
           Spill(v, running, caller, callee),
           queue' = Tail(queue), UNCHANGED <<start, end, calls>>
    PROVE  (LS!SpillActive(v) \/ LS!SpillSelf(v)) /\ ListInv'
<1>a. PICK crosses \in BOOLEAN : crosses = Crosses(v)
  BY DEF Crosses
<1>b. PICK k : k = Candidate(running, crosses)
  OBVIOUS
<1>c. PICK run, C, D : run = ToSet(running) /\ C = ToSet(caller) /\ D = ToSet(callee)
  OBVIOUS
<1>1. /\ running \in Seq(Entry) /\ Chain(running, Apart)
      /\ run \subseteq ToSet(active) /\ run \subseteq Entry
      /\ Firsts(run) = LS!Live(v)
      /\ \A a \in run : a[2] \notin C \cup D
  <2>1. running \in Seq(Entry) => ToSet(running) \subseteq Entry
    BY DEF ToSet
  <2>. QED BY <1>c, <2>1, Expire
<1>2. /\ caller \in Seq(Caller) /\ IsInjective(caller) /\ C = LS!CallerAfter(v)
      /\ callee \in Seq(Callee) /\ IsInjective(callee) /\ D = LS!CalleeAfter(v)
  BY <1>c, Expire
<1>3. v \in Value /\ v \in ToSet(queue)
  BY QueueHead DEF Found
<1>4. end \in [Value -> 0..MaxIndex] /\ end[v] \in Int /\ \A a \in run : end[a[1]] \in Int
  BY <1>1, <1>3, ListPoolsAssumption DEF ListInv, Intervals, Entry
<1>5. /\ callee = <<>> /\ (crosses \/ caller = <<>>)
      /\ callerStack' = caller
      /\ calleeStack' = callee
      /\ UNCHANGED usedCallee
      /\ nextSlot' = nextSlot + 1
  BY <1>a, <1>b DEF Spill
<1>6. \/ /\ k # 0 /\ end[running[k][1]] > end[v]
         /\ alloc' = [alloc EXCEPT ![running[k][1]] = LS!InSlot(nextSlot),
                                   ![v] = LS!InReg(running[k][2])]
         /\ active' = InsertByEnd(RemoveAt(running, k), <<v, running[k][2]>>)
      \/ /\ ~(k # 0 /\ end[running[k][1]] > end[v])
         /\ alloc' = [alloc EXCEPT ![v] = LS!InSlot(nextSlot)]
         /\ active' = running
  BY <1>a, <1>b DEF Spill
<1>7. LS!Usable(v) = {}
  <2>1. D = {} /\ (caller = <<>> => C = {})
    BY <1>c, <1>5 DEF ToSet
  <2>. QED BY <1>a, <1>2, <1>5, <2>1 DEF LS!Usable, LS!CrossesCall, Crosses
<1>8. \A a \in run : /\ a[1] \notin ToSet(queue) /\ a[1] # v /\ a[1] \in Value
                     /\ alloc[a[1]] = LS!InReg(a[2]) /\ LS!RegHeld(a[1]) = a[2]
  <2>. SUFFICES ASSUME NEW a \in run
                PROVE  /\ a[1] \notin ToSet(queue) /\ a[1] # v /\ a[1] \in Value
                       /\ alloc[a[1]] = LS!InReg(a[2]) /\ LS!RegHeld(a[1]) = a[2]
    OBVIOUS
  <2>1. a[1] \notin ToSet(queue) /\ alloc[a[1]] = LS!InReg(a[2])
    BY <1>1 DEF ListInv, ActiveSound
  <2>2. LS!InReg(a[2]).reg = a[2]
    BY DEF LS!InReg
  <2>3. LS!RegHeld(a[1]) = a[2]
    BY <2>1, <2>2 DEF LS!RegHeld
  <2>4. a[1] \in Value
    BY <1>1 DEF Entry
  <2>. QED BY <1>3, <2>1, <2>3, <2>4
<1>9. LS!Eligible(v) = {a[1] : a \in {b \in run : crosses => b[2] \in Callee}}
  <2>1. LS!Eligible(v) = {x \in Firsts(run) : crosses => LS!RegHeld(x) \in Callee}
    BY <1>a, <1>1 DEF LS!Eligible, LS!CrossesCall, Crosses, Callee
  <2>. QED BY <1>8, <2>1 DEF Firsts
<1>10. /\ k \in Nat
       /\ k = 0 => \A b \in run : crosses /\ b[2] \notin Callee
       /\ k # 0 => /\ k \in DOMAIN running
                   /\ crosses => running[k][2] \in Callee
                   /\ \A b \in run : (crosses => b[2] \in Callee) => end[b[1]] <= end[running[k][1]]
  BY <1>a, <1>b, <1>c, <1>1, <1>4, CandidateFurthest
<1>11. DOMAIN alloc = Value /\ queue \in Seq(Value)
  BY DEF ListInv, Intervals
<1>12. CASE /\ k # 0 /\ end[running[k][1]] > end[v]
            /\ alloc' = [alloc EXCEPT ![running[k][1]] = LS!InSlot(nextSlot),
                                      ![v] = LS!InReg(running[k][2])]
            /\ active' = InsertByEnd(RemoveAt(running, k), <<v, running[k][2]>>)
  <2>1. PICK c : c = running[k]
    OBVIOUS
  <2>2. /\ k \in DOMAIN running /\ end[c[1]] > end[v]
        /\ crosses => c[2] \in Callee
        /\ \A b \in run : (crosses => b[2] \in Callee) => end[b[1]] <= end[c[1]]
        /\ alloc' = [alloc EXCEPT ![c[1]] = LS!InSlot(nextSlot), ![v] = LS!InReg(c[2])]
        /\ active' = InsertByEnd(RemoveAt(running, k), <<v, c[2]>>)
    <3>5. k # 0
      BY <1>12
    <3>6. k \in DOMAIN running
      BY <1>10, <3>5
    <3>7. end[running[k][1]] > end[v]
      BY <1>12
    <3>8. end[c[1]] > end[v]
      BY <3>7, <2>1
    <3>1. k \in DOMAIN running /\ end[c[1]] > end[v]
      BY <3>6, <3>8
    <3>2. crosses => c[2] \in Callee
      BY <1>10, <1>12, <2>1
    <3>3. \A b \in run : (crosses => b[2] \in Callee) => end[b[1]] <= end[c[1]]
      BY <1>10, <1>12, <2>1
    <3>. QED BY <1>12, <2>1, <3>1, <3>2, <3>3
  <2>3. c \in run /\ c \in Entry /\ c[1] \in Value /\ c[2] \in Caller \cup Callee
    <3>1. c \in run
      BY <1>c, <2>1, <2>2 DEF ToSet
    <3>. QED BY <1>1, <3>1 DEF Entry
  <2>4. \A i, j \in DOMAIN running : i # j => running[i][1] # running[j][1] /\ running[i][2] # running[j][2]
    BY <1>1, EntriesApart
  <2>5. PICK rest : rest = RemoveAt(running, k)
    OBVIOUS
  <2>6. /\ rest \in Seq(Entry) /\ Chain(rest, Apart)
        /\ ToSet(rest) = run \ {c}
    <3>1. \A i, j \in DOMAIN running : i < j => i # j
      BY <1>1
    <3>2. \A i, j \in DOMAIN running : i < j => running[i] # running[j]
      BY <2>4, <3>1
    <3>3. ToSet(rest) = ToSet(running) \ {running[k]}
      BY <1>1, <2>2, <2>5, <3>2, RemoveFacts
    <3>4. rest \in Seq(Entry) /\ Chain(rest, Apart)
      BY <1>1, <2>2, <2>5, <3>2, RemoveFacts
    <3>. QED BY <1>c, <2>1, <3>3, <3>4
  <2>15. ASSUME NEW b \in run, b # c PROVE b[1] # c[1] /\ b[2] # c[2]
    <3>1. PICK i \in DOMAIN running : b = running[i]
      BY <1>c DEF ToSet
    <3>2. i # k
      BY <2>1, <2>15, <3>1
    <3>. QED BY <2>1, <2>2, <2>4, <3>1, <3>2
  <2>7. PICK e \in Entry : e = <<v, c[2]>>
    BY <1>3, <2>3 DEF Entry
  <2>16. e[1] = v /\ e[2] = c[2]
    BY <2>7
  <2>8. /\ active' \in Seq(Entry) /\ Chain(active', Apart)
        /\ ToSet(active') = (run \ {c}) \cup {e}
    <3>1. \A b \in ToSet(rest) : b[1] # e[1] /\ b[2] # e[2]
      BY <1>8, <2>6, <2>15, <2>16
    <3>2. active' = InsertByEnd(rest, e)
      BY <2>2, <2>5, <2>7
    <3>. QED BY <1>4, <2>6, <3>1, <3>2, InsertSorted
  <2>9. /\ DOMAIN alloc' = Value /\ alloc'[v] = LS!InReg(c[2])
        /\ \A w \in Value : w # v /\ w # c[1] => alloc'[w] = alloc[w]
    BY <1>3, <1>11, <2>2, <2>3
  <2>10. ListInv'
    <3>1. ASSUME NEW a \in (run \ {c}) \cup {e}
          PROVE  /\ a[1] \notin ToSet(Tail(queue))
                 /\ alloc'[a[1]] = LS!InReg(a[2])
                 /\ a[2] \notin ToSet(callerStack') \cup ToSet(calleeStack')
      <4>1. ToSet(Tail(queue)) = ToSet(queue) \ {v}
        BY QueueStep DEF Found
      <4>2. ToSet(callerStack') = C /\ ToSet(calleeStack') = D
        BY <1>c, <1>5
      <4>3. CASE a \in run \ {c}
        <5>1. a[1] # c[1]
          BY <2>15, <4>3
        <5>. QED BY <1>1, <1>8, <2>9, <4>1, <4>2, <4>3, <5>1
      <4>4. CASE a = e
        <5>1. c[2] \notin C \cup D
          BY <1>1, <2>3
        <5>. QED BY <2>9, <2>16, <4>1, <4>2, <4>4, <5>1
      <4>. QED BY <4>3, <4>4
    <3>2. \A a \in ToSet(active') : /\ a[1] \notin ToSet(Tail(queue))
                                    /\ alloc'[a[1]] = LS!InReg(a[2])
                                    /\ a[2] \notin ToSet(callerStack') \cup ToSet(calleeStack')
      BY <2>8, <3>1
    <3>. QED BY <1>2, <1>5, <2>8, <2>9, <3>2, InvStep
  <2>11. {a[1] : a \in ToSet(active')} = (LS!Live(v) \ {c[1]}) \cup {v}
    <3>1. Firsts(run \ {c}) = Firsts(run) \ {c[1]}
      BY <2>3, <2>15 DEF Firsts
    <3>2. {a[1] : a \in ToSet(active')} = Firsts(run \ {c}) \cup {e[1]}
      BY <2>8 DEF Firsts
    <3>. QED BY <1>1, <2>16, <3>1, <3>2
  <2>12. c[1] \in LS!Victims(v)
    <3>1. c[1] \in LS!Eligible(v)
      BY <1>9, <2>2, <2>3
    <3>2. \A x \in LS!Eligible(v) : end[x] <= end[c[1]]
      BY <1>9, <2>2
    <3>. QED BY <3>1, <3>2 DEF LS!Victims
  <2>13. alloc' = [alloc EXCEPT ![c[1]] = LS!InSlot(nextSlot), ![v] = alloc[c[1]]]
    <3>1. alloc[c[1]] = LS!InReg(c[2])
      BY <1>8, <2>3
    <3>. QED BY <2>2, <3>1
  <2>14. LS!SpillActive(v)
    <3>1. ToSet(callerStack)' = LS!CallerAfter(v) /\ ToSet(calleeStack)' = LS!CalleeAfter(v)
      BY <1>c, <1>2, <1>5
    <3>2. PICK x \in LS!Victims(v) : x = c[1]
      BY <2>12
    <3>3. /\ end[x] > end[v]
          /\ alloc' = [alloc EXCEPT ![x] = LS!InSlot(nextSlot), ![v] = alloc[x]]
          /\ {a[1] : a \in ToSet(active')} = (LS!Live(v) \ {x}) \cup {v}
      BY <2>2, <2>11, <2>13, <3>2
    <3>. QED BY <1>5, <1>7, <3>1, <3>3 DEF LS!SpillActive, LS!InSlot
  <2>. QED BY <2>10, <2>14
<1>13. CASE /\ ~(k # 0 /\ end[running[k][1]] > end[v])
            /\ alloc' = [alloc EXCEPT ![v] = LS!InSlot(nextSlot)]
            /\ active' = running
  <2>1. /\ DOMAIN alloc' = Value
        /\ \A w \in Value : w # v => alloc'[w] = alloc[w]
    BY <1>11, <1>13
  <2>2. ListInv'
    <3>1. \A a \in ToSet(active') : /\ a[1] \notin ToSet(Tail(queue))
                                    /\ alloc'[a[1]] = LS!InReg(a[2])
                                    /\ a[2] \notin ToSet(callerStack') \cup ToSet(calleeStack')
      BY <1>c, <1>1, <1>5, <1>8, <1>13, <2>1, QueueStep
    <3>. QED BY <1>c, <1>1, <1>2, <1>5, <1>13, <2>1, <3>1, InvStep
  <2>3. \A x \in LS!Eligible(v) : end[x] <= end[v]
    <3>1. CASE k = 0
      BY <1>9, <1>10, <3>1
    <3>2. CASE k # 0
      <4>1. PICK c : c = running[k]
        OBVIOUS
      <4>2. /\ k \in DOMAIN running /\ ~(end[c[1]] > end[v])
            /\ \A b \in run : (crosses => b[2] \in Callee) => end[b[1]] <= end[c[1]]
        <5>1. k \in DOMAIN running /\ ~(end[c[1]] > end[v])
          BY <1>10, <1>13, <3>2, <4>1
        <5>2. \A b \in run : (crosses => b[2] \in Callee) => end[b[1]] <= end[c[1]]
          BY <1>10, <3>2, <4>1
        <5>. QED BY <5>1, <5>2
      <4>3. c \in run
        BY <1>c, <4>1, <4>2 DEF ToSet
      <4>4. ASSUME NEW b \in run, crosses => b[2] \in Callee PROVE end[b[1]] <= end[v]
        <5>1. end[b[1]] <= end[c[1]]
          BY <4>2, <4>4
        <5>2. end[b[1]] \in Int /\ end[c[1]] \in Int /\ end[v] \in Int
          BY <1>4, <4>3
        <5>. QED BY <4>2, <5>1, <5>2
      <4>. QED BY <1>9, <4>4
    <3>. QED BY <3>1, <3>2
  <2>4. {a[1] : a \in ToSet(active')} = LS!Live(v)
    <3>1. ToSet(active') = run
      BY <1>c, <1>13
    <3>. QED BY <1>1, <3>1 DEF Firsts
  <2>5. LS!SpillSelf(v)
    <3>1. ToSet(callerStack)' = LS!CallerAfter(v) /\ ToSet(calleeStack)' = LS!CalleeAfter(v)
      BY <1>c, <1>2, <1>5
    <3>. QED BY <1>5, <1>7, <1>13, <2>3, <2>4, <3>1 DEF LS!SpillSelf, LS!InSlot
  <2>. QED BY <2>2, <2>5
<1>. QED BY <1>6, <1>12, <1>13

(***************************************************************************)
(* An iteration over the Vecs is one over the sets (regalloc.rs:234-307).  *)
(***************************************************************************)
LEMMA PlaceStep ==
    ASSUME ListInv, Place
    PROVE  LS!Next /\ ListInv'
<1>1. queue # <<>> /\ queue' = Tail(queue) /\ UNCHANGED <<start, end, calls>>
  BY DEF Place
<1>2. PICK v, running, caller, callee :
          /\ Found(v, running, caller, callee)
          /\ TakeFree(v, running, caller, callee) \/ Spill(v, running, caller, callee)
  BY DEF Place, Found
<1>3. ListInv' /\ (LS!TakeFree(v) \/ LS!SpillActive(v) \/ LS!SpillSelf(v))
  BY <1>1, <1>2, TakeFreeStep, SpillStep
<1>4. v \in LS!Candidates
  BY <1>1, <1>2, Expire
<1>5. ToSet(queue)' = ToSet(queue) \ {v}
  BY <1>1, <1>2, QueueStep DEF Found
<1>6. LS!Place(v)
  BY <1>1, <1>3, <1>5 DEF LS!Place, LS!input
<1>. QED BY <1>3, <1>4, <1>6 DEF LS!Next

-----------------------------------------------------------------------------
(* The start of the loop                                                    *)

(***************************************************************************)
(* Sorting leaves every interval in the Vec, once (regalloc.rs:217-222).   *)
(***************************************************************************)
LEMMA SortedHoldsAll ==
    ASSUME NEW q \in SortedByStart
    PROVE  /\ q \in Seq(Value) /\ ToSet(q) = Value
           /\ \A i, j \in DOMAIN q : i < j => q[i] # q[j] /\ start[q[i]] <= start[q[j]]
<1>1. PICK n \in Nat : n = Cardinality(Value)
  BY ListPoolsAssumption, FS_CardinalityType
<1>2. /\ q \in [1..n -> Value]
      /\ \A i, j \in 1..n : i # j => q[i] # q[j]
      /\ \A i, j \in 1..n : i < j => start[q[i]] <= start[q[j]]
  BY <1>1 DEF SortedByStart, SetToSeqs
<1>3. q \in Injection(1..n, Value)
  BY <1>2 DEF Injection, IsInjective
<1>4. IsFiniteSet(1..n) /\ Cardinality(1..n) = n
  BY <1>1, FS_Interval
<1>5. q \in Surjection(1..n, Value)
  BY <1>1, <1>3, <1>4, ListPoolsAssumption, FS_Injection
<1>6. DOMAIN q = 1..n /\ q \in Seq(Value)
  BY <1>1, <1>2
<1>7. ToSet(q) = Value
  <2>1. ToSet(q) \subseteq Value
    BY <1>2, <1>6 DEF ToSet
  <2>2. \A x \in Value : \E i \in 1..n : q[i] = x
    BY <1>5 DEF Surjection
  <2>. QED BY <1>6, <2>1, <2>2 DEF ToSet
<1>8. \A i, j \in 1..n : i < j => i # j
  BY <1>1
<1>. QED BY <1>2, <1>6, <1>7, <1>8

(***************************************************************************)
(* The loop starts with sound containers, in an initial state of the set   *)
(* model (regalloc.rs:217-232).                                            *)
(***************************************************************************)
LEMMA InitStep == Init => ListInv /\ LS!Init
<1>. SUFFICES ASSUME Init PROVE ListInv /\ LS!Init
  OBVIOUS
<1>1. /\ start \in [Value -> 0..MaxIndex]
      /\ end \in [Value -> 0..MaxIndex]
      /\ \A v \in Value : start[v] <= end[v]
      /\ calls \in SUBSET (1..MaxIndex)
      /\ queue \in SortedByStart
      /\ active = <<>>
      /\ callerStack = Reverse(CallerPool)
      /\ calleeStack = Reverse(CalleePool)
      /\ usedCallee = {}
      /\ alloc = [v \in Value |-> LS!Unplaced]
      /\ nextSlot = 0
  BY DEF Init
<1>2. /\ queue \in Seq(Value) /\ ToSet(queue) = Value
      /\ \A i, j \in DOMAIN queue : i < j => queue[i] # queue[j] /\ start[queue[i]] <= start[queue[j]]
  BY <1>1, SortedHoldsAll
<1>3. Chain(queue, Earlier)
  BY <1>2 DEF Chain, Earlier
<1>4. /\ callerStack \in Seq(Caller) /\ IsInjective(callerStack) /\ ToSet(callerStack) = Caller
      /\ calleeStack \in Seq(Callee) /\ IsInjective(calleeStack) /\ ToSet(calleeStack) = Callee
  BY <1>1, Pools, ReverseFacts DEF Caller, Callee
<1>5. active \in Seq(Entry) /\ ToSet(active) = {} /\ Chain(active, Apart)
  <2>1. <<>> \in Seq(Entry) /\ DOMAIN <<>> = {}
    OBVIOUS
  <2>. QED BY <1>1, <2>1 DEF ToSet, Chain
<1>6. ListInv
  BY <1>1, <1>2, <1>3, <1>4, <1>5 DEF ListInv, Intervals, ActiveSound, StacksSound
<1>7. LS!Init
  BY <1>1, <1>2, <1>4, <1>5 DEF LS!Init, LS!LoopInit, LS!Unplaced, Caller, Callee
<1>. QED BY <1>6, <1>7

-----------------------------------------------------------------------------
(* The theorems                                                             *)

(***************************************************************************)
(* A step that changes nothing of the Vecs changes nothing of the sets.    *)
(***************************************************************************)
LEMMA Stutter ==
    ASSUME ListInv, UNCHANGED vars
    PROVE  ListInv' /\ UNCHANGED LS!vars
<1>1. UNCHANGED LS!vars
  BY DEF vars, LS!vars
<1>2. Intervals'
  BY DEF vars, ListInv, Intervals, Chain, Earlier
<1>3. ActiveSound'
  BY DEF vars, ListInv, ActiveSound, Chain, Apart, LS!InReg
<1>4. StacksSound'
  BY DEF vars, ListInv, StacksSound
<1>. QED BY <1>1, <1>2, <1>3, <1>4 DEF ListInv

(***************************************************************************)
(* The containers stay sound: the Vec of intervals and the active Vec      *)
(* sorted, no value and no register in them twice (regalloc.rs:217-307).   *)
(***************************************************************************)
THEOREM ListInvariant == Spec => []ListInv
<1>1. Init => ListInv
  BY InitStep
<1>2. ListInv /\ [Next]_vars => ListInv'
  BY PlaceStep, Stutter DEF Next
<1>. QED BY <1>1, <1>2, PTL DEF Spec

(***************************************************************************)
(* Every run of the loop over Vecs and stacks is a run of the loop over    *)
(* sets, so that whatever LinearScan never does regalloc.rs never does:    *)
(* property ImplementsLinearScan (regalloc.rs:217-307).                    *)
(***************************************************************************)
THEOREM Implements == Spec => ImplementsLinearScan
<1>1. Init => LS!Init
  BY InitStep
<1>2. ListInv /\ [Next]_vars => [LS!Next]_LS!vars
  BY PlaceStep, Stutter DEF Next
<1>3. Spec => LS!Spec
  BY <1>1, <1>2, ListInvariant, PTL DEF Spec, LS!Spec
<1>. QED BY <1>3 DEF ImplementsLinearScan

(***************************************************************************)
(* The active Vec is sorted by end, agrees with the allocations, and no    *)
(* register is twice in it and the free stacks: property ListsSound        *)
(* (regalloc.rs:235-250, 254-262, 269-270, 285-295).                       *)
(***************************************************************************)
THEOREM ListsSoundAlways == Spec => []ListsSound
<1>1. ASSUME ListInv PROVE ListsSound
  <2>1. /\ active \in Seq(Entry) /\ Chain(active, Apart)
        /\ callerStack \in Seq(Caller) /\ IsInjective(callerStack)
        /\ calleeStack \in Seq(Callee) /\ IsInjective(calleeStack)
        /\ \A a \in ToSet(active) : /\ alloc[a[1]] = LS!InReg(a[2])
                                    /\ a[2] \notin ToSet(callerStack) \cup ToSet(calleeStack)
    BY <1>1 DEF ListInv, ActiveSound, StacksSound
  <2>2. \A i, j \in DOMAIN active : i < j => end[active[i][1]] <= end[active[j][1]]
    BY <2>1 DEF Chain, Apart
  <2>3. \A i \in DOMAIN active : alloc[active[i][1]] = LS!InReg(active[i][2])
    BY <2>1 DEF ToSet
  <2>. PICK A : A = Caller \cup Callee
    OBVIOUS
  <2>4. PICK regs : regs = [i \in DOMAIN active |-> active[i][2]]
    OBVIOUS
  <2>5. regs \in Seq(A) /\ IsInjective(regs) /\ ToSet(regs) = {a[2] : a \in ToSet(active)}
    <3>1. PICK n \in Nat : n = Len(active)
      BY <2>1
    <3>2. /\ DOMAIN active = 1..n /\ DOMAIN regs = 1..n
          /\ \A i \in 1..n : regs[i] = active[i][2] /\ regs[i] \in A
      BY <2>1, <2>4, <3>1 DEF Entry
    <3>3. regs \in Seq(A)
      <4>1. regs \in [1..n -> A]
        BY <2>4, <3>2
      <4>. QED BY <3>1, <4>1
    <3>4. IsInjective(regs)
      BY <2>1, <3>2, EntriesApart DEF IsInjective
    <3>5. ToSet(regs) = {a[2] : a \in ToSet(active)}
      BY <3>2 DEF ToSet
    <3>. QED BY <3>3, <3>4, <3>5
  <2>6. /\ callerStack \in Seq(A) /\ calleeStack \in Seq(A)
        /\ ToSet(callerStack) \subseteq Caller /\ ToSet(calleeStack) \subseteq Callee
    BY <2>1 DEF ToSet
  <2>7. /\ callerStack \o calleeStack \in Seq(A) /\ IsInjective(callerStack \o calleeStack)
        /\ ToSet(callerStack \o calleeStack) = ToSet(callerStack) \cup ToSet(calleeStack)
    BY <2>1, <2>6, Pools, ConcatFacts
  <2>8. IsInjective((callerStack \o calleeStack) \o regs)
    <3>1. ToSet(callerStack \o calleeStack) \cap ToSet(regs) = {}
      BY <2>1, <2>5, <2>7
    <3>. QED BY <2>5, <2>7, <3>1, ConcatFacts
  <2>. QED BY <2>2, <2>3, <2>4, <2>8 DEF ListsSound
<1>. QED BY <1>1, ListInvariant, PTL

-----------------------------------------------------------------------------
(* What is proved of the sets, of the lists                                 *)

\* LinearScan under the same mapping as LS, with its theorems.
Proved == INSTANCE LinearScanProofs WITH
        CallerSaved <- ToSet(CallerPool),
        CalleeSaved <- ToSet(CalleePool),
        todo <- ToSet(queue),
        active <- {a[1] : a \in ToSet(active)},
        freeCaller <- ToSet(callerStack),
        freeCallee <- ToSet(calleeStack)

(***************************************************************************)
(* LS and Proved are one specification under two names: every run of LS is *)
(* a run of Proved.                                                        *)
(***************************************************************************)
LEMMA SameSpec == LS!Spec => Proved!Spec
<1>1. LS!Init => Proved!Init
  BY DEF LS!Init, Proved!Init, LS!LoopInit, Proved!LoopInit, LS!Unplaced, Proved!Unplaced
<1>2. LS!Next => Proved!Next
  <2>1. LS!Candidates = Proved!Candidates
    BY DEF LS!Candidates, Proved!Candidates
  <2>2. ASSUME NEW v, LS!Place(v) PROVE Proved!Place(v)
    <3>1. LS!Live(v) = Proved!Live(v)
      BY DEF LS!Live, Proved!Live, LS!Expired, Proved!Expired
    <3>2. LS!CallerAfter(v) = Proved!CallerAfter(v) /\ LS!CalleeAfter(v) = Proved!CalleeAfter(v)
      BY DEF LS!Expired, Proved!Expired, LS!CallerAfter, Proved!CallerAfter,
             LS!CalleeAfter, Proved!CalleeAfter, LS!RegHeld, Proved!RegHeld
    <3>3. LS!CrossesCall(v) = Proved!CrossesCall(v)
      BY DEF LS!CrossesCall, Proved!CrossesCall
    <3>4. LS!Usable(v) = Proved!Usable(v)
      BY <3>2, <3>3 DEF LS!Usable, Proved!Usable
    <3>5. LS!Eligible(v) = Proved!Eligible(v)
      BY <3>1, <3>3 DEF LS!Eligible, Proved!Eligible, LS!RegHeld, Proved!RegHeld
    <3>6. LS!Victims(v) = Proved!Victims(v)
      BY <3>5 DEF LS!Victims, Proved!Victims
    <3>7. \A r : LS!InReg(r) = Proved!InReg(r) /\ LS!InSlot(r) = Proved!InSlot(r)
      BY DEF LS!InReg, Proved!InReg, LS!InSlot, Proved!InSlot
    <3>8. LS!TakeFree(v) => Proved!TakeFree(v)
      BY <3>1, <3>2, <3>3, <3>4, <3>7 DEF LS!TakeFree, Proved!TakeFree
    <3>9. LS!SpillActive(v) => Proved!SpillActive(v)
      BY <3>1, <3>2, <3>4, <3>6, <3>7 DEF LS!SpillActive, Proved!SpillActive
    <3>10. LS!SpillSelf(v) => Proved!SpillSelf(v)
      BY <3>1, <3>2, <3>4, <3>5, <3>7 DEF LS!SpillSelf, Proved!SpillSelf
    <3>. QED BY <2>2, <3>8, <3>9, <3>10 DEF LS!Place, Proved!Place, LS!input, Proved!input
  <2>. QED BY <2>1, <2>2 DEF LS!Next, Proved!Next
<1>3. UNCHANGED LS!vars => UNCHANGED Proved!vars
  BY DEF LS!vars, Proved!vars
<1>. QED BY <1>1, <1>2, <1>3, PTL DEF LS!Spec, Proved!Spec

(***************************************************************************)
(* The loop over Vecs and stacks shares no register between overlapping    *)
(* intervals, keeps values alive across calls out of caller-saved          *)
(* registers, reports every callee-saved register, gives no slot twice,    *)
(* spills only when no usable register is free, and what it spills ends    *)
(* last (regalloc.rs:217-307).                                             *)
(***************************************************************************)
THEOREM ListsInherit ==
    Spec => /\ []Proved!NoSharing
            /\ []Proved!CallSafe
            /\ []Proved!CalleeSavedRecorded
            /\ []Proved!SlotsDisjoint
            /\ Proved!SpillNeedsPressure
            /\ Proved!SpillsFurthestEnd
<1>1. Proved!PoolsAssumption
  BY Pools, ListPoolsAssumption DEF Proved!PoolsAssumption, Caller, Callee
<1>2. Proved!Spec => []Proved!NoSharing
  BY <1>1, Proved!NoSharingAlways
<1>3. Proved!Spec => []Proved!CallSafe
  BY <1>1, Proved!CallSafeAlways
<1>4. Proved!Spec => []Proved!CalleeSavedRecorded
  BY <1>1, Proved!CalleeSavedRecordedAlways
<1>5. Proved!Spec => []Proved!SlotsDisjoint
  BY <1>1, Proved!SlotsDisjointAlways
<1>6. Proved!Spec => Proved!SpillNeedsPressure
  BY <1>1, Proved!SpillNeedsPressureAlways
<1>7. Proved!Spec => Proved!SpillsFurthestEnd
  BY <1>1, Proved!SpillsFurthestEndAlways
<1>8. Spec => Proved!Spec
  BY Implements, SameSpec DEF ImplementsLinearScan
<1>. QED BY <1>2, <1>3, <1>4, <1>5, <1>6, <1>7, <1>8, PTL
=============================================================================
