--------------------------- MODULE OptimizerProofs ---------------------------
(***************************************************************************)
(* The passes of the optimizer leave no reader without its value and stop  *)
(* only when they have nothing left to do, for every function whose listed *)
(* instructions read parameters and results of listed instructions.        *)
(***************************************************************************)
EXTENDS Optimizer, Lists

-----------------------------------------------------------------------------
(* Resolve: where following remap ends                                      *)

\* g follows remap from v, m times.
Follows(g, remap, v, m) == g[0] = v /\ \A k \in 1..m : g[k] = remap[g[k - 1]]

(***************************************************************************)
(* Remap can be followed any number of times.                              *)
(***************************************************************************)
LEMMA FollowsExists ==
    ASSUME NEW n \in Nat, NEW remap, NEW v
    PROVE  \E g : DOMAIN g = 0..n /\ Follows(g, remap, v, n)
<1>. DEFINE Done == {m \in 0..n : \E g : DOMAIN g = 0..m /\ Follows(g, remap, v, m)}
<1>1. 0 \in Done
  <2>. PICK g : g = [i \in 0..0 |-> v]
    OBVIOUS
  <2>1. DOMAIN g = 0..0 /\ Follows(g, remap, v, 0)
    BY DEF Follows
  <2>. QED BY <2>1
<1>2. ASSUME NEW m \in 0..(n - 1), m \in Done
      PROVE  m + 1 \in Done
  <2>1. PICK g : DOMAIN g = 0..m /\ Follows(g, remap, v, m)
    BY <1>2
  <2>2. PICK last : last = remap[g[m]]
    OBVIOUS
  <2>3. PICK h : h = [i \in 0..(m + 1) |-> IF i = m + 1 THEN last ELSE g[i]]
    OBVIOUS
  <2>4. /\ DOMAIN h = 0..(m + 1) /\ h[m + 1] = last
        /\ \A i \in 0..m : h[i] = g[i]
    BY <2>3
  <2>5. ASSUME NEW i \in 1..(m + 1)
        PROVE  h[i] = remap[h[i - 1]]
    <3>1. CASE i = m + 1
      <4>1. h[i - 1] = g[m] /\ h[i] = last
        BY <2>4, <3>1
      <4>. QED BY <2>2, <4>1
    <3>2. CASE i # m + 1
      <4>1. i \in 1..m /\ h[i] = g[i] /\ h[i - 1] = g[i - 1]
        BY <2>4, <3>2
      <4>. QED BY <2>1, <4>1 DEF Follows
    <3>. QED BY <3>1, <3>2
  <2>6. h[0] = v
    BY <2>1, <2>4 DEF Follows
  <2>. QED BY <2>4, <2>5, <2>6 DEF Follows
<1>3. n \in Done
  <2>. HIDE DEF Done
  <2>. QED BY <1>1, <1>2, BoundedInduction
<1>. QED BY <1>3

(***************************************************************************)
(* Resolve is where it leads in as many steps as there are instructions.   *)
(***************************************************************************)
LEMMA ResolveFollows ==
    ASSUME NEW n \in Nat, n = Len(insts), NEW remap, NEW v
    PROVE  \E g : Follows(g, remap, v, n) /\ Resolve(remap, v) = g[n]
<1>. DEFINE Round(g) == [k \in 0..n |-> IF k = 0 THEN v ELSE remap[g[k - 1]]]
<1>1. PICK g : DOMAIN g = 0..n /\ Follows(g, remap, v, n)
  BY FollowsExists
<1>2. PICK h : h = [k \in 0..n |-> g[k]]
  OBVIOUS
<1>3. h = Round(h)
  <2>1. ASSUME NEW k \in 0..n, k # 0
        PROVE  h[k] = remap[h[k - 1]]
    <3>1. k \in 1..n /\ k - 1 \in 0..n
      BY <2>1
    <3>2. h[k] = g[k] /\ h[k - 1] = g[k - 1]
      BY <1>2, <3>1
    <3>. QED BY <1>1, <3>1, <3>2 DEF Follows
  <2>2. h[0] = v
    BY <1>1, <1>2 DEF Follows
  <2>. QED BY <1>2, <2>1, <2>2
<1>4. PICK at : at = CHOOSE f : f = Round(f)
  OBVIOUS
<1>5. at = Round(at)
  BY <1>3, <1>4
<1>6. Resolve(remap, v) = at[n]
  BY <1>4 DEF Resolve
<1>7. Follows(at, remap, v, n)
  <2>1. at[0] = v
    BY <1>5
  <2>2. ASSUME NEW k \in 1..n PROVE at[k] = remap[at[k - 1]]
    <3>1. k \in 0..n /\ k # 0
      OBVIOUS
    <3>. QED BY <1>5, <3>1
  <2>. QED BY <2>1, <2>2 DEF Follows
<1>. QED BY <1>6, <1>7

(***************************************************************************)
(* A set that remap does not lead out of, Resolve does not leave either.   *)
(***************************************************************************)
LEMMA ResolveStays ==
    ASSUME NEW n \in Nat, n = Len(insts), NEW remap, NEW A, \A w \in A : remap[w] \in A,
           NEW v \in A
    PROVE  Resolve(remap, v) \in A
<1>1. PICK g : Follows(g, remap, v, n) /\ Resolve(remap, v) = g[n]
  BY ResolveFollows
<1>. DEFINE Done == {m \in 0..n : g[m] \in A}
<1>2. 0 \in Done
  BY <1>1 DEF Follows
<1>3. ASSUME NEW m \in 0..(n - 1), m \in Done
      PROVE  m + 1 \in Done
  <2>1. m + 1 \in 1..n /\ m + 1 \in 0..n /\ (m + 1) - 1 = m /\ g[m] \in A
    BY <1>3
  <2>2. g[m + 1] = remap[g[m]]
    BY <1>1, <2>1 DEF Follows
  <2>. QED BY <2>1, <2>2
<1>4. n \in Done
  <2>. HIDE DEF Done
  <2>. QED BY <1>2, <1>3, BoundedInduction
<1>. QED BY <1>1, <1>4

-----------------------------------------------------------------------------
(* Rewriting and merging one instruction                                    *)

\* x is an instruction and reads only values of V.
Reads(x, V) ==
    /\ x = [op |-> x.op, args |-> x.args, n |-> x.n, of |-> x.of, to |-> x.to, from |-> x.from]
    /\ x.args \in Seq(V)

(***************************************************************************)
(* Rewriting touches only what is read, and reads what remap leads to.     *)
(***************************************************************************)
LEMMA RewriteFacts ==
    ASSUME NEW n \in Nat, n = Len(insts), NEW remap, NEW V, \A w \in V : remap[w] \in V,
           NEW x, Reads(x, V)
    PROVE  /\ Reads(Rewrite(x, remap), V)
           /\ Rewrite(x, remap).op = x.op
<1>1. PICK m \in Nat : m = Len(x.args) /\ DOMAIN x.args = 1..m /\ x.args \in Seq(V)
  BY DEF Reads
<1>2. PICK a : a = [k \in 1..m |-> Resolve(remap, x.args[k])]
  OBVIOUS
<1>3. a \in Seq(V)
  <2>1. ASSUME NEW k \in 1..m PROVE Resolve(remap, x.args[k]) \in V
    <3>1. PICK v \in V : v = x.args[k]
      BY <1>1
    <3>2. Resolve(remap, v) \in V
      BY ResolveStays
    <3>. QED BY <3>1, <3>2
  <2>. QED BY <1>2, <2>1
<1>4. Rewrite(x, remap) = [op |-> x.op, args |-> a, n |-> x.n, of |-> x.of, to |-> x.to, from |-> x.from]
  <2>1. Rewrite(x, remap) = [x EXCEPT !.args = a]
    BY <1>1, <1>2 DEF Rewrite
  <2>. QED BY <2>1 DEF Reads
<1>. QED BY <1>3, <1>4 DEF Reads

(***************************************************************************)
(* A remap that maps every value to itself rewrites nothing.               *)
(***************************************************************************)
LEMMA RewriteNone ==
    ASSUME NEW n \in Nat, n = Len(insts), NEW remap, NEW V, \A w \in V : remap[w] = w,
           NEW x, Reads(x, V)
    PROVE  Rewrite(x, remap) = x
<1>1. PICK m \in Nat : m = Len(x.args) /\ DOMAIN x.args = 1..m /\ x.args \in Seq(V)
  BY DEF Reads
<1>2. PICK a : a = [k \in 1..m |-> Resolve(remap, x.args[k])]
  OBVIOUS
<1>3. a = x.args
  <2>1. ASSUME NEW k \in 1..m PROVE Resolve(remap, x.args[k]) = x.args[k]
    <3>1. PICK v \in V : v = x.args[k]
      BY <1>1
    <3>2. PICK A : A = {v}
      OBVIOUS
    <3>3. Resolve(remap, v) \in A
      BY <3>2, ResolveStays
    <3>. QED BY <3>1, <3>2, <3>3
  <2>2. x.args = [k \in 1..m |-> x.args[k]]
    BY <1>1
  <2>. QED BY <1>2, <2>1, <2>2
<1>4. Rewrite(x, remap) = [x EXCEPT !.args = a]
  BY <1>1, <1>2 DEF Rewrite
<1>. QED BY <1>3, <1>4 DEF Reads

Record(s) == s = [insts |-> s.insts, remap |-> s.remap, seen |-> s.seen]

(***************************************************************************)
(* An instruction met with the remap and the first of each kind in s is    *)
(* passed over, remembered, or merged with one of the same kind.           *)
(***************************************************************************)
LEMMA MergeCases ==
    ASSUME NEW s, Record(s), NEW i, NEW inst, inst = Rewrite(s.insts[i], s.remap)
    PROVE  \E t : /\ t = [s.insts EXCEPT ![i] = inst]
                  /\ \/ /\ HasSideEffects(inst) \/ ~Defines(i)
                        /\ Merge(s, i) = [insts |-> t, remap |-> s.remap, seen |-> s.seen]
                     \/ /\ ~HasSideEffects(inst) /\ Defines(i)
                        /\ \A j \in s.seen : s.insts[j] # inst
                        /\ Merge(s, i) = [insts |-> t, remap |-> s.remap, seen |-> s.seen \cup {i}]
                     \/ \E j \in s.seen :
                            /\ Merge(s, i) = [insts |-> t, remap |-> [s.remap EXCEPT ![i] = j],
                                              seen |-> s.seen]
<1>1. PICK t : t = [s.insts EXCEPT ![i] = inst]
  OBVIOUS
<1>2. PICK u : u = [s EXCEPT !.insts[i] = inst]
  OBVIOUS
<1>3. u = [insts |-> t, remap |-> s.remap, seen |-> s.seen]
  BY <1>1, <1>2 DEF Record
<1>4. PICK same : same = {j \in s.seen : s.insts[j] = inst}
  OBVIOUS
<1>5. Merge(s, i) = IF HasSideEffects(inst) \/ ~Defines(i) THEN u
                    ELSE IF same = {} THEN [u EXCEPT !.seen = @ \cup {i}]
                    ELSE [u EXCEPT !.remap[i] = CHOOSE j \in same : TRUE]
  BY <1>2, <1>4 DEF Merge
<1>6. CASE HasSideEffects(inst) \/ ~Defines(i)
  BY <1>1, <1>3, <1>5, <1>6
<1>7. CASE ~HasSideEffects(inst) /\ Defines(i) /\ same = {}
  <2>1. Merge(s, i) = [insts |-> t, remap |-> s.remap, seen |-> s.seen \cup {i}]
    BY <1>3, <1>5, <1>7
  <2>2. \A j \in s.seen : s.insts[j] # inst
    BY <1>4, <1>7
  <2>. QED BY <1>1, <1>7, <2>1, <2>2
<1>8. CASE ~HasSideEffects(inst) /\ Defines(i) /\ same # {}
  <2>1. PICK j : j = CHOOSE k \in same : TRUE
    OBVIOUS
  <2>2. j \in same
    BY <1>8, <2>1
  <2>3. Merge(s, i) = [u EXCEPT !.remap[i] = j]
    BY <1>5, <1>8, <2>1
  <2>4. Merge(s, i) = [insts |-> t, remap |-> [s.remap EXCEPT ![i] = j], seen |-> s.seen]
    BY <1>3, <2>3
  <2>. QED BY <1>1, <1>4, <2>2, <2>4
<1>. QED BY <1>6, <1>7, <1>8

-----------------------------------------------------------------------------
(* The arena and the lists of the blocks                                    *)

Values == ValuesOf(func)

\* What a listed instruction may read.
Readable == Values \cap (Listed \cup {0})

Arena(a) ==
    /\ a = [i \in DOMAIN func.insts |-> a[i]]
    /\ \A i \in DOMAIN func.insts : Reads(a[i], Values)
    /\ \A i \in Listed : Reads(a[i], Readable)

Typed ==
    /\ func \in Program
    /\ Arena(insts)
    /\ blocks \in Seq(Seq(DOMAIN func.insts))
    /\ \A b \in DOMAIN blocks : IsInjective(blocks[b])
    /\ \A b, c \in DOMAIN blocks : b # c => ToSet(blocks[b]) \cap ToSet(blocks[c]) = {}
    /\ pass \in {"fold", "cse", "dce", "done"}
    /\ changed \in BOOLEAN

(***************************************************************************)
(* The arena keeps its length, and the blocks list only what is in it.     *)
(***************************************************************************)
LEMMA Sizes ==
    ASSUME Typed
    PROVE  \E n \in Nat : /\ n = Len(insts) /\ DOMAIN insts = 1..n /\ DOMAIN func.insts = 1..n
                          /\ Listed \subseteq 1..n
                          /\ Readable \subseteq Values
                          /\ Values = {0} \cup {i \in 1..n : Defines(i)}
<1>1. PICK n \in Nat : n = Len(func.insts) /\ DOMAIN func.insts = 1..n
  <2>1. func.insts \in Seq(Instruction(ValuesOf(func)))
    BY ProgramAssumption DEF Typed
  <2>. QED BY <2>1
<1>2. insts = [i \in 1..n |-> insts[i]]
  BY <1>1 DEF Typed, Arena
<1>3. Len(insts) = n
  <2>1. PICK S : S = {insts[i] : i \in 1..n}
    OBVIOUS
  <2>2. insts \in [1..n -> S]
    BY <1>2, <2>1
  <2>3. insts \in Seq(S) /\ DOMAIN insts = 1..n
    BY <2>2
  <2>. QED BY <2>3
<1>4. Listed \subseteq 1..n
  <2>. SUFFICES ASSUME NEW i \in Listed PROVE i \in 1..n
    OBVIOUS
  <2>1. PICK b \in DOMAIN blocks : i \in ToSet(blocks[b])
    BY DEF Listed
  <2>2. blocks[b] \in Seq(1..n)
    BY <1>1 DEF Typed
  <2>. QED BY <2>1, <2>2 DEF ToSet
<1>5. Readable \subseteq Values
  BY DEF Readable
<1>6. Values = {0} \cup {i \in 1..n : Defines(i)}
  BY <1>1 DEF Values, ValuesOf, Defines
<1>. QED BY <1>1, <1>2, <1>3, <1>4, <1>5, <1>6

\* Merging has met the instructions in done: a value is its own image or that of
\* one met before it, which is its own.
Good(s, done) ==
    /\ Record(s)
    /\ Arena(s.insts)
    /\ s.remap \in [0..Len(insts) -> 0..Len(insts)]
    /\ \A v \in 0..Len(insts) :
          \/ s.remap[v] = v
          \/ v \in done /\ s.remap[v] \in done \cap Readable /\ s.remap[s.remap[v]] = s.remap[v]
    /\ s.seen \subseteq done \cap Readable
    /\ \A j \in s.seen : s.remap[j] = j
    /\ done \subseteq Listed

(***************************************************************************)
(* Remap leads from what may be read to what may be read.                  *)
(***************************************************************************)
LEMMA GoodCloses ==
    ASSUME Typed, NEW s, NEW done, Good(s, done)
    PROVE  /\ \A w \in Values : s.remap[w] \in Values
           /\ \A w \in Readable : s.remap[w] \in Readable
<1>1. PICK n \in Nat : /\ n = Len(insts) /\ Readable \subseteq Values
                       /\ Values = {0} \cup {i \in 1..n : Defines(i)}
  BY Sizes
<1>2. Values \subseteq 0..n
  BY <1>1
<1>. QED BY <1>1, <1>2 DEF Good

(***************************************************************************)
(* An instruction is rewritten to one that reads no less than it may.      *)
(***************************************************************************)
LEMMA GoodRewrites ==
    ASSUME Typed, NEW s, NEW done, Good(s, done), NEW i \in DOMAIN func.insts
    PROVE  LET inst == Rewrite(s.insts[i], s.remap) IN
           /\ Reads(inst, Values)
           /\ i \in Listed => Reads(inst, Readable)
<1>1. PICK n \in Nat : n = Len(insts)
  BY Sizes
<1>2. PICK remap, x : remap = s.remap /\ x = s.insts[i]
  OBVIOUS
<1>3. /\ \A w \in Values : remap[w] \in Values
      /\ \A w \in Readable : remap[w] \in Readable
  BY <1>2, GoodCloses
<1>4. Reads(x, Values) /\ (i \in Listed => Reads(x, Readable))
  BY <1>2 DEF Good, Arena
<1>5. Reads(Rewrite(x, remap), Values)
  BY <1>1, <1>3, <1>4, RewriteFacts
<1>6. i \in Listed => Reads(Rewrite(x, remap), Readable)
  BY <1>1, <1>3, <1>4, RewriteFacts
<1>. QED BY <1>2, <1>5, <1>6

(***************************************************************************)
(* Meeting one more instruction keeps the arena and the remap good.        *)
(***************************************************************************)
LEMMA MergeGood ==
    ASSUME Typed, NEW s, NEW done, Good(s, done), NEW i \in Listed, i \notin done
    PROVE  Good(Merge(s, i), done \cup {i})
<1>1. PICK n \in Nat : /\ n = Len(insts) /\ Readable \subseteq Values
                       /\ DOMAIN func.insts = 1..n /\ Listed \subseteq 1..n
                       /\ Values = {0} \cup {k \in 1..n : Defines(k)}
  BY Sizes
<1>2. PICK inst : inst = Rewrite(s.insts[i], s.remap)
  OBVIOUS
<1>3. Reads(inst, Values) /\ Reads(inst, Readable) /\ i \in 1..n
  BY <1>1, <1>2, GoodRewrites
<1>4. PICK t : /\ t = [s.insts EXCEPT ![i] = inst]
               /\ \/ /\ HasSideEffects(inst) \/ ~Defines(i)
                     /\ Merge(s, i) = [insts |-> t, remap |-> s.remap, seen |-> s.seen]
                  \/ /\ ~HasSideEffects(inst) /\ Defines(i)
                     /\ \A j \in s.seen : s.insts[j] # inst
                     /\ Merge(s, i) = [insts |-> t, remap |-> s.remap, seen |-> s.seen \cup {i}]
                  \/ \E j \in s.seen :
                         /\ Merge(s, i) = [insts |-> t, remap |-> [s.remap EXCEPT ![i] = j],
                                           seen |-> s.seen]
  BY <1>2, MergeCases DEF Good
<1>5. Arena(t)
  <2>1. s.insts = [k \in 1..n |-> s.insts[k]]
    BY <1>1 DEF Good, Arena
  <2>2. t = [k \in 1..n |-> t[k]] /\ \A k \in 1..n : t[k] = IF k = i THEN inst ELSE s.insts[k]
    BY <1>4, <2>1
  <2>3. /\ \A k \in 1..n : Reads(s.insts[k], Values)
        /\ \A k \in Listed : Reads(s.insts[k], Readable)
    BY <1>1 DEF Good, Arena
  <2>4. \A k \in 1..n : Reads(t[k], Values)
    BY <1>3, <2>2, <2>3
  <2>5. \A k \in Listed : Reads(t[k], Readable)
    BY <1>1, <1>3, <2>2, <2>3
  <2>. QED BY <1>1, <2>2, <2>4, <2>5 DEF Arena
<1>6. /\ s.remap \in [0..n -> 0..n] /\ s.seen \subseteq done \cap Readable /\ done \subseteq Listed
      /\ \A v \in 0..n :
            \/ s.remap[v] = v
            \/ v \in done /\ s.remap[v] \in done \cap Readable /\ s.remap[s.remap[v]] = s.remap[v]
      /\ \A j \in s.seen : s.remap[j] = j
  BY <1>1 DEF Good
<1>7. \A j \in s.seen : /\ j \in done \cap Readable /\ j # i
                         /\ s.remap[j] = j /\ j \in 1..n /\ j \in 0..n
  <2>. SUFFICES ASSUME NEW j \in s.seen
                PROVE  /\ j \in done \cap Readable /\ j # i
                       /\ s.remap[j] = j /\ j \in 1..n /\ j \in 0..n
    OBVIOUS
  <2>1. j \in done /\ j \in Readable /\ s.remap[j] = j
    BY <1>6
  <2>2. j \in 1..n
    BY <1>1, <1>6, <2>1
  <2>. QED BY <2>1, <2>2
<1>8. CASE Merge(s, i) = [insts |-> t, remap |-> s.remap, seen |-> s.seen]
  <2>1. PICK u : u = Merge(s, i)
    OBVIOUS
  <2>2. u.insts = t /\ u.remap = s.remap /\ u.seen = s.seen /\ Record(u)
    BY <1>8, <2>1 DEF Record
  <2>3. Good(u, done \cup {i})
    BY <1>1, <1>5, <1>6, <2>2 DEF Good
  <2>. QED BY <2>1, <2>3
<1>9. CASE Defines(i) /\ Merge(s, i) = [insts |-> t, remap |-> s.remap, seen |-> s.seen \cup {i}]
  <2>1. PICK u : u = Merge(s, i)
    OBVIOUS
  <2>2. u.insts = t /\ u.remap = s.remap /\ u.seen = s.seen \cup {i} /\ Record(u)
    BY <1>9, <2>1 DEF Record
  <2>3. i \in Readable /\ s.remap[i] = i
    BY <1>1, <1>3, <1>6, <1>9 DEF Readable
  <2>4. Good(u, done \cup {i})
    BY <1>1, <1>5, <1>6, <2>2, <2>3 DEF Good
  <2>. QED BY <2>1, <2>4
<1>10. ASSUME NEW j \in s.seen,
             Merge(s, i) = [insts |-> t, remap |-> [s.remap EXCEPT ![i] = j], seen |-> s.seen]
      PROVE  Good(Merge(s, i), done \cup {i})
  <2>1. PICK u : u = Merge(s, i)
    OBVIOUS
  <2>2. /\ u.insts = t /\ u.remap = [s.remap EXCEPT ![i] = j] /\ u.seen = s.seen
        /\ Record(u)
    BY <1>10, <2>1 DEF Record
  <2>3. j \in done \cap Readable /\ j # i /\ s.remap[j] = j /\ j \in 0..n
    BY <1>7
  <2>4. /\ u.remap \in [0..n -> 0..n] /\ u.remap[i] = j /\ u.remap[j] = j
        /\ \A v \in 0..n : v # i => u.remap[v] = s.remap[v]
    <3>1. i \in 0..n /\ s.remap \in [0..n -> 0..n]
      BY <1>3, <1>6
    <3>. QED BY <2>2, <2>3, <3>1
  <2>5. ASSUME NEW v \in 0..n
        PROVE  \/ u.remap[v] = v
               \/ /\ v \in done \cup {i} /\ u.remap[v] \in (done \cup {i}) \cap Readable
                  /\ u.remap[u.remap[v]] = u.remap[v]
    <3>1. CASE v = i
      BY <2>3, <2>4, <3>1
    <3>2. CASE v # i
      <4>1. s.remap[v] \in 0..n /\ (s.remap[v] = v \/ s.remap[v] \in done)
        BY <1>6
      <4>. QED BY <1>6, <2>4, <3>2, <4>1
    <3>. QED BY <3>1, <3>2
  <2>6. \A k \in u.seen : u.remap[k] = k
    BY <1>6, <1>7, <2>2, <2>4
  <2>7. Good(u, done \cup {i})
    BY <1>1, <1>5, <1>6, <2>2, <2>4, <2>5, <2>6 DEF Good
  <2>. QED BY <2>1, <2>7
<1>. QED BY <1>4, <1>8, <1>9, <1>10

\* Nothing is merged when what may be read is what it was.
Quiet(s) == s.remap = NoRemap => s.insts = insts

Pure(i) == ~HasSideEffects(insts[i]) /\ Defines(i)

(***************************************************************************)
(* An instruction after which every value is still its own image was not   *)
(* merged: none like it was seen, and it reads what it read before.        *)
(***************************************************************************)
LEMMA MergeQuiet ==
    ASSUME Typed, NEW s, NEW done, Good(s, done), Quiet(s), NEW i \in Listed, i \notin done,
           Merge(s, i).remap = NoRemap
    PROVE  /\ s.remap = NoRemap
           /\ Merge(s, i).insts = insts
           /\ Merge(s, i).seen = IF Pure(i) THEN s.seen \cup {i} ELSE s.seen
           /\ Pure(i) => \A j \in s.seen : insts[j] # insts[i]
<1>1. PICK n \in Nat : /\ n = Len(insts) /\ DOMAIN insts = 1..n /\ DOMAIN func.insts = 1..n
                       /\ Listed \subseteq 1..n
                       /\ Values = {0} \cup {k \in 1..n : Defines(k)}
  BY Sizes
<1>2. PICK inst : inst = Rewrite(s.insts[i], s.remap)
  OBVIOUS
<1>3. PICK t : /\ t = [s.insts EXCEPT ![i] = inst]
               /\ \/ /\ HasSideEffects(inst) \/ ~Defines(i)
                     /\ Merge(s, i) = [insts |-> t, remap |-> s.remap, seen |-> s.seen]
                  \/ /\ ~HasSideEffects(inst) /\ Defines(i)
                     /\ \A j \in s.seen : s.insts[j] # inst
                     /\ Merge(s, i) = [insts |-> t, remap |-> s.remap, seen |-> s.seen \cup {i}]
                  \/ \E j \in s.seen :
                         /\ Merge(s, i) = [insts |-> t, remap |-> [s.remap EXCEPT ![i] = j],
                                           seen |-> s.seen]
  BY <1>2, MergeCases DEF Good
<1>4. i \in 0..n /\ i \in 1..n
  BY <1>1
<1>5. ASSUME NEW j \in s.seen, Merge(s, i).remap = [s.remap EXCEPT ![i] = j]
      PROVE  FALSE
  <2>1. j # i
    BY DEF Good
  <2>2. s.remap \in [0..n -> 0..n]
    BY <1>1 DEF Good
  <2>3. Merge(s, i).remap[i] = j
    BY <1>4, <1>5, <2>2
  <2>4. NoRemap[i] = i
    BY <1>1, <1>4 DEF NoRemap
  <2>. QED BY <2>1, <2>3, <2>4
<1>6. s.remap = NoRemap
  BY <1>3, <1>5
<1>7. s.insts = insts
  BY <1>6 DEF Quiet
<1>8. inst = insts[i]
  <2>1. PICK x, remap : x = insts[i] /\ remap = s.remap
    OBVIOUS
  <2>2. \A w \in Values : remap[w] = w
    <3>1. Values \subseteq 0..n
      BY <1>1
    <3>. QED BY <1>1, <1>6, <2>1, <3>1 DEF NoRemap
  <2>3. Reads(x, Values)
    BY <1>1, <1>4, <2>1 DEF Typed, Arena
  <2>4. Rewrite(x, remap) = x
    BY <1>1, <2>2, <2>3, RewriteNone
  <2>. QED BY <1>2, <1>7, <2>1, <2>4
<1>9. t = insts
  <2>1. insts = [k \in 1..n |-> insts[k]]
    BY <1>1 DEF Typed, Arena
  <2>. QED BY <1>3, <1>7, <1>8, <2>1
<1>. QED BY <1>3, <1>5, <1>6, <1>7, <1>8, <1>9 DEF Pure

-----------------------------------------------------------------------------
(* Merging the instructions of a block                                      *)

\* g is the state after each of the first m instructions of block.
Meets(g, s, block, m) == g[0] = s /\ \A k \in 1..m : g[k] = Merge(g[k - 1], block[k])

(***************************************************************************)
(* There is a state after each instruction.                                *)
(***************************************************************************)
LEMMA MeetsExists ==
    ASSUME NEW n \in Nat, NEW s, NEW block
    PROVE  \E g : DOMAIN g = 0..n /\ Meets(g, s, block, n)
<1>. DEFINE Done == {m \in 0..n : \E g : DOMAIN g = 0..m /\ Meets(g, s, block, m)}
<1>1. 0 \in Done
  <2>. PICK g : g = [i \in 0..0 |-> s]
    OBVIOUS
  <2>1. DOMAIN g = 0..0 /\ Meets(g, s, block, 0)
    BY DEF Meets
  <2>. QED BY <2>1
<1>2. ASSUME NEW m \in 0..(n - 1), m \in Done
      PROVE  m + 1 \in Done
  <2>1. PICK g : DOMAIN g = 0..m /\ Meets(g, s, block, m)
    BY <1>2
  <2>2. PICK last : last = Merge(g[m], block[m + 1])
    OBVIOUS
  <2>3. PICK h : h = [i \in 0..(m + 1) |-> IF i = m + 1 THEN last ELSE g[i]]
    OBVIOUS
  <2>4. /\ DOMAIN h = 0..(m + 1) /\ h[m + 1] = last
        /\ \A i \in 0..m : h[i] = g[i]
    BY <2>3
  <2>5. ASSUME NEW i \in 1..(m + 1)
        PROVE  h[i] = Merge(h[i - 1], block[i])
    <3>1. CASE i = m + 1
      <4>1. h[i - 1] = g[m] /\ h[i] = last
        BY <2>4, <3>1
      <4>. QED BY <2>2, <3>1, <4>1
    <3>2. CASE i # m + 1
      <4>1. i \in 1..m /\ h[i] = g[i] /\ h[i - 1] = g[i - 1]
        BY <2>4, <3>2
      <4>. QED BY <2>1, <4>1 DEF Meets
    <3>. QED BY <3>1, <3>2
  <2>6. h[0] = s
    BY <2>1, <2>4 DEF Meets
  <2>. QED BY <2>4, <2>5, <2>6 DEF Meets
<1>3. n \in Done
  <2>. HIDE DEF Done
  <2>. QED BY <1>1, <1>2, BoundedInduction
<1>. QED BY <1>3

(***************************************************************************)
(* MergeList is the state after the last one.                              *)
(***************************************************************************)
LEMMA MergeListMeets ==
    ASSUME NEW n \in Nat, NEW s, NEW block, n = Len(block)
    PROVE  \E g : Meets(g, s, block, n) /\ MergeList(s, block) = g[n]
<1>. DEFINE Round(g) == [k \in 0..n |-> IF k = 0 THEN s ELSE Merge(g[k - 1], block[k])]
<1>1. PICK g : DOMAIN g = 0..n /\ Meets(g, s, block, n)
  BY MeetsExists
<1>2. PICK h : h = [k \in 0..n |-> g[k]]
  OBVIOUS
<1>3. h = Round(h)
  <2>1. ASSUME NEW k \in 0..n, k # 0
        PROVE  h[k] = Merge(h[k - 1], block[k])
    <3>1. k \in 1..n /\ k - 1 \in 0..n
      BY <2>1
    <3>2. h[k] = g[k] /\ h[k - 1] = g[k - 1]
      BY <1>2, <3>1
    <3>. QED BY <1>1, <3>1, <3>2 DEF Meets
  <2>2. h[0] = s
    BY <1>1, <1>2 DEF Meets
  <2>. QED BY <1>2, <2>1, <2>2
<1>4. PICK after : after = CHOOSE f : f = Round(f)
  OBVIOUS
<1>5. after = Round(after)
  BY <1>3, <1>4
<1>6. MergeList(s, block) = after[n]
  BY <1>4 DEF MergeList
<1>7. Meets(after, s, block, n)
  <2>1. after[0] = s
    BY <1>5
  <2>2. ASSUME NEW k \in 1..n PROVE after[k] = Merge(after[k - 1], block[k])
    <3>1. k \in 0..n /\ k # 0
      OBVIOUS
    <3>. QED BY <1>5, <3>1
  <2>. QED BY <2>1, <2>2 DEF Meets
<1>. QED BY <1>6, <1>7

\* The first m instructions a block lists.
First(block, m) == {block[k] : k \in 1..m}

(***************************************************************************)
(* The arena and the remap stay good after each instruction of a block.    *)
(***************************************************************************)
LEMMA MeetsGood ==
    ASSUME Typed, NEW b \in DOMAIN blocks, NEW n \in Nat, n = Len(blocks[b]),
           NEW s, NEW done, Good(s, done), done \cap ToSet(blocks[b]) = {},
           NEW g, Meets(g, s, blocks[b], n)
    PROVE  \A m \in 0..n : Good(g[m], done \cup First(blocks[b], m))
<1>1. PICK block : block = blocks[b]
  OBVIOUS
<1>2. /\ DOMAIN block = 1..n /\ IsInjective(block) /\ ToSet(block) \subseteq Listed
      /\ ToSet(block) = {block[k] : k \in 1..n}
  <2>1. block \in Seq(DOMAIN func.insts) /\ IsInjective(block)
    BY <1>1 DEF Typed
  <2>2. ToSet(block) \subseteq Listed
    BY <1>1 DEF Listed
  <2>. QED BY <1>1, <2>1, <2>2 DEF ToSet
<1>. DEFINE Done == {m \in 0..n : Good(g[m], done \cup First(block, m))}
<1>3. 0 \in Done
  <2>1. First(block, 0) = {} /\ g[0] = s
    BY DEF First, Meets
  <2>2. done \cup First(block, 0) = done
    BY <2>1
  <2>3. Good(g[0], done \cup First(block, 0))
    BY <2>1, <2>2, Zenon
  <2>4. 0 \in 0..n
    OBVIOUS
  <2>. QED BY <2>3, <2>4
<1>4. ASSUME NEW m \in 0..(n - 1), m \in Done
      PROVE  m + 1 \in Done
  <2>1. PICK o : o = m + 1
    OBVIOUS
  <2>2. o \in 1..n /\ o \in 0..n /\ o - 1 = m /\ 1..o = 1..m \cup {o} /\ o \notin 1..m /\ 1..m \subseteq 1..n
    BY <2>1
  <2>3. PICK i, met : i = block[o] /\ met = done \cup First(block, m)
    OBVIOUS
  <2>4. i \in Listed /\ i \notin met
    <3>1. i \in ToSet(block)
      BY <1>2, <2>2, <2>3
    <3>2. i \notin First(block, m)
      BY <1>2, <2>2, <2>3 DEF IsInjective, First
    <3>. QED BY <1>1, <1>2, <2>3, <3>1, <3>2
  <2>5. Good(Merge(g[m], i), met \cup {i})
    <3>1. Good(g[m], met)
      BY <1>4, <2>3
    <3>. QED BY <2>4, <3>1, MergeGood
  <2>6. g[o] = Merge(g[m], i)
    BY <1>1, <2>2, <2>3 DEF Meets
  <2>7. met \cup {i} = done \cup First(block, o)
    BY <2>2, <2>3 DEF First
  <2>. QED BY <2>1, <2>2, <2>5, <2>6, <2>7
<1>5. \A m \in 0..n : m \in Done
  <2>. HIDE DEF Done
  <2>. QED BY <1>3, <1>4, BoundedInduction
<1>. QED BY <1>1, <1>5

\* No two instructions of block b that have a result are the same.
Distinct(b) ==
    \A i, j \in ToSet(blocks[b]) :
        i # j /\ insts[i] = insts[j] /\ Defines(i) /\ Defines(j) => HasSideEffects(insts[i])

(***************************************************************************)
(* A block leaves the arena and the remap good.  If every value is still   *)
(* its own image after it, there was nothing to merge in it.               *)
(***************************************************************************)
LEMMA BlockGood ==
    ASSUME Typed, NEW b \in DOMAIN blocks, NEW s, NEW done, Good(s, done),
           done \cap ToSet(blocks[b]) = {}
    PROVE  LET t == MergeBlock(s, blocks[b]) IN
           /\ Good(t, done \cup ToSet(blocks[b]))
           /\ Quiet(s) => Quiet(t)
           /\ Quiet(s) /\ t.remap = NoRemap => s.remap = NoRemap /\ Distinct(b)
<1>1. PICK block : block = blocks[b]
  OBVIOUS
<1>2. block \in Seq(DOMAIN func.insts) /\ IsInjective(block) /\ ToSet(block) \subseteq Listed
  BY <1>1 DEF Typed, Listed
<1>3. PICK n \in Nat : n = Len(block) /\ DOMAIN block = 1..n
  BY <1>2
<1>4. PICK r : r = [s EXCEPT !.seen = {}]
  OBVIOUS
<1>5. r = [insts |-> s.insts, remap |-> s.remap, seen |-> {}]
  BY <1>4 DEF Good, Record
<1>6. Good(r, done)
  <2>1. r.insts = s.insts /\ r.remap = s.remap /\ r.seen = {} /\ Record(r)
    BY <1>5 DEF Record
  <2>. QED BY <2>1 DEF Good
<1>7. PICK g : Meets(g, r, block, n) /\ MergeList(r, block) = g[n]
  BY <1>3, MergeListMeets
<1>8. \A m \in 0..n : Good(g[m], done \cup First(block, m))
  BY <1>1, <1>3, <1>6, <1>7, MeetsGood
<1>9. MergeBlock(s, block) = g[n]
  BY <1>4, <1>7 DEF MergeBlock
<1>10. First(block, n) = ToSet(block)
  BY <1>3 DEF First, ToSet
<1>11. Good(g[n], done \cup ToSet(block))
  BY <1>8, <1>10
\* Had instruction k been merged, some value would not be its own image for good.
<1>. DEFINE Still == {m \in 0..n :
        g[m].remap = NoRemap =>
            /\ r.remap = NoRemap /\ g[m].insts = insts
            /\ g[m].seen = {i \in First(block, m) : Pure(i)}
            /\ \A i, j \in g[m].seen : i # j => insts[i] # insts[j]}
<1>12. ASSUME Quiet(s) PROVE n \in Still
  <2>1. 0 \in Still
    <3>1. g[0] = r /\ First(block, 0) = {}
      BY <1>7 DEF Meets, First
    <3>. QED BY <1>5, <1>12, <3>1 DEF Quiet
  <2>2. ASSUME NEW m \in 0..(n - 1), m \in Still
        PROVE  m + 1 \in Still
    <3>1. PICK o : o = m + 1
      OBVIOUS
    <3>2. /\ o \in 1..n /\ o \in 0..n /\ o - 1 = m /\ 1..o = 1..m \cup {o} /\ o \notin 1..m
          /\ 1..m \subseteq 1..n /\ m \in 0..n
      BY <3>1
    <3>3. PICK i, met, u : i = block[o] /\ met = done \cup First(block, m) /\ u = g[m]
      OBVIOUS
    <3>4. i \in Listed /\ i \notin met
      <4>1. i \in ToSet(block)
        BY <1>3, <3>2, <3>3 DEF ToSet
      <4>2. i \notin First(block, m)
        BY <1>2, <1>3, <3>2, <3>3 DEF IsInjective, First
      <4>. QED BY <1>1, <1>2, <3>3, <4>1, <4>2
    <3>5. g[o] = Merge(u, i) /\ Good(u, met)
      BY <1>7, <1>8, <3>2, <3>3 DEF Meets
    <3>6. ASSUME g[o].remap = NoRemap
          PROVE  /\ r.remap = NoRemap /\ g[o].insts = insts
                 /\ g[o].seen = {j \in First(block, o) : Pure(j)}
                 /\ \A j, k \in g[o].seen : j # k => insts[j] # insts[k]
      <4>1. Quiet(u)
        BY <2>2, <3>3 DEF Quiet
      <4>2. /\ u.remap = NoRemap /\ g[o].insts = insts
            /\ g[o].seen = IF Pure(i) THEN u.seen \cup {i} ELSE u.seen
            /\ Pure(i) => \A j \in u.seen : insts[j] # insts[i]
        BY <3>4, <3>5, <3>6, <4>1, MergeQuiet
      <4>3. /\ r.remap = NoRemap
            /\ u.seen = {j \in First(block, m) : Pure(j)}
            /\ \A j, k \in u.seen : j # k => insts[j] # insts[k]
        BY <2>2, <3>3, <4>2
      <4>4. First(block, o) = First(block, m) \cup {i}
        BY <3>2, <3>3 DEF First
      <4>. QED BY <4>2, <4>3, <4>4
    <3>. QED BY <3>1, <3>2, <3>6
  <2>. HIDE DEF Still
  <2>3. \A m \in 0..n : m \in Still
    BY <2>1, <2>2, BoundedInduction
  <2>. QED BY <2>3
<1>13. ASSUME Quiet(s) PROVE Quiet(g[n])
  BY <1>12, <1>13 DEF Quiet
<1>14. ASSUME Quiet(s), g[n].remap = NoRemap PROVE s.remap = NoRemap /\ Distinct(b)
  <2>1. /\ s.remap = NoRemap
        /\ g[n].seen = {i \in ToSet(block) : Pure(i)}
        /\ \A i, j \in g[n].seen : i # j => insts[i] # insts[j]
    BY <1>5, <1>10, <1>12, <1>14
  <2>2. ASSUME NEW i \in ToSet(block), NEW j \in ToSet(block), i # j, insts[i] = insts[j],
               Defines(i), Defines(j), ~HasSideEffects(insts[i])
        PROVE  FALSE
    <3>1. Pure(i) /\ Pure(j)
      BY <2>2 DEF Pure
    <3>. QED BY <2>1, <2>2, <3>1
  <2>. QED BY <1>1, <2>1, <2>2 DEF Distinct
<1>. QED BY <1>1, <1>9, <1>11, <1>13, <1>14

-----------------------------------------------------------------------------
(* Merging over all blocks                                                  *)

Start == [insts |-> insts, remap |-> NoRemap, seen |-> {}]

\* g is the state after each of the first m blocks.
Passes(g, m) == g[0] = Start /\ \A b \in 1..m : g[b] = MergeBlock(g[b - 1], blocks[b])

(***************************************************************************)
(* There is a state after each block.                                      *)
(***************************************************************************)
LEMMA PassesExists ==
    ASSUME NEW n \in Nat
    PROVE  \E g : DOMAIN g = 0..n /\ Passes(g, n)
<1>. DEFINE Done == {m \in 0..n : \E g : DOMAIN g = 0..m /\ Passes(g, m)}
<1>1. 0 \in Done
  <2>. PICK g : g = [i \in 0..0 |-> Start]
    OBVIOUS
  <2>1. DOMAIN g = 0..0 /\ Passes(g, 0)
    BY DEF Passes
  <2>. QED BY <2>1
<1>2. ASSUME NEW m \in 0..(n - 1), m \in Done
      PROVE  m + 1 \in Done
  <2>1. PICK g : DOMAIN g = 0..m /\ Passes(g, m)
    BY <1>2
  <2>2. PICK last : last = MergeBlock(g[m], blocks[m + 1])
    OBVIOUS
  <2>3. PICK h : h = [i \in 0..(m + 1) |-> IF i = m + 1 THEN last ELSE g[i]]
    OBVIOUS
  <2>4. /\ DOMAIN h = 0..(m + 1) /\ h[m + 1] = last
        /\ \A i \in 0..m : h[i] = g[i]
    BY <2>3
  <2>5. ASSUME NEW i \in 1..(m + 1)
        PROVE  h[i] = MergeBlock(h[i - 1], blocks[i])
    <3>1. CASE i = m + 1
      <4>1. h[i - 1] = g[m] /\ h[i] = last
        BY <2>4, <3>1
      <4>. QED BY <2>2, <3>1, <4>1
    <3>2. CASE i # m + 1
      <4>1. i \in 1..m /\ h[i] = g[i] /\ h[i - 1] = g[i - 1]
        BY <2>4, <3>2
      <4>. QED BY <2>1, <4>1 DEF Passes
    <3>. QED BY <3>1, <3>2
  <2>6. h[0] = Start
    BY <2>1, <2>4 DEF Passes
  <2>. QED BY <2>4, <2>5, <2>6 DEF Passes
<1>3. n \in Done
  <2>. HIDE DEF Done
  <2>. QED BY <1>1, <1>2, BoundedInduction
<1>. QED BY <1>3

(***************************************************************************)
(* Merged is the state after the last one.                                 *)
(***************************************************************************)
LEMMA MergedPasses ==
    ASSUME NEW n \in Nat, n = Len(blocks)
    PROVE  \E g : Passes(g, n) /\ Merged = g[n]
<1>. DEFINE Round(g) == [b \in 0..n |-> IF b = 0 THEN Start ELSE MergeBlock(g[b - 1], blocks[b])]
<1>1. PICK g : DOMAIN g = 0..n /\ Passes(g, n)
  BY PassesExists
<1>2. PICK h : h = [k \in 0..n |-> g[k]]
  OBVIOUS
<1>3. h = Round(h)
  <2>1. ASSUME NEW k \in 0..n, k # 0
        PROVE  h[k] = MergeBlock(h[k - 1], blocks[k])
    <3>1. k \in 1..n /\ k - 1 \in 0..n
      BY <2>1
    <3>2. h[k] = g[k] /\ h[k - 1] = g[k - 1]
      BY <1>2, <3>1
    <3>. QED BY <1>1, <3>1, <3>2 DEF Passes
  <2>2. h[0] = Start
    BY <1>1, <1>2 DEF Passes
  <2>. QED BY <1>2, <2>1, <2>2
<1>4. PICK after : after = CHOOSE f : f = Round(f)
  OBVIOUS
<1>5. after = Round(after)
  BY <1>3, <1>4
<1>6. Merged = after[n]
  BY <1>4 DEF Merged, Start
<1>7. Passes(after, n)
  <2>1. after[0] = Start
    BY <1>5
  <2>2. ASSUME NEW k \in 1..n PROVE after[k] = MergeBlock(after[k - 1], blocks[k])
    <3>1. k \in 0..n /\ k # 0
      OBVIOUS
    <3>. QED BY <1>5, <3>1
  <2>. QED BY <2>1, <2>2 DEF Passes
<1>. QED BY <1>6, <1>7

\* The instructions of the first m blocks.
Above(m) == UNION {ToSet(blocks[b]) : b \in 1..m}

(***************************************************************************)
(* After the last block the arena and the remap are good.  If every value  *)
(* is its own image, no block had anything to merge.                       *)
(***************************************************************************)
LEMMA MergedGood ==
    ASSUME Typed
    PROVE  /\ Good(Merged, Listed)
           /\ Merged.remap = NoRemap => /\ Merged.insts = insts
                                        /\ \A b \in DOMAIN blocks : Distinct(b)
<1>1. PICK n \in Nat : n = Len(insts)
  BY Sizes
<1>2. PICK l \in Nat : l = Len(blocks) /\ DOMAIN blocks = 1..l
  BY DEF Typed
<1>3. PICK g : Passes(g, l) /\ Merged = g[l]
  BY <1>2, MergedPasses
<1>4. Good(Start, {}) /\ Quiet(Start)
  <2>1. Start.insts = insts /\ Start.remap = NoRemap /\ Start.seen = {} /\ Record(Start)
    BY DEF Start, Record
  <2>2. NoRemap \in [0..n -> 0..n] /\ \A v \in 0..n : NoRemap[v] = v
    BY <1>1 DEF NoRemap
  <2>3. Arena(insts)
    BY DEF Typed
  <2>4. Good(Start, {})
    BY <1>1, <2>1, <2>2, <2>3 DEF Good
  <2>5. Quiet(Start)
    BY <2>1 DEF Quiet
  <2>. QED BY <2>4, <2>5
<1>. DEFINE Done == {m \in 0..l : /\ Good(g[m], Above(m)) /\ Quiet(g[m])
                                  /\ g[m].remap = NoRemap => \A b \in 1..m : Distinct(b)}
<1>5. 0 \in Done
  <2>1. Above(0) = {}
    BY DEF Above
  <2>2. g[0] = Start
    BY <1>3 DEF Passes
  <2>3. PICK met, s : met = Above(0) /\ s = g[0]
    OBVIOUS
  <2>4. Good(s, met) /\ Quiet(s)
    BY <1>4, <2>1, <2>2, <2>3
  <2>5. 0 \in 0..l /\ 1..0 = {}
    OBVIOUS
  <2>. QED BY <2>3, <2>4, <2>5
<1>6. ASSUME NEW m \in 0..(l - 1), m \in Done
      PROVE  m + 1 \in Done
  <2>1. PICK o : o = m + 1
    OBVIOUS
  <2>2. o \in 1..l /\ o \in 0..l /\ o - 1 = m /\ 1..o = 1..m \cup {o} /\ o \notin 1..m /\ 1..m \subseteq 1..l
    BY <2>1
  <2>3. PICK s, t, met : s = g[m] /\ t = g[o] /\ met = Above(m)
    OBVIOUS
  <2>4. t = MergeBlock(s, blocks[o])
    BY <1>3, <2>2, <2>3 DEF Passes
  <2>5. met \cap ToSet(blocks[o]) = {}
    <3>1. \A b \in 1..m : ToSet(blocks[b]) \cap ToSet(blocks[o]) = {}
      BY <1>2, <2>2 DEF Typed
    <3>. QED BY <2>3, <3>1 DEF Above
  <2>6. Good(s, met) /\ Quiet(s) /\ (s.remap = NoRemap => \A b \in 1..m : Distinct(b))
    BY <1>6, <2>3
  <2>7. /\ Good(t, met \cup ToSet(blocks[o])) /\ Quiet(t)
        /\ t.remap = NoRemap => s.remap = NoRemap /\ Distinct(o)
    BY <1>2, <2>2, <2>4, <2>5, <2>6, BlockGood
  <2>8. Above(o) = met \cup ToSet(blocks[o])
    BY <2>2, <2>3 DEF Above
  <2>9. Good(g[o], Above(o)) /\ Quiet(g[o]) /\ (g[o].remap = NoRemap => \A b \in 1..o : Distinct(b))
    BY <2>2, <2>3, <2>6, <2>7, <2>8
  <2>. QED BY <2>1, <2>2, <2>9
<1>7. l \in Done
  <2>. HIDE DEF Done
  <2>1. \A m \in 0..l : m \in Done
    BY <1>5, <1>6, BoundedInduction
  <2>. QED BY <2>1
<1>8. Above(l) = Listed
  BY <1>2 DEF Above, Listed
<1>9. Good(Merged, Above(l)) /\ Quiet(Merged) /\ (Merged.remap = NoRemap => \A b \in 1..l : Distinct(b))
  BY <1>3, <1>7
<1>. QED BY <1>2, <1>8, <1>9 DEF Quiet

(***************************************************************************)
(* Whatever may be read is its own image where Resolve leaves it: the      *)
(* loop that follows remap comes to an end (opt.rs:57-63).                 *)
(***************************************************************************)
LEMMA ResolveEnds ==
    ASSUME Typed, NEW v \in 0..Len(insts)
    PROVE  Merged.remap[Resolve(Merged.remap, v)] = Resolve(Merged.remap, v)
<1>1. PICK n \in Nat : n = Len(insts) /\ DOMAIN func.insts = 1..n /\ Listed \subseteq 1..n
  BY Sizes
<1>2. PICK remap : remap = Merged.remap
  OBVIOUS
<1>3. /\ remap \in [0..n -> 0..n]
      /\ \A w \in 0..n : remap[remap[w]] = remap[w]
  <2>1. Good(Merged, Listed)
    BY MergedGood
  <2>. QED BY <1>1, <1>2, <2>1 DEF Good
<1>4. PICK g : Follows(g, remap, v, n) /\ Resolve(remap, v) = g[n]
  BY <1>1, ResolveFollows
<1>5. CASE n = 0
  <2>1. g[0] = v /\ v = 0 /\ remap[0] = 0
    BY <1>1, <1>3, <1>4, <1>5 DEF Follows
  <2>. QED BY <1>2, <1>4, <1>5, <2>1
<1>6. CASE n # 0
  <2>1. PICK A : A = {w \in 0..n : remap[w] = w}
    OBVIOUS
  <2>. DEFINE Done == {m \in 0..n : g[m] \in 0..n /\ (m # 0 => g[m] \in A)}
  <2>2. 0 \in Done
    BY <1>1, <1>4 DEF Follows
  <2>3. ASSUME NEW m \in 0..(n - 1), m \in Done
        PROVE  m + 1 \in Done
    <3>1. m + 1 \in 1..n /\ m + 1 \in 0..n /\ (m + 1) - 1 = m /\ g[m] \in 0..n
      BY <2>3
    <3>2. g[m + 1] = remap[g[m]]
      BY <1>4, <3>1 DEF Follows
    <3>3. remap[g[m]] \in 0..n /\ remap[g[m]] \in A
      BY <1>3, <2>1, <3>1
    <3>. QED BY <3>1, <3>2, <3>3
  <2>4. n \in Done
    <3>. HIDE DEF Done
    <3>1. \A m \in 0..n : m \in Done
      BY <2>2, <2>3, BoundedInduction
    <3>. QED BY <3>1
  <2>5. g[n] \in A
    BY <1>6, <2>4
  <2>. QED BY <1>2, <1>4, <2>1, <2>5
<1>. QED BY <1>5, <1>6

-----------------------------------------------------------------------------
(* The invariant                                                            *)

\* What the pass to run next may rely on when this round has changed nothing.
Settled ==
    /\ pass \in {"cse", "dce"} /\ ~changed => \A i \in DOMAIN insts : ~Folds(insts[i])
    /\ pass = "dce" /\ ~changed => \A b \in DOMAIN blocks : Distinct(b)
    /\ pass = "done" => /\ \A i \in DOMAIN insts : ~Folds(insts[i])
                        /\ \A b \in DOMAIN blocks : Distinct(b)
                        /\ Listed \subseteq Stays

PassInv == Typed /\ Settled

(***************************************************************************)
(* A function is taken as the parser leaves it.                            *)
(***************************************************************************)
LEMMA InitPassInv == Init => PassInv
<1>. SUFFICES ASSUME Init PROVE PassInv
  OBVIOUS
<1>1. /\ func \in Program /\ insts = func.insts /\ blocks = func.blocks
      /\ pass = "fold" /\ changed = FALSE
  BY DEF Init
<1>2. PICK V : V = ValuesOf(func)
  OBVIOUS
<1>3. /\ insts \in Seq(Instruction(V))
      /\ blocks \in Seq(Seq(DOMAIN insts))
      /\ \A b \in DOMAIN blocks : IsInjective(blocks[b])
      /\ \A b, c \in DOMAIN blocks : b # c => ToSet(blocks[b]) \cap ToSet(blocks[c]) = {}
      /\ \A i \in Listed : ToSet(insts[i].args) \subseteq Listed \cup {0}
  <2>1. PICK listed : listed = UNION {ToSet(func.blocks[b]) : b \in DOMAIN func.blocks}
    OBVIOUS
  <2>2. /\ func.insts \in Seq(Instruction(V))
        /\ func.blocks \in Seq(Seq(DOMAIN func.insts))
        /\ \A b \in DOMAIN func.blocks : IsInjective(func.blocks[b])
        /\ \A b, c \in DOMAIN func.blocks :
              b # c => ToSet(func.blocks[b]) \cap ToSet(func.blocks[c]) = {}
    BY <1>1, <1>2, ProgramAssumption
  <2>3. \A i \in listed : ToSet(func.insts[i].args) \subseteq listed \cup {0}
    BY <1>1, <2>1, ProgramAssumption, Zenon
  <2>4. Listed = listed
    BY <1>1, <2>1 DEF Listed
  <2>. QED BY <1>1, <2>2, <2>3, <2>4
<1>4. PICK n \in Nat : DOMAIN insts = 1..n /\ insts = [i \in 1..n |-> insts[i]]
  BY <1>3
<1>5. ASSUME NEW i \in 1..n
      PROVE  Reads(insts[i], V) /\ (i \in Listed => Reads(insts[i], Readable))
  <2>1. insts[i] \in Instruction(V)
    BY <1>3, <1>4
  <2>2. Reads(insts[i], V)
    BY <2>1 DEF Instruction, Reads
  <2>3. ASSUME i \in Listed PROVE insts[i].args \in Seq(Readable)
    <3>1. PICK a : a = insts[i].args /\ a \in Seq(V)
      BY <2>2 DEF Reads
    <3>2. ToSet(a) \subseteq Listed \cup {0}
      BY <1>3, <2>3, <3>1
    <3>3. \A k \in DOMAIN a : a[k] \in V /\ a[k] \in ToSet(a)
      <4>1. \A k \in DOMAIN a : a[k] \in V
        BY <3>1
      <4>2. \A k \in DOMAIN a : a[k] \in ToSet(a)
        BY DEF ToSet
      <4>. QED BY <4>1, <4>2
    <3>4. ASSUME NEW k \in DOMAIN a PROVE a[k] \in Readable
      <4>1. a[k] \in V /\ a[k] \in Listed \cup {0}
        BY <3>2, <3>3
      <4>. QED BY <1>2, <4>1 DEF Readable, Values
    <3>5. PICK m \in Nat : DOMAIN a = 1..m /\ a = [k \in 1..m |-> a[k]]
      <4>1. Len(a) \in Nat /\ DOMAIN a = 1..Len(a) /\ a = [k \in 1..Len(a) |-> a[k]]
        BY <3>1
      <4>. QED BY <4>1
    <3>6. a \in Seq(Readable)
      BY <3>4, <3>5
    <3>. QED BY <3>1, <3>6
  <2>. QED BY <2>2, <2>3 DEF Reads
<1>6. Listed \subseteq 1..n
  <2>. SUFFICES ASSUME NEW i \in Listed PROVE i \in 1..n
    OBVIOUS
  <2>1. PICK b \in DOMAIN blocks : i \in ToSet(blocks[b])
    BY DEF Listed
  <2>2. blocks[b] \in Seq(1..n)
    BY <1>3, <1>4
  <2>. QED BY <2>1, <2>2 DEF ToSet
<1>7. Arena(insts)
  BY <1>1, <1>2, <1>4, <1>5, <1>6 DEF Arena, Values
<1>8. Typed
  BY <1>1, <1>3, <1>7 DEF Typed
<1>9. Settled
  BY <1>1 DEF Settled
<1>. QED BY <1>8, <1>9 DEF PassInv

(***************************************************************************)
(* What does not change keeps its meaning in the next state.               *)
(***************************************************************************)
LEMMA SameFunction ==
    ASSUME func' = func
    PROVE  /\ Values' = Values
           /\ \A i : Defines(i)' = Defines(i)
           /\ blocks' = blocks => Listed' = Listed /\ Readable' = Readable
           /\ insts' = insts => /\ \A i : Folds(insts[i])' = Folds(insts[i])
                                /\ Used' = Used /\ Stays' = Stays
<1>1. Values' = Values
  BY DEF Values, ValuesOf
<1>2. \A i : Defines(i)' = Defines(i)
  BY DEF Defines
<1>3. ASSUME blocks' = blocks PROVE Listed' = Listed /\ Readable' = Readable
  BY <1>1, <1>3 DEF Listed, Readable
<1>4. ASSUME insts' = insts
      PROVE  /\ \A i : Folds(insts[i])' = Folds(insts[i])
             /\ Used' = Used /\ Stays' = Stays
  BY <1>2, <1>4 DEF Folds, IsConst, Used, Stays, HasSideEffects, Defines
<1>. QED BY <1>1, <1>2, <1>3, <1>4

(***************************************************************************)
(* With the blocks as they were, a good arena is a good one after the step.*)
(***************************************************************************)
LEMMA SameBlocks ==
    ASSUME func' = func, blocks' = blocks, Typed, Arena(insts'),
           pass' \in {"fold", "cse", "dce", "done"}, changed' \in BOOLEAN
    PROVE  Typed'
<1>1. Values' = Values /\ Listed' = Listed /\ Readable' = Readable
  BY SameFunction
<1>2. Arena(insts)'
  BY <1>1 DEF Arena
<1>. QED BY <1>2 DEF Typed

(***************************************************************************)
(* Folding leaves constants, which read nothing; without any it leaves the *)
(* arena as it was (opt.rs:103-207).                                       *)
(***************************************************************************)
LEMMA ConstantFoldPassInv == PassInv /\ ConstantFold => PassInv'
<1>. SUFFICES ASSUME PassInv, ConstantFold PROVE PassInv'
  OBVIOUS
<1>1. /\ insts' = [i \in DOMAIN insts |-> IF Folds(insts[i]) THEN Folded(insts[i]) ELSE insts[i]]
      /\ changed' = (\E i \in DOMAIN insts : Folds(insts[i]))
      /\ pass' = "cse" /\ func' = func /\ blocks' = blocks
  BY DEF ConstantFold
<1>2. PICK n \in Nat : DOMAIN insts = 1..n /\ DOMAIN func.insts = 1..n /\ Listed \subseteq 1..n
  BY Sizes DEF PassInv
<1>3. Typed
  BY DEF PassInv
<1>4. ASSUME NEW i \in 1..n, NEW V, Reads(insts[i], V) PROVE Reads(insts'[i], V)
  <2>1. CASE Folds(insts[i])
    <3>1. PICK k : k = Immediate(insts[i].op, insts[insts[i].args[1]].n, insts[insts[i].args[2]].n)
      OBVIOUS
    <3>2. insts'[i] = Const(k)
      BY <1>1, <1>2, <2>1, <3>1 DEF Folded
    <3>3. PICK r : r = Inst("const", <<>>)
      OBVIOUS
    <3>4. /\ r = [op |-> r.op, args |-> r.args, n |-> r.n, of |-> r.of, to |-> r.to, from |-> r.from]
          /\ r.args = <<>>
      BY <3>3 DEF Inst
    <3>5. PICK c : c = [r EXCEPT !.n = k]
      OBVIOUS
    <3>6. /\ c = [op |-> c.op, args |-> c.args, n |-> c.n, of |-> c.of, to |-> c.to, from |-> c.from]
          /\ c.args = r.args
      BY <3>4, <3>5
    <3>7. insts'[i] = c
      BY <3>2, <3>3, <3>5 DEF Const
    <3>8. <<>> \in Seq(V)
      OBVIOUS
    <3>. QED BY <3>4, <3>6, <3>7, <3>8 DEF Reads
  <2>2. CASE ~Folds(insts[i])
    BY <1>1, <1>2, <1>4, <2>2
  <2>. QED BY <2>1, <2>2
<1>5. Arena(insts')
  <2>1. insts' = [i \in 1..n |-> insts'[i]]
    BY <1>1, <1>2
  <2>2. /\ \A i \in 1..n : Reads(insts[i], Values)
        /\ \A i \in Listed : Reads(insts[i], Readable)
    BY <1>2, <1>3 DEF Typed, Arena
  <2>. QED BY <1>2, <1>4, <2>1, <2>2 DEF Arena
<1>6. Typed'
  BY <1>1, <1>3, <1>5, SameBlocks
<1>7. Settled'
  <2>1. ASSUME ~changed' PROVE (\A i \in DOMAIN insts : ~Folds(insts[i]))'
    <3>1. \A i \in 1..n : ~Folds(insts[i])
      BY <1>1, <1>2, <2>1
    <3>2. insts = [i \in 1..n |-> insts[i]]
      BY <1>2, <1>3 DEF Typed, Arena
    <3>3. insts' = insts
      BY <1>1, <1>2, <3>1, <3>2
    <3>. QED BY <1>1, <1>2, <3>1, <3>3, SameFunction
  <2>. QED BY <1>1, <2>1 DEF Settled
<1>. QED BY <1>6, <1>7 DEF PassInv

(***************************************************************************)
(* Merging leaves instructions that read listed results; when no value has *)
(* another image it leaves the arena as it was, with nothing to merge      *)
(* (opt.rs:209-253).                                                       *)
(***************************************************************************)
LEMMA CsePassInv == PassInv /\ Cse => PassInv'
<1>. SUFFICES ASSUME PassInv, Cse PROVE PassInv'
  OBVIOUS
<1>1. PICK s : s = Merged
  OBVIOUS
<1>2. /\ insts' = [i \in DOMAIN insts |-> Rewrite(s.insts[i], s.remap)]
      /\ changed' = (changed \/ s.remap # NoRemap)
      /\ pass = "cse" /\ pass' = "dce" /\ func' = func /\ blocks' = blocks
  BY <1>1 DEF Cse
<1>3. PICK n \in Nat : /\ n = Len(insts) /\ DOMAIN insts = 1..n /\ DOMAIN func.insts = 1..n
                       /\ Listed \subseteq 1..n /\ Values = {0} \cup {i \in 1..n : Defines(i)}
  BY Sizes DEF PassInv
<1>4. Typed /\ Settled
  BY DEF PassInv
<1>5. /\ Good(s, Listed)
      /\ s.remap = NoRemap => s.insts = insts /\ \A b \in DOMAIN blocks : Distinct(b)
  BY <1>1, <1>4, MergedGood
<1>6. Arena(insts')
  <2>1. insts' = [i \in 1..n |-> insts'[i]]
    BY <1>2, <1>3
  <2>2. ASSUME NEW i \in 1..n
        PROVE  Reads(insts'[i], Values) /\ (i \in Listed => Reads(insts'[i], Readable))
    <3>1. insts'[i] = Rewrite(s.insts[i], s.remap)
      BY <1>2, <1>3
    <3>. QED BY <1>3, <1>4, <1>5, <3>1, GoodRewrites
  <2>. QED BY <1>3, <2>1, <2>2 DEF Arena
<1>7. Typed'
  BY <1>2, <1>4, <1>6, SameBlocks DEF Typed
<1>8. ASSUME ~changed'
      PROVE  (\A i \in DOMAIN insts : ~Folds(insts[i]))' /\ (\A b \in DOMAIN blocks : Distinct(b))'
  <2>1. s.remap = NoRemap /\ ~changed
    BY <1>2, <1>8
  <2>2. insts' = insts
    <3>1. ASSUME NEW i \in 1..n PROVE Rewrite(s.insts[i], s.remap) = insts[i]
      <4>1. PICK x, remap : x = insts[i] /\ remap = s.remap
        OBVIOUS
      <4>2. \A w \in Values : remap[w] = w
        <5>1. Values \subseteq 0..n
          BY <1>3
        <5>. QED BY <1>3, <2>1, <4>1, <5>1 DEF NoRemap
      <4>3. Reads(x, Values)
        BY <1>3, <1>4, <4>1 DEF Typed, Arena
      <4>4. Rewrite(x, remap) = x
        BY <1>3, <4>2, <4>3, RewriteNone
      <4>. QED BY <1>5, <2>1, <4>1, <4>4
    <3>2. insts = [i \in 1..n |-> insts[i]]
      BY <1>3, <1>4 DEF Typed, Arena
    <3>. QED BY <1>2, <1>3, <3>1, <3>2
  <2>3. \A i \in DOMAIN insts : ~Folds(insts[i])
    BY <1>2, <1>4, <2>1 DEF Settled
  <2>4. (\A i \in DOMAIN insts : ~Folds(insts[i]))'
    BY <1>2, <2>2, <2>3, SameFunction
  <2>5. (\A b \in DOMAIN blocks : Distinct(b))'
    <3>1. \A b \in DOMAIN blocks : Distinct(b)
      BY <1>5, <2>1
    <3>2. \A b : Distinct(b)' = Distinct(b)
      BY <1>2, <2>2 DEF Distinct, Defines, HasSideEffects
    <3>. QED BY <1>2, <3>1, <3>2
  <2>. QED BY <2>4, <2>5
<1>9. Settled'
  BY <1>2, <1>8 DEF Settled
<1>. QED BY <1>7, <1>9 DEF PassInv

(***************************************************************************)
(* Removal keeps every result that is read, and stops the rounds only when *)
(* every listed instruction stays (opt.rs:255-295).                        *)
(***************************************************************************)
LEMMA DcePassInv == PassInv /\ Dce => PassInv'
<1>. SUFFICES ASSUME PassInv, Dce PROVE PassInv'
  OBVIOUS
<1>1. /\ blocks' = [b \in DOMAIN blocks |-> Keep(blocks[b], Stays)]
      /\ pass = "dce" /\ pass' = IF changed \/ blocks' # blocks THEN "fold" ELSE "done"
      /\ changed' = FALSE /\ func' = func /\ insts' = insts
  BY DEF Dce
<1>2. PICK n \in Nat : /\ n = Len(insts) /\ DOMAIN insts = 1..n /\ DOMAIN func.insts = 1..n
                       /\ Listed \subseteq 1..n /\ Values = {0} \cup {i \in 1..n : Defines(i)}
  BY Sizes DEF PassInv
<1>3. Typed /\ Settled
  BY DEF PassInv
<1>4. ASSUME NEW b \in DOMAIN blocks
      PROVE  /\ blocks'[b] \in Seq(1..n) /\ IsInjective(blocks'[b])
             /\ ToSet(blocks'[b]) = ToSet(blocks[b]) \cap Stays
  <2>1. PICK list : list = blocks[b] /\ list \in Seq(1..n) /\ IsInjective(list)
    BY <1>2, <1>3 DEF Typed
  <2>2. blocks'[b] = Keep(list, Stays)
    BY <1>1, <2>1
  <2>3. Keep(list, Stays) \in Seq(1..n) /\ ToSet(Keep(list, Stays)) = ToSet(list) \cap Stays
    BY <2>1, KeepFacts
  <2>4. IsInjective(Keep(list, Stays))
    BY <2>1, KeepInjective
  <2>. QED BY <2>1, <2>2, <2>3, <2>4
<1>5. DOMAIN blocks' = DOMAIN blocks
  BY <1>1
<1>6. Listed' = Listed \cap Stays
  <2>1. Listed' = UNION {ToSet(blocks'[b]) : b \in DOMAIN blocks}
    BY <1>5 DEF Listed
  <2>2. \A i \in Listed' : i \in Listed \cap Stays
    BY <1>4, <2>1 DEF Listed
  <2>3. ASSUME NEW i \in Listed \cap Stays PROVE i \in Listed'
    <3>1. PICK b \in DOMAIN blocks : i \in ToSet(blocks[b])
      BY DEF Listed
    <3>2. i \in ToSet(blocks'[b])
      BY <1>4, <3>1
    <3>. QED BY <2>1, <3>2
  <2>. QED BY <2>2, <2>3
<1>7. Values' = Values /\ Readable' = Values \cap (Listed' \cup {0})
  BY <1>1, SameFunction DEF Readable
<1>8. Arena(insts)'
  <2>1. /\ insts = [i \in 1..n |-> insts[i]]
        /\ \A i \in 1..n : Reads(insts[i], Values)
        /\ \A i \in Listed : Reads(insts[i], Readable)
    BY <1>2, <1>3 DEF Typed, Arena
  <2>2. ASSUME NEW i \in Listed'
        PROVE  Reads(insts[i], Readable')
    <3>1. i \in Listed /\ i \in 1..n
      BY <1>2, <1>6
    <3>2. PICK a : a = insts[i].args /\ a \in Seq(Readable)
      BY <2>1, <3>1 DEF Reads
    <3>3. ASSUME NEW k \in DOMAIN a PROVE a[k] \in Readable'
      <4>1. PICK v : v = a[k]
        OBVIOUS
      <4>2. v \in Values /\ v \in Listed \cup {0}
        BY <3>2, <4>1 DEF Readable
      <4>3. v \in Used
        <5>1. v \in ToSet(insts[i].args)
          BY <3>2, <4>1 DEF ToSet
        <5>2. insts[i] \in ToSet(insts)
          BY <1>2, <3>1 DEF ToSet
        <5>. QED BY <5>1, <5>2 DEF Used
      <4>4. CASE v = 0
        BY <1>7, <4>1, <4>2, <4>4
      <4>5. CASE v # 0
        <5>1. v \in Listed /\ v \in 1..n /\ Defines(v)
          BY <1>2, <4>2, <4>5
        <5>2. v \in Stays
          BY <1>2, <4>3, <5>1 DEF Stays
        <5>. QED BY <1>6, <1>7, <4>1, <4>2, <5>1, <5>2
      <4>. QED BY <4>4, <4>5
    <3>4. PICK m \in Nat : DOMAIN a = 1..m /\ a = [k \in 1..m |-> a[k]]
      <4>1. Len(a) \in Nat /\ DOMAIN a = 1..Len(a) /\ a = [k \in 1..Len(a) |-> a[k]]
        BY <3>2
      <4>. QED BY <4>1
    <3>5. a \in Seq(Readable')
      BY <3>3, <3>4
    <3>. QED BY <2>1, <3>1, <3>2, <3>5 DEF Reads
  <2>. QED BY <1>1, <1>2, <1>7, <2>1, <2>2 DEF Arena
<1>9. Typed'
  <2>1. blocks' \in Seq(Seq(1..n))
    <3>1. PICK l \in Nat : DOMAIN blocks = 1..l
      <4>1. Len(blocks) \in Nat /\ DOMAIN blocks = 1..Len(blocks)
        BY <1>3 DEF Typed
      <4>. QED BY <4>1
    <3>2. blocks' = [b \in 1..l |-> blocks'[b]] /\ \A b \in 1..l : blocks'[b] \in Seq(1..n)
      BY <1>1, <1>4, <3>1
    <3>. QED BY <3>2
  <2>2. \A b \in DOMAIN blocks' : IsInjective(blocks'[b])
    BY <1>4, <1>5
  <2>3. \A b, c \in DOMAIN blocks' : b # c => ToSet(blocks'[b]) \cap ToSet(blocks'[c]) = {}
    <3>1. \A b, c \in DOMAIN blocks : b # c => ToSet(blocks[b]) \cap ToSet(blocks[c]) = {}
      BY <1>3 DEF Typed
    <3>. QED BY <1>4, <1>5, <3>1
  <2>4. func' \in Program /\ pass' \in {"fold", "cse", "dce", "done"} /\ changed' \in BOOLEAN
    BY <1>1, <1>3 DEF Typed
  <2>. QED BY <1>1, <1>2, <1>8, <2>1, <2>2, <2>3, <2>4 DEF Typed
<1>10. ASSUME pass' = "done"
       PROVE  /\ (\A i \in DOMAIN insts : ~Folds(insts[i]))'
              /\ (\A b \in DOMAIN blocks : Distinct(b))'
              /\ (Listed \subseteq Stays)'
  <2>1. ~changed /\ blocks' = blocks
    BY <1>1, <1>10
  <2>2. (\A i \in DOMAIN insts : ~Folds(insts[i])) /\ (\A b \in DOMAIN blocks : Distinct(b))
    BY <1>1, <1>3, <2>1 DEF Settled
  <2>3. (\A i \in DOMAIN insts : ~Folds(insts[i]))'
    BY <1>1, <2>2, SameFunction
  <2>4. (\A b \in DOMAIN blocks : Distinct(b))'
    <3>1. \A b : Distinct(b)' = Distinct(b)
      BY <1>1, <2>1 DEF Distinct, Defines, HasSideEffects
    <3>. QED BY <2>1, <2>2, <3>1
  <2>5. (Listed \subseteq Stays)'
    BY <1>1, <1>6, SameFunction
  <2>. QED BY <2>3, <2>4, <2>5
<1>11. Settled'
  BY <1>1, <1>10 DEF Settled
<1>. QED BY <1>9, <1>11 DEF PassInv

-----------------------------------------------------------------------------
(* The theorems                                                             *)

(***************************************************************************)
(* Every pass keeps the invariant.                                         *)
(***************************************************************************)
LEMMA NextPassInv == PassInv /\ [Next]_vars => PassInv'
<1>. SUFFICES ASSUME PassInv, [Next]_vars PROVE PassInv'
  OBVIOUS
<1>1. CASE ConstantFold
  BY <1>1, ConstantFoldPassInv
<1>2. CASE Cse
  BY <1>2, CsePassInv
<1>3. CASE Dce
  BY <1>3, DcePassInv
<1>4. CASE UNCHANGED vars
  <2>1. func' = func /\ insts' = insts /\ blocks' = blocks /\ pass' = pass /\ changed' = changed
    BY <1>4 DEF vars
  <2>2. Typed /\ Settled
    BY DEF PassInv
  <2>3. Arena(insts')
    BY <2>1, <2>2 DEF Typed
  <2>4. Typed'
    BY <2>1, <2>2, <2>3, SameBlocks DEF Typed
  <2>5. \A b : Distinct(b)' = Distinct(b)
    BY <2>1 DEF Distinct, Defines, HasSideEffects
  <2>6. /\ Listed' = Listed /\ Stays' = Stays
        /\ \A i : Folds(insts[i])' = Folds(insts[i])
    BY <2>1, SameFunction
  <2>7. Settled'
    BY <2>1, <2>2, <2>5, <2>6 DEF Settled
  <2>. QED BY <2>4, <2>7 DEF PassInv
<1>. QED BY <1>1, <1>2, <1>3, <1>4 DEF Next

(***************************************************************************)
(* The invariant holds in every state.                                     *)
(***************************************************************************)
THEOREM PassesSound == Spec => []PassInv
<1>. QED BY InitPassInv, NextPassInv, PTL DEF Spec

(***************************************************************************)
(* Merging and removal never strand a reader, whatever the function: what  *)
(* a listed instruction reads is the parameter or the result of a listed   *)
(* one (opt.rs:241-246, 256-292).                                          *)
(***************************************************************************)
THEOREM ReadersHoldTheirValues == Spec => []NothingDangles
<1>1. PassInv => NothingDangles
  <2>. SUFFICES ASSUME PassInv, NEW i \in Listed
                PROVE  ToSet(insts[i].args) \subseteq Listed \cup {0}
    BY DEF NothingDangles
  <2>1. Reads(insts[i], Readable)
    BY DEF PassInv, Typed, Arena
  <2>2. PICK a : a = insts[i].args /\ a \in Seq(Readable)
    BY <2>1 DEF Reads
  <2>3. \A k \in DOMAIN a : a[k] \in Readable
    BY <2>2
  <2>. QED BY <2>2, <2>3 DEF ToSet, Readable
<1>. QED BY <1>1, PassesSound, PTL

(***************************************************************************)
(* The loop never stops early, whatever the function: a round that changed *)
(* nothing leaves nothing to fold, to merge or to remove (opt.rs:7-17).    *)
(***************************************************************************)
THEOREM StopsOnlyWhenExhausted == Spec => []Exhausted
<1>1. PassInv => Exhausted
  <2>. SUFFICES ASSUME PassInv, pass = "done"
                PROVE  /\ \A i \in Listed : ~Folds(insts[i]) /\ (HasSideEffects(insts[i]) \/ i \in Used)
                       /\ \A b \in DOMAIN blocks : \A i, j \in ToSet(blocks[b]) :
                             i # j /\ insts[i] = insts[j] => HasSideEffects(insts[i])
    BY DEF Exhausted
  <2>1. /\ \A i \in DOMAIN insts : ~Folds(insts[i])
        /\ \A b \in DOMAIN blocks : Distinct(b)
        /\ Listed \subseteq Stays
    BY DEF PassInv, Settled
  <2>2. PICK n \in Nat : DOMAIN insts = 1..n /\ Listed \subseteq 1..n
    BY Sizes DEF PassInv
  <2>3. \A i \in Listed : HasSideEffects(insts[i]) \/ (Defines(i) /\ i \in Used)
    BY <2>1 DEF Stays
  <2>4. ASSUME NEW b \in DOMAIN blocks, NEW i \in ToSet(blocks[b]), NEW j \in ToSet(blocks[b]),
               i # j, insts[i] = insts[j], ~HasSideEffects(insts[i])
        PROVE  FALSE
    <3>1. i \in Listed /\ j \in Listed
      BY DEF Listed
    <3>2. Defines(i) /\ Defines(j)
      BY <2>3, <2>4, <3>1
    <3>3. Distinct(b)
      BY <2>1
    <3>. QED BY <2>4, <3>2, <3>3 DEF Distinct
  <2>. QED BY <2>1, <2>2, <2>3, <2>4
<1>. QED BY <1>1, PassesSound, PTL

\* Following remap from any value ends where Resolve says.
RemapEnds ==
    \A v \in 0..Len(insts) : Merged.remap[Resolve(Merged.remap, v)] = Resolve(Merged.remap, v)

(***************************************************************************)
(* The loop that follows remap ends, whatever the function: no value is    *)
(* ever its own image by a detour (opt.rs:57-63).                          *)
(***************************************************************************)
THEOREM RemapIsFollowedToAnEnd == Spec => []RemapEnds
<1>1. PassInv => RemapEnds
  BY ResolveEnds DEF PassInv, RemapEnds
<1>. QED BY <1>1, PassesSound, PTL
=============================================================================
