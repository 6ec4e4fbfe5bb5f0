------------------------------- MODULE IRProofs -------------------------------
(***************************************************************************)
(* What the proofs about Liveness and Codegen use about a function of the  *)
(* IR: the numbering of its instructions (regalloc.rs:79-90), the flow of  *)
(* control between them and the points a value is live before.             *)
(***************************************************************************)
EXTENDS IR, Lists

\* There is an entry block, and no block is empty.
Laid(f) ==
    /\ f.body \in Seq(ToSet(f.body)) /\ f.body # <<>>
    /\ \A b \in Block(f) : f.body[b] \in Seq(ToSet(f.body[b])) /\ f.body[b] # <<>>

\* Control stays in the blocks, and what ends a block defines nothing.
Linked(f) ==
    \A b \in Block(f) : Successors(f, b) \subseteq Block(f) /\ Last(f.body[b]).res = NoValue

\* A value is the result of at most one instruction.
Once(f) ==
    \A x, y \in Insts(f) : x.inst.res = y.inst.res /\ x.inst.res # NoValue => x = y

-----------------------------------------------------------------------------
(* The numbering of the instructions                                        *)

Size(f, b) == Len(f.body[b])

\* The index of the kth instruction of block b.
Idx(f, b, k) == FirstIndex(f, b) + k - 1

\* g numbers the blocks up to m by where they start.
Counts(g, m, f) ==
    g[1] = 1 /\ \A c \in 2..m : g[c] = g[c - 1] + Size(f, c - 1)

(***************************************************************************)
(* The blocks are numbered from the entry and none is empty.               *)
(***************************************************************************)
LEMMA Sizes ==
    ASSUME NEW f, Laid(f)
    PROVE  /\ Len(f.body) \in Nat \ {0} /\ Block(f) = 1..Len(f.body)
           /\ \A b \in Block(f) : Size(f, b) \in Nat \ {0} /\ DOMAIN f.body[b] = 1..Size(f, b)
<1>1. f.body \in Seq(ToSet(f.body)) /\ f.body # <<>>
  BY DEF Laid
<1>2. ASSUME NEW b \in Block(f)
      PROVE  Size(f, b) \in Nat \ {0} /\ DOMAIN f.body[b] = 1..Size(f, b)
  <2>1. f.body[b] \in Seq(ToSet(f.body[b])) /\ f.body[b] # <<>>
    BY <1>2 DEF Laid
  <2>. QED BY <2>1 DEF Size
<1>. QED BY <1>1, <1>2 DEF Block

(***************************************************************************)
(* There is such a numbering of all blocks.                                *)
(***************************************************************************)
LEMMA CountsExists ==
    ASSUME NEW f, Laid(f)
    PROVE  \E g \in [Block(f) -> Nat \ {0}] : Counts(g, Len(f.body), f)
<1>1. PICK n \in Nat : n + 1 = Len(f.body)
  <2>1. Len(f.body) - 1 \in Nat /\ (Len(f.body) - 1) + 1 = Len(f.body)
    BY Sizes
  <2>. QED BY <2>1
<1>2. Block(f) = 1..(n + 1) /\ \A b \in 1..(n + 1) : Size(f, b) \in Nat
  BY <1>1, Sizes
<1>. DEFINE Done == {m \in 0..n : \E g \in [1..(m + 1) -> Nat \ {0}] : Counts(g, m + 1, f)}
<1>3. 0 \in Done
  <2>. PICK g : g = [i \in 1..1 |-> 1]
    OBVIOUS
  <2>1. g \in [1..(0 + 1) -> Nat \ {0}] /\ Counts(g, 0 + 1, f)
    BY DEF Counts
  <2>. QED BY <2>1
<1>4. ASSUME NEW m \in 0..(n - 1), m \in Done
      PROVE  m + 1 \in Done
  <2>1. PICK k \in Nat : k = m + 1
    OBVIOUS
  <2>2. PICK g \in [1..k -> Nat \ {0}] : Counts(g, k, f)
    BY <1>4, <2>1
  <2>3. k \in 1..n /\ k \in 1..(n + 1) /\ m + 1 \in 0..n /\ (m + 1) + 1 = k + 1
    BY <2>1
  <2>4. PICK h : h = [i \in 1..(k + 1) |-> IF i = k + 1 THEN g[k] + Size(f, k) ELSE g[i]]
    OBVIOUS
  <2>5. h \in [1..(k + 1) -> Nat \ {0}]
    <3>1. g[k] + Size(f, k) \in Nat \ {0}
      BY <1>2, <2>3
    <3>. QED BY <2>4, <3>1
  <2>6. h[1] = 1
    BY <2>2, <2>3, <2>4 DEF Counts
  <2>7. ASSUME NEW c \in 2..(k + 1)
        PROVE  h[c] = h[c - 1] + Size(f, c - 1)
    <3>1. CASE c = k + 1
      <4>1. c - 1 = k /\ h[k] = g[k] /\ h[c] = g[k] + Size(f, k)
        BY <2>3, <2>4, <3>1
      <4>. QED BY <4>1
    <3>2. CASE c # k + 1
      <4>1. c \in 2..k /\ h[c] = g[c] /\ h[c - 1] = g[c - 1]
        BY <2>3, <2>4, <3>2
      <4>. QED BY <2>2, <4>1 DEF Counts
    <3>. QED BY <3>1, <3>2
  <2>8. Counts(h, k + 1, f)
    BY <2>6, <2>7 DEF Counts
  <2>. QED BY <2>3, <2>5, <2>8
<1>5. n \in Done
  <2>. HIDE DEF Done
  <2>. QED BY <1>3, <1>4, BoundedInduction
<1>. QED BY <1>1, <1>2, <1>5

(***************************************************************************)
(* The first block starts at 1, each other one after the block before it   *)
(* (regalloc.rs:77-90).                                                    *)
(***************************************************************************)
LEMMA Numbering ==
    ASSUME NEW f, Laid(f)
    PROVE  /\ FirstIndex(f, 1) = 1
           /\ \A b \in Block(f) : FirstIndex(f, b) \in Nat \ {0}
           /\ \A b \in Block(f) : b # 1 => /\ b - 1 \in Block(f)
                                           /\ FirstIndex(f, b) = FirstIndex(f, b - 1) + Size(f, b - 1)
<1>1. PICK n \in Nat \ {0} : n = Len(f.body)
  BY Sizes
<1>2. Block(f) = 1..n
  BY <1>1, Sizes
<1>. DEFINE Step(g) == [c \in Block(f) |-> IF c = 1 THEN 1 ELSE g[c - 1] + Size(f, c - 1)]
<1>3. PICK g \in [Block(f) -> Nat \ {0}] : Counts(g, n, f)
  BY <1>1, CountsExists
<1>4. g = Step(g)
  <2>1. \A c \in Block(f) : g[c] = IF c = 1 THEN 1 ELSE g[c - 1] + Size(f, c - 1)
    BY <1>2, <1>3 DEF Counts
  <2>. QED BY <1>3, <2>1
<1>5. PICK h : h = CHOOSE k : k = Step(k)
  OBVIOUS
<1>6. h = Step(h)
  BY <1>4, <1>5
<1>7. \A b \in Block(f) : FirstIndex(f, b) = h[b]
  BY <1>5 DEF FirstIndex, Size
<1>8. 1 \in Block(f) /\ \A b \in Block(f) : b # 1 => b - 1 \in Block(f)
  BY <1>2
<1>9. \A b \in Block(f) : h[b] = IF b = 1 THEN 1 ELSE h[b - 1] + Size(f, b - 1)
  BY <1>6
<1>10. \A b \in Block(f) : h[b] \in Nat \ {0}
  <2>. DEFINE Done == {m \in 0..(n - 1) : h[m + 1] \in Nat \ {0}}
  <2>1. 0 \in Done
    BY <1>8, <1>9
  <2>2. ASSUME NEW m \in 0..((n - 1) - 1), m \in Done
        PROVE  m + 1 \in Done
    <3>1. PICK c \in Nat : c = m + 2
      OBVIOUS
    <3>2. c \in Block(f) /\ c - 1 \in Block(f) /\ c # 1 /\ c - 1 = m + 1 /\ (m + 1) + 1 = c /\ m + 1 \in 0..(n - 1)
      BY <1>2, <3>1
    <3>3. h[c] = h[c - 1] + Size(f, c - 1) /\ h[c - 1] \in Nat \ {0} /\ Size(f, c - 1) \in Nat
      BY <1>9, <2>2, <3>2, Sizes
    <3>. QED BY <3>2, <3>3
  <2>3. \A m \in 0..(n - 1) : m \in Done
    <3>. HIDE DEF Done
    <3>. QED BY <2>1, <2>2, BoundedInduction
  <2>. QED BY <1>2, <2>3
<1>. QED BY <1>7, <1>8, <1>9, <1>10

(***************************************************************************)
(* A later block starts after the last instruction of an earlier one.      *)
(***************************************************************************)
LEMMA Ordered ==
    ASSUME NEW f, Laid(f), NEW b \in Block(f), NEW c \in Block(f), b < c
    PROVE  FirstIndex(f, b) + Size(f, b) <= FirstIndex(f, c)
<1>. DEFINE Done == {m \in 0..(c - b - 1) : FirstIndex(f, b) + Size(f, b) <= FirstIndex(f, b + 1 + m)}
<1>1. PICK n \in Nat : n = Len(f.body)
  BY Sizes
<1>2. Block(f) = 1..n /\ b \in 1..n /\ c \in 1..n
  BY <1>1, Sizes
<1>3. \A d \in 1..n : FirstIndex(f, d) \in Nat /\ Size(f, d) \in Nat
  BY <1>2, Numbering, Sizes
<1>4. ASSUME NEW d \in 1..(n - 1)
      PROVE  d + 1 \in 1..n /\ FirstIndex(f, d + 1) = FirstIndex(f, d) + Size(f, d)
  <2>1. PICK e : e = d + 1
    OBVIOUS
  <2>2. e \in Block(f) /\ e # 1 /\ e - 1 = d
    BY <1>2, <2>1
  <2>3. FirstIndex(f, e) = FirstIndex(f, e - 1) + Size(f, e - 1)
    BY <2>2, Numbering
  <2>. QED BY <1>2, <2>1, <2>2, <2>3
<1>5. c - b - 1 \in Nat
  BY <1>2
<1>6. 0 \in Done
  <2>1. b \in 1..(n - 1) /\ b + 1 + 0 = b + 1
    BY <1>2
  <2>2. FirstIndex(f, b) + Size(f, b) \in Nat
    BY <1>2, <1>3
  <2>. QED BY <1>4, <1>5, <2>1, <2>2
<1>7. ASSUME NEW m \in 0..((c - b - 1) - 1), m \in Done
      PROVE  m + 1 \in Done
  <2>1. PICK d : d = b + 1 + m
    OBVIOUS
  <2>2. d \in 1..(n - 1) /\ d \in 1..n /\ b + 1 + (m + 1) = d + 1 /\ m + 1 \in 0..(c - b - 1)
    BY <1>2, <1>5, <2>1
  <2>3. FirstIndex(f, b) + Size(f, b) <= FirstIndex(f, d)
    BY <1>7, <2>1
  <2>4. FirstIndex(f, d + 1) = FirstIndex(f, d) + Size(f, d)
    BY <1>4, <2>2
  <2>5. FirstIndex(f, b) + Size(f, b) <= FirstIndex(f, d + 1)
    BY <1>2, <1>3, <2>2, <2>3, <2>4
  <2>. QED BY <2>2, <2>5
<1>8. c - b - 1 \in Done
  <2>. HIDE DEF Done
  <2>. QED BY <1>5, <1>6, <1>7, BoundedInduction
<1>9. b + 1 + (c - b - 1) = c
  BY <1>2
<1>. QED BY <1>8, <1>9

(***************************************************************************)
(* An index belongs to one instruction.                                    *)
(***************************************************************************)
LEMMA IdxUnique ==
    ASSUME NEW f, Laid(f),
           NEW b \in Block(f), NEW k \in 1..Size(f, b),
           NEW c \in Block(f), NEW l \in 1..Size(f, c),
           Idx(f, b, k) = Idx(f, c, l)
    PROVE  b = c /\ k = l
<1>1. /\ FirstIndex(f, b) \in Nat /\ Size(f, b) \in Nat /\ k \in Nat /\ 1 <= k /\ k <= Size(f, b)
      /\ FirstIndex(f, c) \in Nat /\ Size(f, c) \in Nat /\ l \in Nat /\ 1 <= l /\ l <= Size(f, c)
  BY Numbering, Sizes
<1>2. FirstIndex(f, b) + k = FirstIndex(f, c) + l
  BY <1>1 DEF Idx
<1>3. b \in Nat /\ c \in Nat
  BY Sizes
<1>4. ~(b < c)
  BY <1>1, <1>2, Ordered
<1>5. ~(c < b)
  BY <1>1, <1>2, Ordered
<1>6. b = c
  BY <1>3, <1>4, <1>5
<1>. QED BY <1>1, <1>2, <1>6

(***************************************************************************)
(* Where a block begins and ends, and what lies between (regalloc.rs:79-90)*)
(***************************************************************************)
LEMMA IdxRange ==
    ASSUME NEW f, Laid(f)
    PROVE  /\ MaxIndexOf(f) \in Nat
           /\ \A b \in Block(f) : /\ FirstIndex(f, b) = Idx(f, b, 1)
                                  /\ LastIndex(f, b) = Idx(f, b, Size(f, b))
                                  /\ Last(f.body[b]) = f.body[b][Size(f, b)]
           /\ \A b \in Block(f) : \A k \in 1..Size(f, b) :
                 /\ Idx(f, b, k) \in 1..MaxIndexOf(f)
                 /\ \A l \in 1..Size(f, b) : Idx(f, b, k) <= Idx(f, b, l) <=> k <= l
                 /\ Idx(f, b, k + 1) = Idx(f, b, k) + 1
<1>1. PICK n \in Nat \ {0} : n = Len(f.body)
  BY Sizes
<1>2. Block(f) = 1..n
  BY <1>1, Sizes
<1>3. \A b \in Block(f) : FirstIndex(f, b) \in Nat \ {0} /\ Size(f, b) \in Nat \ {0}
  BY Numbering, Sizes
<1>4. ASSUME NEW b \in Block(f)
      PROVE  /\ FirstIndex(f, b) = Idx(f, b, 1)
             /\ LastIndex(f, b) = Idx(f, b, Size(f, b))
             /\ Last(f.body[b]) = f.body[b][Size(f, b)]
  <2>1. f.body[b] # <<>>
    BY DEF Laid
  <2>2. FirstIndex(f, b) = Idx(f, b, 1)
    BY <1>3 DEF Idx
  <2>. QED BY <2>1, <2>2 DEF LastIndex, Idx, Size, Last
<1>5. n \in Block(f) /\ MaxIndexOf(f) = FirstIndex(f, n) + Size(f, n) - 1
  BY <1>1, <1>2, <1>4 DEF MaxIndexOf, Idx
<1>6. MaxIndexOf(f) \in Nat
  BY <1>3, <1>5
<1>7. ASSUME NEW b \in Block(f), NEW k \in 1..Size(f, b)
      PROVE  /\ Idx(f, b, k) \in 1..MaxIndexOf(f)
             /\ \A l \in 1..Size(f, b) : Idx(f, b, k) <= Idx(f, b, l) <=> k <= l
             /\ Idx(f, b, k + 1) = Idx(f, b, k) + 1
  <2>1. FirstIndex(f, b) \in Nat \ {0} /\ Size(f, b) \in Nat \ {0} /\ k \in Nat /\ 1 <= k /\ k <= Size(f, b)
    BY <1>3
  <2>2. Idx(f, b, k) <= MaxIndexOf(f)
    <3>1. CASE b = n
      BY <1>5, <2>1, <3>1 DEF Idx
    <3>2. CASE b # n
      <4>1. b < n
        BY <1>2, <3>2
      <4>2. FirstIndex(f, b) + Size(f, b) <= FirstIndex(f, n)
        BY <1>5, <4>1, Ordered
      <4>3. FirstIndex(f, n) \in Nat /\ Size(f, n) \in Nat \ {0}
        BY <1>3, <1>5
      <4>. QED BY <1>5, <2>1, <4>2, <4>3 DEF Idx
    <3>. QED BY <3>1, <3>2
  <2>3. Idx(f, b, k) \in Nat /\ 1 <= Idx(f, b, k)
    BY <2>1 DEF Idx
  <2>4. \A l \in 1..Size(f, b) : Idx(f, b, k) <= Idx(f, b, l) <=> k <= l
    BY <2>1 DEF Idx
  <2>5. Idx(f, b, k + 1) = Idx(f, b, k) + 1
    BY <2>1 DEF Idx
  <2>. QED BY <1>6, <2>2, <2>3, <2>4, <2>5
<1>. QED BY <1>4, <1>6, <1>7

(***************************************************************************)
(* The instructions are those at the indices of the blocks.                *)
(***************************************************************************)
LEMMA InstsAt ==
    ASSUME NEW f, Laid(f)
    PROVE  /\ \A b \in Block(f) : \A k \in 1..Size(f, b) :
                 [idx |-> Idx(f, b, k), block |-> b, inst |-> f.body[b][k]] \in Insts(f)
           /\ \A x \in Insts(f) : /\ x.block \in Block(f)
                                  /\ \E k \in 1..Size(f, x.block) :
                                        x.idx = Idx(f, x.block, k) /\ x.inst = f.body[x.block][k]
<1>1. \A b \in Block(f) : DOMAIN f.body[b] = 1..Size(f, b)
  BY Sizes
<1>2. Insts(f) = UNION {{[idx |-> Idx(f, b, k), block |-> b, inst |-> f.body[b][k]] :
                            k \in 1..Size(f, b)} : b \in Block(f)}
  BY <1>1 DEF Insts, Idx
<1>. QED BY <1>2

-----------------------------------------------------------------------------
(* Paths of single instructions                                             *)

(***************************************************************************)
(* Control goes to the next instruction, or from the last one of a block   *)
(* to the first of a successor.                                            *)
(***************************************************************************)
LEMMA FlowAt ==
    ASSUME NEW f, Laid(f), Linked(f)
    PROVE  /\ \A b \in Block(f) : \A k \in 1..(Size(f, b) - 1) : <<Idx(f, b, k), Idx(f, b, k + 1)>> \in Flow(f)
           /\ \A b \in Block(f) : \A s \in Successors(f, b) :
                 <<Idx(f, b, Size(f, b)), Idx(f, s, 1)>> \in Flow(f)
           /\ \A e \in Flow(f) :
                 \/ \E b \in Block(f) : \E k \in 1..(Size(f, b) - 1) : e = <<Idx(f, b, k), Idx(f, b, k + 1)>>
                 \/ \E b \in Block(f) : \E s \in Successors(f, b) :
                       e = <<Idx(f, b, Size(f, b)), Idx(f, s, 1)>>
<1>. DEFINE Inside == {<<x.idx, x.idx + 1>> : x \in {y \in Insts(f) : y.idx # LastIndex(f, y.block)}}
<1>. DEFINE Edges == UNION {{<<LastIndex(f, b), FirstIndex(f, s)>> : s \in Successors(f, b)} : b \in Block(f)}
<1>1. Flow(f) = Inside \cup Edges
  BY DEF Flow
<1>2. \A b \in Block(f) : /\ Size(f, b) \in Nat \ {0}
                          /\ FirstIndex(f, b) = Idx(f, b, 1)
                          /\ LastIndex(f, b) = Idx(f, b, Size(f, b))
                          /\ Successors(f, b) \subseteq Block(f)
  BY Sizes, IdxRange DEF Linked
<1>3. ASSUME NEW b \in Block(f), NEW k \in 1..(Size(f, b) - 1)
      PROVE  <<Idx(f, b, k), Idx(f, b, k + 1)>> \in Inside
  <2>1. PICK x : x = [idx |-> Idx(f, b, k), block |-> b, inst |-> f.body[b][k]]
    OBVIOUS
  <2>2. k \in 1..Size(f, b) /\ Size(f, b) \in 1..Size(f, b) /\ k # Size(f, b)
    BY <1>2
  <2>3. x \in Insts(f)
    BY <2>1, <2>2, InstsAt
  <2>4. x.idx # LastIndex(f, x.block)
    BY <1>2, <2>1, <2>2, IdxUnique
  <2>5. Idx(f, b, k + 1) = x.idx + 1 /\ x.idx = Idx(f, b, k)
    BY <2>1, <2>2, IdxRange
  <2>. QED BY <2>3, <2>4, <2>5
<1>4. ASSUME NEW e \in Inside
      PROVE  \E b \in Block(f) : \E k \in 1..(Size(f, b) - 1) : e = <<Idx(f, b, k), Idx(f, b, k + 1)>>
  <2>1. PICK x \in Insts(f) : x.idx # LastIndex(f, x.block) /\ e = <<x.idx, x.idx + 1>>
    BY <1>4
  <2>2. PICK k \in 1..Size(f, x.block) : x.idx = Idx(f, x.block, k)
    BY InstsAt
  <2>3. x.block \in Block(f)
    BY InstsAt
  <2>4. k # Size(f, x.block)
    BY <1>2, <2>1, <2>2, <2>3
  <2>5. k \in 1..(Size(f, x.block) - 1)
    BY <1>2, <2>3, <2>4
  <2>6. Idx(f, x.block, k + 1) = x.idx + 1
    BY <2>2, <2>3, IdxRange
  <2>. QED BY <2>1, <2>2, <2>3, <2>5, <2>6
<1>5. ASSUME NEW b \in Block(f), NEW s \in Successors(f, b)
      PROVE  <<Idx(f, b, Size(f, b)), Idx(f, s, 1)>> \in Edges
  BY <1>2
<1>6. ASSUME NEW e \in Edges
      PROVE  \E b \in Block(f) : \E s \in Successors(f, b) : e = <<Idx(f, b, Size(f, b)), Idx(f, s, 1)>>
  BY <1>2
<1>. QED BY <1>1, <1>3, <1>4, <1>5, <1>6

-----------------------------------------------------------------------------
(* The points a value is live before                                        *)

\* Everything that reaches points by one edge of flow, and points.
Backward(flow, points) == points \cup {e[1] : e \in {d \in flow : d[2] \in points}}

\* r is what m steps back from r[0] reach, one by one.
Steps(r, m, flow) == \A i \in 1..m : r[i] = Backward(flow, r[i - 1])

(***************************************************************************)
(* One can go back any number of steps.                                    *)
(***************************************************************************)
LEMMA StepsExist ==
    ASSUME NEW n \in Nat, NEW U, NEW flow \in SUBSET (U \X U), NEW uses \in SUBSET U
    PROVE  \E r \in [0..n -> SUBSET U] : r[0] = uses /\ Steps(r, n, flow)
<1>. DEFINE Done == {m \in 0..n : \E r \in [0..m -> SUBSET U] : r[0] = uses /\ Steps(r, m, flow)}
<1>1. 0 \in Done
  <2>. PICK r : r = [i \in 0..0 |-> uses]
    OBVIOUS
  <2>1. r \in [0..0 -> SUBSET U] /\ r[0] = uses /\ Steps(r, 0, flow)
    BY DEF Steps
  <2>. QED BY <2>1
<1>2. ASSUME NEW m \in 0..(n - 1), m \in Done
      PROVE  m + 1 \in Done
  <2>1. PICK r \in [0..m -> SUBSET U] : r[0] = uses /\ Steps(r, m, flow)
    BY <1>2
  <2>2. PICK next : next = Backward(flow, r[m])
    OBVIOUS
  <2>3. next \in SUBSET U
    <3>1. r[m] \in SUBSET U
      BY <2>1
    <3>. QED BY <2>2, <3>1 DEF Backward
  <2>4. PICK h : h = [i \in 0..(m + 1) |-> IF i = m + 1 THEN next ELSE r[i]]
    OBVIOUS
  <2>5. h \in [0..(m + 1) -> SUBSET U] /\ h[0] = uses
    BY <2>1, <2>3, <2>4
  <2>6. ASSUME NEW i \in 1..(m + 1)
        PROVE  h[i] = Backward(flow, h[i - 1])
    <3>1. CASE i = m + 1
      <4>1. i - 1 = m /\ h[m] = r[m] /\ h[i] = next
        BY <2>4, <3>1
      <4>. QED BY <2>2, <4>1
    <3>2. CASE i # m + 1
      <4>1. i \in 1..m /\ h[i] = r[i] /\ h[i - 1] = r[i - 1]
        BY <2>4, <3>2
      <4>. QED BY <2>1, <4>1 DEF Steps
    <3>. QED BY <3>1, <3>2
  <2>7. Steps(h, m + 1, flow)
    BY <2>6 DEF Steps
  <2>. QED BY <2>5, <2>7
<1>3. n \in Done
  <2>. HIDE DEF Done
  <2>. QED BY <1>1, <1>2, BoundedInduction
<1>. QED BY <1>3

(***************************************************************************)
(* As many steps as there are points reach everything: each of them adds a *)
(* point, or nothing is left to add.                                       *)
(***************************************************************************)
LEMMA StepsClose ==
    ASSUME NEW n \in Nat, NEW U, IsFiniteSet(U), Cardinality(U) <= n,
           NEW flow \in SUBSET (U \X U), NEW r \in [0..n -> SUBSET U], Steps(r, n, flow)
    PROVE  \A e \in flow : e[2] \in r[n] => e[1] \in r[n]
<1>. DEFINE Full(i) == Backward(flow, r[i]) = r[i]
<1>1. CASE \E i \in 0..n : Full(i)
  <2>1. PICK i \in 0..n : Full(i)
    BY <1>1
  <2>. DEFINE Done == {j \in 0..n : j < i \/ r[j] = r[i]}
  <2>2. 0 \in Done
    BY <2>1
  <2>3. ASSUME NEW j \in 0..(n - 1), j \in Done
        PROVE  j + 1 \in Done
    <3>1. j + 1 \in 1..n /\ j + 1 \in 0..n /\ (j + 1) - 1 = j
      OBVIOUS
    <3>2. r[j + 1] = Backward(flow, r[j])
      BY <3>1 DEF Steps
    <3>3. CASE j < i
      <4>1. j + 1 < i \/ j + 1 = i
        BY <3>3, <2>1
      <4>. QED BY <3>1, <4>1
    <3>4. CASE r[j] = r[i]
      BY <2>1, <3>1, <3>2, <3>4
    <3>. QED BY <2>3, <3>3, <3>4
  <2>4. n \in Done
    <3>. HIDE DEF Done
    <3>1. \A m \in 0..n : m \in Done
      BY <2>2, <2>3, BoundedInduction
    <3>. QED BY <3>1
  <2>5. r[n] = r[i]
    BY <2>1, <2>4
  <2>. QED BY <2>1, <2>5 DEF Backward
<1>2. CASE \A i \in 0..n : ~Full(i)
  <2>. DEFINE Done == {j \in 0..n : Cardinality(r[j]) >= j}
  <2>1. \A j \in 0..n : /\ r[j] \in SUBSET U /\ IsFiniteSet(r[j])
                        /\ Cardinality(r[j]) \in Nat /\ Cardinality(r[j]) <= Cardinality(U)
    BY FS_Subset, FS_CardinalityType
  <2>2. 0 \in Done
    BY <2>1
  <2>3. ASSUME NEW j \in 0..(n - 1), j \in Done
        PROVE  j + 1 \in Done
    <3>1. j \in 0..n /\ j + 1 \in 1..n /\ j + 1 \in 0..n /\ (j + 1) - 1 = j
      OBVIOUS
    <3>2. r[j + 1] = Backward(flow, r[j])
      BY <3>1 DEF Steps
    <3>3. r[j] # r[j + 1] /\ r[j] \in SUBSET r[j + 1]
      BY <1>2, <3>1, <3>2 DEF Backward
    <3>4. Cardinality(r[j]) <= Cardinality(r[j + 1]) /\ Cardinality(r[j]) # Cardinality(r[j + 1])
      BY <2>1, <3>1, <3>3, FS_Subset
    <3>5. Cardinality(r[j]) \in Nat /\ Cardinality(r[j + 1]) \in Nat /\ Cardinality(r[j]) >= j
      BY <2>1, <2>3, <3>1
    <3>. QED BY <3>1, <3>4, <3>5
  <2>4. n \in Done
    <3>. HIDE DEF Done
    <3>1. \A m \in 0..n : m \in Done
      BY <2>2, <2>3, BoundedInduction
    <3>. QED BY <3>1
  <2>5. Cardinality(r[n]) = Cardinality(U)
    <3>1. Cardinality(U) \in Nat /\ n \in 0..n
      BY FS_CardinalityType
    <3>. QED BY <2>1, <2>4, <3>1
  <2>6. r[n] = U
    <3>1. n \in 0..n
      OBVIOUS
    <3>. QED BY <2>1, <2>5, <3>1, FS_Subset
  <2>. QED BY <2>6
<1>. QED BY <1>1, <1>2

(***************************************************************************)
(* Where a value is read (regalloc.rs:181-197).                            *)
(***************************************************************************)
LEMMA UsesAt ==
    ASSUME NEW f, Laid(f), NEW v
    PROVE  /\ UseIndices(f, v) \subseteq 1..MaxIndexOf(f)
           /\ \A b \in Block(f) : \A k \in 1..Size(f, b) :
                 f.body[b][k].op # "phi" /\ v \in ToSet(f.body[b][k].args) => Idx(f, b, k) \in UseIndices(f, v)
           /\ \A b \in Block(f) : v \in PhiOperands(f, b) => Idx(f, b, Size(f, b)) \in UseIndices(f, v)
           /\ \A i \in UseIndices(f, v) :
                 \/ \E b \in Block(f) : \E k \in 1..Size(f, b) :
                       /\ i = Idx(f, b, k)
                       /\ f.body[b][k].op # "phi" /\ v \in ToSet(f.body[b][k].args)
                 \/ \E b \in Block(f) : i = Idx(f, b, Size(f, b)) /\ v \in PhiOperands(f, b)
<1>1. \A b \in Block(f) : /\ Size(f, b) \in 1..Size(f, b)
                          /\ LastIndex(f, b) = Idx(f, b, Size(f, b))
  BY Sizes, IdxRange
<1>. DEFINE Reads == {x.idx : x \in {y \in Insts(f) : y.inst.op # "phi" /\ v \in ToSet(y.inst.args)}}
<1>. DEFINE OnEdges == {LastIndex(f, p) : p \in {q \in Block(f) : v \in PhiOperands(f, q)}}
<1>2. UseIndices(f, v) = Reads \cup OnEdges
  BY DEF UseIndices
<1>3. ASSUME NEW b \in Block(f), NEW k \in 1..Size(f, b),
             f.body[b][k].op # "phi" /\ v \in ToSet(f.body[b][k].args)
      PROVE  Idx(f, b, k) \in Reads
  <2>1. PICK x : x = [idx |-> Idx(f, b, k), block |-> b, inst |-> f.body[b][k]]
    OBVIOUS
  <2>2. x \in Insts(f)
    BY <2>1, InstsAt
  <2>3. x.inst = f.body[b][k] /\ x.idx = Idx(f, b, k)
    BY <2>1
  <2>. QED BY <1>3, <2>2, <2>3
<1>4. ASSUME NEW i \in Reads
      PROVE  \E b \in Block(f) : \E k \in 1..Size(f, b) :
                /\ i = Idx(f, b, k)
                /\ f.body[b][k].op # "phi" /\ v \in ToSet(f.body[b][k].args)
  <2>1. PICK x \in Insts(f) : x.inst.op # "phi" /\ v \in ToSet(x.inst.args) /\ i = x.idx
    BY <1>4
  <2>2. x.block \in Block(f) /\ \E k \in 1..Size(f, x.block) :
                                   x.idx = Idx(f, x.block, k) /\ x.inst = f.body[x.block][k]
    BY InstsAt
  <2>. QED BY <2>1, <2>2
<1>5. \A b \in Block(f) : v \in PhiOperands(f, b) => Idx(f, b, Size(f, b)) \in OnEdges
  BY <1>1
<1>6. \A i \in OnEdges : \E b \in Block(f) : i = Idx(f, b, Size(f, b)) /\ v \in PhiOperands(f, b)
  BY <1>1
<1>7. UseIndices(f, v) \subseteq 1..MaxIndexOf(f)
  BY <1>1, <1>2, <1>4, <1>6, IdxRange
<1>. QED BY <1>2, <1>3, <1>4, <1>5, <1>6, <1>7

(***************************************************************************)
(* The edges of the flow that leave an instruction which does not define v.*)
(***************************************************************************)
LEMMA FlowPastAt ==
    ASSUME NEW f, Laid(f), Linked(f), NEW v, v # NoValue
    PROVE  /\ FlowPast(f, v) \subseteq (1..MaxIndexOf(f)) \X (1..MaxIndexOf(f))
           /\ \A b \in Block(f) : \A k \in 1..(Size(f, b) - 1) :
                 f.body[b][k].res # v => <<Idx(f, b, k), Idx(f, b, k + 1)>> \in FlowPast(f, v)
           /\ \A b \in Block(f) : \A s \in Successors(f, b) :
                 <<Idx(f, b, Size(f, b)), Idx(f, s, 1)>> \in FlowPast(f, v)
           /\ \A e \in FlowPast(f, v) :
                 \/ \E b \in Block(f) : \E k \in 1..(Size(f, b) - 1) :
                       e = <<Idx(f, b, k), Idx(f, b, k + 1)>> /\ f.body[b][k].res # v
                 \/ \E b \in Block(f) : \E s \in Successors(f, b) :
                       e = <<Idx(f, b, Size(f, b)), Idx(f, s, 1)>>
<1>. DEFINE Defs == {x.idx : x \in {y \in Insts(f) : y.inst.res = v}}
<1>1. FlowPast(f, v) = {e \in Flow(f) : e[1] \notin Defs}
  BY DEF FlowPast
<1>2. \A b \in Block(f) : /\ Size(f, b) \in Nat \ {0} /\ Size(f, b) \in 1..Size(f, b) /\ 1 \in 1..Size(f, b)
                          /\ Successors(f, b) \subseteq Block(f)
                          /\ f.body[b][Size(f, b)].res = NoValue
  BY Sizes, IdxRange DEF Linked
<1>3. ASSUME NEW b \in Block(f), NEW k \in 1..Size(f, b)
      PROVE  Idx(f, b, k) \in Defs <=> f.body[b][k].res = v
  <2>1. ASSUME f.body[b][k].res = v PROVE Idx(f, b, k) \in Defs
    <3>1. PICK x : x = [idx |-> Idx(f, b, k), block |-> b, inst |-> f.body[b][k]]
      OBVIOUS
    <3>2. x \in Insts(f)
      BY <3>1, InstsAt
    <3>3. x.inst.res = v /\ x.idx = Idx(f, b, k)
      BY <2>1, <3>1
    <3>. QED BY <3>2, <3>3
  <2>2. ASSUME Idx(f, b, k) \in Defs PROVE f.body[b][k].res = v
    <3>1. PICK x \in Insts(f) : x.inst.res = v /\ x.idx = Idx(f, b, k)
      BY <2>2
    <3>2. PICK l \in 1..Size(f, x.block) : x.idx = Idx(f, x.block, l) /\ x.inst = f.body[x.block][l]
      BY InstsAt
    <3>3. PICK c \in Block(f) : c = x.block
      BY InstsAt
    <3>4. l \in 1..Size(f, c) /\ Idx(f, b, k) = Idx(f, c, l)
      BY <3>1, <3>2, <3>3
    <3>5. b = c /\ k = l
      BY <3>4, IdxUnique
    <3>. QED BY <3>1, <3>2, <3>3, <3>5
  <2>. QED BY <2>1, <2>2
<1>4. \A b \in Block(f) : \A k \in 1..(Size(f, b) - 1) : k \in 1..Size(f, b) /\ k + 1 \in 1..Size(f, b)
  BY <1>2
<1>5. ASSUME NEW e \in FlowPast(f, v)
      PROVE  \/ \E b \in Block(f) : \E k \in 1..(Size(f, b) - 1) :
                   e = <<Idx(f, b, k), Idx(f, b, k + 1)>> /\ f.body[b][k].res # v
             \/ \E b \in Block(f) : \E s \in Successors(f, b) :
                   e = <<Idx(f, b, Size(f, b)), Idx(f, s, 1)>>
  <2>1. e \in Flow(f) /\ e[1] \notin Defs
    BY <1>1
  <2>2. CASE \E b \in Block(f) : \E k \in 1..(Size(f, b) - 1) : e = <<Idx(f, b, k), Idx(f, b, k + 1)>>
    <3>. PICK b \in Block(f) : \E k \in 1..(Size(f, b) - 1) : e = <<Idx(f, b, k), Idx(f, b, k + 1)>>
      BY <2>2
    <3>1. PICK k \in 1..(Size(f, b) - 1) : e = <<Idx(f, b, k), Idx(f, b, k + 1)>>
      OBVIOUS
    <3>2. f.body[b][k].res # v
      BY <1>3, <1>4, <2>1, <3>1
    <3>. QED BY <3>1, <3>2
  <2>. QED BY <2>1, <2>2, FlowAt
<1>6. ASSUME NEW b \in Block(f), NEW k \in 1..(Size(f, b) - 1), f.body[b][k].res # v
      PROVE  <<Idx(f, b, k), Idx(f, b, k + 1)>> \in FlowPast(f, v)
  BY <1>1, <1>3, <1>4, <1>6, FlowAt
<1>7. ASSUME NEW b \in Block(f), NEW s \in Successors(f, b)
      PROVE  <<Idx(f, b, Size(f, b)), Idx(f, s, 1)>> \in FlowPast(f, v)
  BY <1>1, <1>2, <1>3, FlowAt
<1>8. \A b \in Block(f) : \A k \in 1..Size(f, b) : Idx(f, b, k) \in 1..MaxIndexOf(f)
  BY IdxRange
<1>9. FlowPast(f, v) \subseteq (1..MaxIndexOf(f)) \X (1..MaxIndexOf(f))
  <2>. SUFFICES ASSUME NEW e \in FlowPast(f, v)
                PROVE  e \in (1..MaxIndexOf(f)) \X (1..MaxIndexOf(f))
    OBVIOUS
  <2>1. CASE \E b \in Block(f) : \E k \in 1..(Size(f, b) - 1) : e = <<Idx(f, b, k), Idx(f, b, k + 1)>>
    BY <1>4, <1>8, <2>1
  <2>2. CASE \E b \in Block(f) : \E s \in Successors(f, b) : e = <<Idx(f, b, Size(f, b)), Idx(f, s, 1)>>
    BY <1>2, <1>8, <2>2
  <2>. QED BY <1>5, <2>1, <2>2
<1>. QED BY <1>5, <1>6, <1>7, <1>9

(***************************************************************************)
(* The live points of a value are the least set that has its uses and goes *)
(* back along the flow past its definitions.                               *)
(***************************************************************************)
LEMMA LivePointsLeast ==
    ASSUME NEW f, Laid(f), Linked(f), NEW v, v # NoValue
    PROVE  /\ LivePoints(f, v) \subseteq 1..MaxIndexOf(f)
           /\ UseIndices(f, v) \subseteq LivePoints(f, v)
           /\ \A e \in FlowPast(f, v) : e[2] \in LivePoints(f, v) => e[1] \in LivePoints(f, v)
           /\ \A S : /\ UseIndices(f, v) \subseteq S
                     /\ \A e \in FlowPast(f, v) : e[2] \in S => e[1] \in S
                     => LivePoints(f, v) \subseteq S
<1>1. PICK n \in Nat : n = MaxIndexOf(f)
  BY IdxRange
<1>2. PICK flow : flow = FlowPast(f, v)
  OBVIOUS
<1>3. PICK uses : uses = UseIndices(f, v)
  OBVIOUS
<1>4. flow \in SUBSET ((1..n) \X (1..n)) /\ uses \in SUBSET (1..n)
  BY <1>1, <1>2, <1>3, FlowPastAt, UsesAt
<1>. DEFINE Step(r) == [m \in 0..n |-> IF m = 0 THEN uses ELSE Backward(flow, r[m - 1])]
<1>5. PICK r \in [0..n -> SUBSET (1..n)] : r[0] = uses /\ Steps(r, n, flow)
  BY <1>4, StepsExist
<1>6. r = Step(r)
  <2>1. \A m \in 0..n : r[m] = IF m = 0 THEN uses ELSE Backward(flow, r[m - 1])
    BY <1>5 DEF Steps
  <2>. QED BY <1>5, <2>1
<1>7. PICK h : h = CHOOSE k : k = Step(k)
  OBVIOUS
<1>8. h = Step(h)
  BY <1>6, <1>7
<1>9. LivePoints(f, v) = h[n]
  BY <1>1, <1>2, <1>3, <1>7 DEF LivePoints, Backward
<1>10. h[0] = uses /\ Steps(h, n, flow)
  BY <1>8 DEF Steps
<1>11. h \in [0..n -> SUBSET (1..n)]
  <2>. DEFINE Done == {m \in 0..n : h[m] \in SUBSET (1..n)}
  <2>1. 0 \in Done
    <3>1. h[0] \in SUBSET (1..n) /\ 0 \in 0..n
      BY <1>4, <1>10
    <3>. QED BY <3>1
  <2>2. ASSUME NEW m \in 0..(n - 1), m \in Done
        PROVE  m + 1 \in Done
    <3>1. m + 1 \in 1..n /\ m + 1 \in 0..n /\ (m + 1) - 1 = m
      OBVIOUS
    <3>2. h[m + 1] = Backward(flow, h[m])
      BY <1>10, <3>1 DEF Steps
    <3>. QED BY <1>4, <2>2, <3>1, <3>2 DEF Backward
  <2>3. \A m \in 0..n : m \in Done
    <3>. HIDE DEF Done
    <3>. QED BY <2>1, <2>2, BoundedInduction
  <2>. QED BY <1>8, <2>3
<1>12. \A e \in flow : e[2] \in h[n] => e[1] \in h[n]
  <2>1. IsFiniteSet(1..n) /\ Cardinality(1..n) = IF 1 > n THEN 0 ELSE n - 1 + 1
    BY FS_Interval
  <2>2. Cardinality(1..n) <= n
    BY <2>1
  <2>. QED BY <1>4, <1>10, <1>11, <2>1, <2>2, StepsClose
<1>13. uses \subseteq h[n]
  <2>. DEFINE Done == {m \in 0..n : uses \subseteq h[m]}
  <2>1. 0 \in Done
    BY <1>10
  <2>2. ASSUME NEW m \in 0..(n - 1), m \in Done
        PROVE  m + 1 \in Done
    <3>1. m + 1 \in 1..n /\ m + 1 \in 0..n /\ (m + 1) - 1 = m
      OBVIOUS
    <3>2. h[m + 1] = Backward(flow, h[m])
      BY <1>10, <3>1 DEF Steps
    <3>. QED BY <2>2, <3>1, <3>2 DEF Backward
  <2>3. n \in Done
    <3>. HIDE DEF Done
    <3>1. \A m \in 0..n : m \in Done
      BY <2>1, <2>2, BoundedInduction
    <3>. QED BY <3>1
  <2>. QED BY <2>3
<1>14. ASSUME NEW S, uses \subseteq S, \A e \in flow : e[2] \in S => e[1] \in S
       PROVE  h[n] \subseteq S
  <2>. DEFINE Done == {m \in 0..n : h[m] \subseteq S}
  <2>1. 0 \in Done
    BY <1>10, <1>14
  <2>2. ASSUME NEW m \in 0..(n - 1), m \in Done
        PROVE  m + 1 \in Done
    <3>1. m + 1 \in 1..n /\ m + 1 \in 0..n /\ (m + 1) - 1 = m
      OBVIOUS
    <3>2. h[m + 1] = Backward(flow, h[m])
      BY <1>10, <3>1 DEF Steps
    <3>. QED BY <1>14, <2>2, <3>1, <3>2 DEF Backward
  <2>3. n \in Done
    <3>. HIDE DEF Done
    <3>1. \A m \in 0..n : m \in Done
      BY <2>1, <2>2, BoundedInduction
    <3>. QED BY <3>1
  <2>. QED BY <2>3
<1>15. h[n] \subseteq 1..n
  BY <1>11
<1>. QED BY <1>1, <1>2, <1>3, <1>9, <1>12, <1>13, <1>14, <1>15

(***************************************************************************)
(* A live point stays live backwards inside its block, past instructions   *)
(* that do not define the value.                                           *)
(***************************************************************************)
LEMMA BackInBlock ==
    ASSUME NEW f, Laid(f), Linked(f), NEW v, v # NoValue,
           NEW b \in Block(f), NEW k \in 1..Size(f, b), NEW j \in k..Size(f, b),
           \A i \in k..(j - 1) : f.body[b][i].res # v,
           Idx(f, b, j) \in LivePoints(f, v)
    PROVE  Idx(f, b, k) \in LivePoints(f, v)
<1>. DEFINE Done == {m \in 0..(j - k) : Idx(f, b, j - m) \in LivePoints(f, v)}
<1>1. Size(f, b) \in Nat /\ k \in Nat /\ j \in Nat /\ j - k \in Nat
  BY Sizes
<1>2. 0 \in Done
  <2>1. j - 0 = j
    BY <1>1
  <2>. QED BY <1>1, <2>1
<1>3. ASSUME NEW m \in 0..((j - k) - 1), m \in Done
      PROVE  m + 1 \in Done
  <2>1. PICK i : i = j - (m + 1)
    OBVIOUS
  <2>2. i \in k..(j - 1) /\ i \in 1..(Size(f, b) - 1) /\ j - m = i + 1 /\ m + 1 \in 0..(j - k)
    BY <1>1, <2>1
  <2>3. <<Idx(f, b, i), Idx(f, b, i + 1)>> \in FlowPast(f, v)
    BY <2>2, FlowPastAt
  <2>4. Idx(f, b, i + 1) \in LivePoints(f, v)
    BY <1>3, <2>2
  <2>5. Idx(f, b, i) \in LivePoints(f, v)
    BY <2>3, <2>4, LivePointsLeast
  <2>. QED BY <2>1, <2>2, <2>5
<1>4. j - k \in Done
  <2>. HIDE DEF Done
  <2>. QED BY <1>1, <1>2, <1>3, BoundedInduction
<1>5. j - (j - k) = k
  BY <1>1
<1>. QED BY <1>4, <1>5

(***************************************************************************)
(* A result is defined where its instruction is, everything else at 0      *)
(* (regalloc.rs:172-179).                                                  *)
(***************************************************************************)
LEMMA DefIndexAt ==
    ASSUME NEW f, Laid(f), Once(f), NEW v, v # NoValue
    PROVE  /\ \A b \in Block(f) : \A k \in 1..Size(f, b) :
                 f.body[b][k].res = v => v \in Listed(f) /\ DefIndex(f, v) = Idx(f, b, k)
           /\ v \notin Listed(f) => DefIndex(f, v) = 0
           /\ DefIndex(f, v) \in 0..MaxIndexOf(f)
<1>1. Listed(f) \subseteq {x.inst.res : x \in Insts(f)} /\ \A x \in Insts(f) : x.inst.res = v => v \in Listed(f)
  BY DEF Listed
<1>2. ASSUME NEW x \in Insts(f), x.inst.res = v
      PROVE  v \in Listed(f) /\ DefIndex(f, v) = x.idx
  <2>1. \A y \in Insts(f) : y.inst.res = v => y = x
    BY <1>2 DEF Once
  <2>2. (CHOOSE y \in Insts(f) : y.inst.res = v) = x
    BY <1>2, <2>1
  <2>. QED BY <1>1, <1>2, <2>2 DEF DefIndex
<1>3. ASSUME NEW b \in Block(f), NEW k \in 1..Size(f, b), f.body[b][k].res = v
      PROVE  v \in Listed(f) /\ DefIndex(f, v) = Idx(f, b, k)
  <2>1. PICK x : x = [idx |-> Idx(f, b, k), block |-> b, inst |-> f.body[b][k]]
    OBVIOUS
  <2>2. x \in Insts(f)
    BY <2>1, InstsAt
  <2>3. x.inst.res = v /\ x.idx = Idx(f, b, k)
    BY <1>3, <2>1
  <2>. QED BY <1>2, <2>2, <2>3
<1>4. v \notin Listed(f) => DefIndex(f, v) = 0
  BY DEF DefIndex
<1>5. DefIndex(f, v) \in 0..MaxIndexOf(f)
  <2>1. MaxIndexOf(f) \in Nat
    BY IdxRange
  <2>2. CASE v \in Listed(f)
    <3>1. PICK x \in Insts(f) : x.inst.res = v
      BY <1>1, <2>2
    <3>2. DefIndex(f, v) = x.idx
      BY <1>2, <3>1
    <3>3. x.idx \in 1..MaxIndexOf(f)
      BY InstsAt, IdxRange
    <3>. QED BY <2>1, <3>2, <3>3
  <2>. QED BY <1>4, <2>1, <2>2
<1>. QED BY <1>3, <1>4, <1>5

(***************************************************************************)
(* Control leaves an instruction that is not the last of its block for the *)
(* next one only.                                                          *)
(***************************************************************************)
LEMMA AfterAt ==
    ASSUME NEW f, Laid(f), Linked(f), NEW b \in Block(f), NEW k \in 1..(Size(f, b) - 1)
    PROVE  After(f, Idx(f, b, k)) \subseteq {Idx(f, b, k + 1)}
<1>1. \A c \in Block(f) : Size(f, c) \in Nat \ {0}
  BY Sizes
<1>2. ASSUME NEW e \in Flow(f), e[1] = Idx(f, b, k)
      PROVE  e[2] = Idx(f, b, k + 1)
  <2>1. CASE \E c \in Block(f) : \E l \in 1..(Size(f, c) - 1) : e = <<Idx(f, c, l), Idx(f, c, l + 1)>>
    <3>. PICK c \in Block(f) : \E l \in 1..(Size(f, c) - 1) : e = <<Idx(f, c, l), Idx(f, c, l + 1)>>
      BY <2>1
    <3>1. PICK l \in 1..(Size(f, c) - 1) : e = <<Idx(f, c, l), Idx(f, c, l + 1)>>
      OBVIOUS
    <3>2. k \in 1..Size(f, b) /\ l \in 1..Size(f, c)
      BY <1>1
    <3>3. Idx(f, b, k) = Idx(f, c, l)
      BY <1>2, <3>1
    <3>4. b = c /\ k = l
      BY <3>2, <3>3, IdxUnique
    <3>. QED BY <3>1, <3>4
  <2>2. CASE \E c \in Block(f) : \E s \in Successors(f, c) : e = <<Idx(f, c, Size(f, c)), Idx(f, s, 1)>>
    <3>1. PICK c \in Block(f) : Idx(f, b, k) = Idx(f, c, Size(f, c))
      BY <1>2, <2>2
    <3>2. k \in 1..Size(f, b) /\ Size(f, c) \in 1..Size(f, c) /\ k # Size(f, b)
      BY <1>1
    <3>3. b = c /\ k = Size(f, c)
      BY <3>1, <3>2, IdxUnique
    <3>. QED BY <3>2, <3>3
  <2>. QED BY <2>1, <2>2, FlowAt
<1>. QED BY <1>2 DEF After

(***************************************************************************)
(* An interval reaches the definition, every use, the top of every block   *)
(* its value is live into and the end of every block it is live out of     *)
(* (regalloc.rs:172-215).                                                  *)
(***************************************************************************)
LEMMA IntervalReaches ==
    ASSUME NEW f, Laid(f), Once(f), NEW v, v # NoValue, NEW liveIns, NEW liveOuts
    PROVE  /\ IntervalStart(f, liveIns, v) \in Nat /\ IntervalEnd(f, liveIns, liveOuts, v) \in Nat
           /\ IntervalStart(f, liveIns, v) <= DefIndex(f, v)
           /\ DefIndex(f, v) <= IntervalEnd(f, liveIns, liveOuts, v)
           /\ \A b \in Block(f) : v \in liveIns[b] => IntervalStart(f, liveIns, v) <= Idx(f, b, 1)
           /\ \A b \in Block(f) : v \in liveOuts[b] =>
                 Idx(f, b, Size(f, b)) <= IntervalEnd(f, liveIns, liveOuts, v)
           /\ \A i \in UseIndices(f, v) : i <= IntervalEnd(f, liveIns, liveOuts, v)
<1>1. PICK n \in Nat : n = MaxIndexOf(f)
  BY IdxRange
<1>2. \A b \in Block(f) : /\ FirstIndex(f, b) = Idx(f, b, 1) /\ FirstIndex(f, b) \in 0..n
                           /\ LastIndex(f, b) = Idx(f, b, Size(f, b)) /\ LastIndex(f, b) \in 0..n
  <2>1. \A b \in Block(f) : 1 \in 1..Size(f, b) /\ Size(f, b) \in 1..Size(f, b)
    BY Sizes
  <2>2. \A i \in 1..n : i \in 0..n
    OBVIOUS
  <2>. QED BY <1>1, <2>1, <2>2, IdxRange
<1>3. DefIndex(f, v) \in 0..n /\ UseIndices(f, v) \subseteq 0..n
  BY <1>1, DefIndexAt, UsesAt
<1>4. /\ IntervalStart(f, liveIns, v) \in Nat /\ IntervalStart(f, liveIns, v) <= DefIndex(f, v)
      /\ \A b \in Block(f) : v \in liveIns[b] => IntervalStart(f, liveIns, v) <= FirstIndex(f, b)
  <2>1. PICK S : S = {DefIndex(f, v)} \cup {FirstIndex(f, b) : b \in {c \in Block(f) : v \in liveIns[c]}}
    OBVIOUS
  <2>2. S \in SUBSET (0..n) /\ S # {}
    BY <1>2, <1>3, <2>1
  <2>3. Min(S) \in S /\ \A y \in S : Min(S) <= y
    BY <2>2, MinExists
  <2>4. IntervalStart(f, liveIns, v) = Min(S)
    BY <2>1 DEF IntervalStart
  <2>. QED BY <2>1, <2>2, <2>3, <2>4
<1>5. /\ IntervalEnd(f, liveIns, liveOuts, v) \in Nat /\ DefIndex(f, v) <= IntervalEnd(f, liveIns, liveOuts, v)
      /\ \A i \in UseIndices(f, v) : i <= IntervalEnd(f, liveIns, liveOuts, v)
      /\ \A b \in Block(f) : v \in liveOuts[b] => LastIndex(f, b) <= IntervalEnd(f, liveIns, liveOuts, v)
  <2>1. PICK S : S = {DefIndex(f, v)} \cup UseIndices(f, v)
                       \cup {FirstIndex(f, b) : b \in {c \in Block(f) : v \in liveIns[c]}}
                       \cup {LastIndex(f, b) : b \in {c \in Block(f) : v \in liveOuts[c]}}
    OBVIOUS
  <2>2. S \in SUBSET (0..n) /\ S # {}
    BY <1>2, <1>3, <2>1
  <2>3. Max(S) \in S /\ \A y \in S : Max(S) >= y
    BY <2>2, MaxExists
  <2>4. IntervalEnd(f, liveIns, liveOuts, v) = Max(S)
    BY <2>1 DEF IntervalEnd
  <2>5. \A y \in S : y \in Nat /\ y <= IntervalEnd(f, liveIns, liveOuts, v)
    BY <2>2, <2>3, <2>4
  <2>6. IntervalEnd(f, liveIns, liveOuts, v) \in Nat
    BY <2>3, <2>4, <2>5
  <2>. QED BY <2>1, <2>5, <2>6
<1>. QED BY <1>2, <1>4, <1>5

-----------------------------------------------------------------------------
(* What an interval spans                                                   *)

\* The live sets are exact: what is live before the first instruction of a block,
\* and of a successor.
LiveSets(f, liveIns, liveOuts) ==
    \A b \in Block(f) :
        /\ liveIns[b] = {v \in Values(f) : FirstIndex(f, b) \in LivePoints(f, v)}
        /\ liveOuts[b] = UNION {liveIns[s] : s \in Successors(f, b)}

(***************************************************************************)
(* A value is live before an instruction because one from there on in the  *)
(* block reads it, an edge out of the block does, or a successor needs it. *)
(***************************************************************************)
LEMMA LiveAhead ==
    ASSUME NEW f, Laid(f), Linked(f), NEW v, v # NoValue,
           NEW b \in Block(f), NEW k \in 1..Size(f, b), Idx(f, b, k) \in LivePoints(f, v)
    PROVE  \/ \E l \in k..Size(f, b) : f.body[b][l].op # "phi" /\ v \in ToSet(f.body[b][l].args)
           \/ v \in PhiOperands(f, b)
           \/ \E s \in Successors(f, b) : Idx(f, s, 1) \in LivePoints(f, v)
<1>. DEFINE Ahead(c, j) ==
              \/ \E l \in j..Size(f, c) : f.body[c][l].op # "phi" /\ v \in ToSet(f.body[c][l].args)
              \/ v \in PhiOperands(f, c)
              \/ \E s \in Successors(f, c) : Idx(f, s, 1) \in LivePoints(f, v)
<1>. DEFINE S == {i \in LivePoints(f, v) :
                    \E c \in Block(f) : \E j \in 1..Size(f, c) : i = Idx(f, c, j) /\ Ahead(c, j)}
<1>1. \A c \in Block(f) : Size(f, c) \in Nat \ {0} /\ Size(f, c) \in 1..Size(f, c) /\ 1 \in 1..Size(f, c)
  BY Sizes
<1>2. UseIndices(f, v) \subseteq S
  <2>1. ASSUME NEW i \in UseIndices(f, v)
        PROVE  \E c \in Block(f) : \E j \in 1..Size(f, c) : i = Idx(f, c, j) /\ Ahead(c, j)
    <3>1. CASE \E c \in Block(f) : \E j \in 1..Size(f, c) :
                  i = Idx(f, c, j) /\ f.body[c][j].op # "phi" /\ v \in ToSet(f.body[c][j].args)
      <4>1. \A c \in Block(f) : \A j \in 1..Size(f, c) : j \in j..Size(f, c)
        BY <1>1
      <4>. QED BY <3>1, <4>1
    <3>2. CASE \E c \in Block(f) : i = Idx(f, c, Size(f, c)) /\ v \in PhiOperands(f, c)
      BY <1>1, <3>2
    <3>. QED BY <3>1, <3>2, UsesAt
  <2>. QED BY <2>1, LivePointsLeast
<1>3. ASSUME NEW e \in FlowPast(f, v), e[2] \in S
      PROVE  e[1] \in S
  <2>1. e[1] \in LivePoints(f, v) /\ e[2] \in LivePoints(f, v)
    BY <1>3, LivePointsLeast
  <2>2. CASE \E c \in Block(f) : \E j \in 1..(Size(f, c) - 1) :
                e = <<Idx(f, c, j), Idx(f, c, j + 1)>>
    <3>. PICK c \in Block(f) : \E j \in 1..(Size(f, c) - 1) : e = <<Idx(f, c, j), Idx(f, c, j + 1)>>
      BY <2>2
    <3>1. PICK j \in 1..(Size(f, c) - 1) : e[1] = Idx(f, c, j) /\ e[2] = Idx(f, c, j + 1)
      OBVIOUS
    <3>2. j \in 1..Size(f, c) /\ j + 1 \in 1..Size(f, c)
      BY <1>1
    <3>3. Ahead(c, j + 1)
      <4>1. PICK d \in Block(f) : \E i \in 1..Size(f, d) : Idx(f, c, j + 1) = Idx(f, d, i) /\ Ahead(d, i)
        BY <1>3, <3>1
      <4>2. PICK i \in 1..Size(f, d) : Idx(f, c, j + 1) = Idx(f, d, i) /\ Ahead(d, i)
        BY <4>1
      <4>3. d = c /\ i = j + 1
        BY <3>2, <4>2, IdxUnique
      <4>. QED BY <4>2, <4>3
    <3>4. (j + 1)..Size(f, c) \subseteq j..Size(f, c)
      BY <1>1
    <3>5. Ahead(c, j)
      BY <3>3, <3>4
    <3>. QED BY <2>1, <3>1, <3>2, <3>5
  <2>3. CASE \E c \in Block(f) : \E s \in Successors(f, c) :
                e = <<Idx(f, c, Size(f, c)), Idx(f, s, 1)>>
    BY <1>1, <2>1, <2>3
  <2>. QED BY <2>2, <2>3, FlowPastAt
<1>4. Idx(f, b, k) \in S
  <2>. HIDE DEF S
  <2>. QED BY <1>2, <1>3, LivePointsLeast
<1>5. PICK d \in Block(f) : \E i \in 1..Size(f, d) : Idx(f, b, k) = Idx(f, d, i) /\ Ahead(d, i)
  BY <1>4
<1>6. PICK i \in 1..Size(f, d) : Idx(f, b, k) = Idx(f, d, i) /\ Ahead(d, i)
  BY <1>5
<1>7. d = b /\ i = k
  BY <1>6, IdxUnique
<1>. QED BY <1>6, <1>7

(***************************************************************************)
(* An interval goes from the definition in the block, or the top of it, to *)
(* wherever its value is live, the rest of the phis skipped                *)
(* (regalloc.rs:172-215).                                                  *)
(***************************************************************************)
LEMMA Spans ==
    ASSUME NEW f, Laid(f), Linked(f), Once(f), NEW v \in Values(f), v # NoValue,
           NEW liveIns, NEW liveOuts, LiveSets(f, liveIns, liveOuts),
           NEW b \in Block(f), NEW k \in 1..Size(f, b), Idx(f, b, k) \in LivePoints(f, v)
    PROVE  /\ \/ \E i \in 1..(k - 1) : f.body[b][i].res = v /\ IntervalStart(f, liveIns, v) <= Idx(f, b, i)
              \/ /\ Idx(f, b, 1) \in LivePoints(f, v)
                 /\ IntervalStart(f, liveIns, v) <= Idx(f, b, 1)
           /\ \A h \in k..Size(f, b) :
                 (\A i \in k..(h - 1) : f.body[b][i].op = "phi")
                     => Idx(f, b, h) <= IntervalEnd(f, liveIns, liveOuts, v)
<1>1. /\ Size(f, b) \in Nat \ {0} /\ k \in Nat /\ k >= 1 /\ 1 \in 1..Size(f, b)
      /\ FirstIndex(f, b) = Idx(f, b, 1)
  BY Sizes, IdxRange
<1>2. PICK low : low = IntervalStart(f, liveIns, v)
  OBVIOUS
<1>3. PICK high : high = IntervalEnd(f, liveIns, liveOuts, v)
  OBVIOUS
<1>4. /\ low <= DefIndex(f, v)
      /\ v \in liveIns[b] => low <= Idx(f, b, 1)
      /\ v \in liveOuts[b] => Idx(f, b, Size(f, b)) <= high
      /\ \A i \in UseIndices(f, v) : i <= high
      /\ high \in Nat
  BY <1>2, <1>3, IntervalReaches
<1>5. \/ \E i \in 1..(k - 1) : f.body[b][i].res = v /\ low <= Idx(f, b, i)
      \/ Idx(f, b, 1) \in LivePoints(f, v) /\ low <= Idx(f, b, 1)
  <2>1. CASE \E i \in 1..(k - 1) : f.body[b][i].res = v
    <3>1. PICK i \in 1..(k - 1) : f.body[b][i].res = v
      BY <2>1
    <3>2. i \in 1..Size(f, b)
      BY <1>1
    <3>3. DefIndex(f, v) = Idx(f, b, i)
      BY <3>1, <3>2, DefIndexAt
    <3>. QED BY <1>4, <3>1, <3>3
  <2>2. CASE \A i \in 1..(k - 1) : f.body[b][i].res # v
    <3>1. k \in 1..Size(f, b) /\ 1 \in 1..Size(f, b)
      BY <1>1
    <3>2. Idx(f, b, 1) \in LivePoints(f, v)
      BY <1>1, <2>2, <3>1, BackInBlock
    <3>3. v \in liveIns[b]
      BY <1>1, <3>2 DEF LiveSets
    <3>. QED BY <1>4, <3>2, <3>3
  <2>. QED BY <2>1, <2>2
<1>7. ASSUME NEW h \in k..Size(f, b), \A i \in k..(h - 1) : f.body[b][i].op = "phi"
      PROVE  Idx(f, b, h) <= high
  <2>1. h \in 1..Size(f, b) /\ Size(f, b) \in 1..Size(f, b) /\ h <= Size(f, b)
    BY <1>1
  <2>2. Idx(f, b, h) \in Nat /\ \A l \in 1..Size(f, b) : h <= l => Idx(f, b, l) \in Nat /\ Idx(f, b, h) <= Idx(f, b, l)
    BY <1>1, <2>1, IdxRange
  <2>3. CASE \E l \in k..Size(f, b) : f.body[b][l].op # "phi" /\ v \in ToSet(f.body[b][l].args)
    <3>1. PICK l \in k..Size(f, b) : f.body[b][l].op # "phi" /\ v \in ToSet(f.body[b][l].args)
      BY <2>3
    <3>2. h <= l /\ l \in 1..Size(f, b)
      BY <1>1, <1>7, <3>1
    <3>3. Idx(f, b, l) \in UseIndices(f, v)
      BY <3>1, <3>2, UsesAt
    <3>. QED BY <1>4, <2>2, <3>2, <3>3
  <2>4. Idx(f, b, h) <= Idx(f, b, Size(f, b)) /\ Idx(f, b, Size(f, b)) \in Nat
    BY <2>1, <2>2
  <2>5. CASE v \in PhiOperands(f, b)
    <3>1. Idx(f, b, Size(f, b)) \in UseIndices(f, v)
      BY <2>5, UsesAt
    <3>. QED BY <1>4, <2>2, <2>4, <3>1
  <2>6. CASE \E s \in Successors(f, b) : Idx(f, s, 1) \in LivePoints(f, v)
    <3>1. PICK s \in Successors(f, b) : Idx(f, s, 1) \in LivePoints(f, v)
      BY <2>6
    <3>2. s \in Block(f) /\ FirstIndex(f, s) = Idx(f, s, 1)
      BY IdxRange DEF Linked
    <3>3. v \in liveIns[s]
      BY <3>1, <3>2 DEF LiveSets
    <3>4. v \in liveOuts[b]
      BY <3>3 DEF LiveSets
    <3>. QED BY <1>4, <2>2, <2>4, <3>4
  <2>. QED BY <2>3, <2>5, <2>6, LiveAhead
<1>. QED BY <1>2, <1>3, <1>5, <1>7

(***************************************************************************)
(* A value live before an instruction that is not the first of its block   *)
(* was live before the one above it, or that one defines it.               *)
(***************************************************************************)
LEMMA LiveSpans ==
    ASSUME NEW f, Laid(f), Linked(f), Once(f), NEW v \in Values(f), v # NoValue,
           NEW liveIns, NEW liveOuts, LiveSets(f, liveIns, liveOuts),
           NEW b \in Block(f), NEW k \in 1..(Size(f, b) - 1), Idx(f, b, k + 1) \in LivePoints(f, v)
    PROVE  /\ IntervalStart(f, liveIns, v) <= Idx(f, b, k)
           /\ Idx(f, b, k + 1) <= IntervalEnd(f, liveIns, liveOuts, v)
<1>1. /\ Size(f, b) \in Nat \ {0} /\ k \in Nat /\ k >= 1 /\ k \in 1..Size(f, b)
      /\ k + 1 \in 1..Size(f, b) /\ k + 1 \in (k + 1)..Size(f, b)
      /\ (k + 1) - 1 = k /\ 1 \in 1..Size(f, b)
  BY Sizes
<1>2. PICK h : h = k + 1
  OBVIOUS
<1>3. PICK low : low = IntervalStart(f, liveIns, v)
  OBVIOUS
<1>4. low \in Nat
  BY <1>3, IntervalReaches
<1>5. /\ \/ \E i \in 1..(h - 1) : f.body[b][i].res = v /\ low <= Idx(f, b, i)
         \/ low <= Idx(f, b, 1)
      /\ (\A i \in h..(h - 1) : f.body[b][i].op = "phi")
            => Idx(f, b, h) <= IntervalEnd(f, liveIns, liveOuts, v)
  <2>1. h \in 1..Size(f, b) /\ h \in h..Size(f, b)
    BY <1>1, <1>2
  <2>2. Idx(f, b, h) \in LivePoints(f, v)
    BY <1>2
  <2>. QED BY <1>3, <2>1, <2>2, Spans
<1>6. \A i \in 1..k : Idx(f, b, i) \in Nat /\ Idx(f, b, k) \in Nat /\ Idx(f, b, i) <= Idx(f, b, k)
  <2>1. \A i \in 1..k : i \in 1..Size(f, b) /\ i <= k
    BY <1>1
  <2>. QED BY <1>1, <2>1, IdxRange
<1>7. low <= Idx(f, b, k)
  <2>1. 1 \in 1..k
    BY <1>1
  <2>. QED BY <1>1, <1>2, <1>4, <1>5, <1>6, <2>1
<1>8. h..(h - 1) = {}
  BY <1>1, <1>2
<1>. QED BY <1>2, <1>3, <1>5, <1>7, <1>8

(***************************************************************************)
(* The interval of a result that is read on some path goes from its        *)
(* instruction past the next one, the rest of the phis skipped.            *)
(***************************************************************************)
LEMMA ResultSpans ==
    ASSUME NEW f, Laid(f), Linked(f), Once(f), NEW v \in Values(f), v # NoValue,
           NEW liveIns, NEW liveOuts, LiveSets(f, liveIns, liveOuts),
           After(f, DefIndex(f, v)) \cap LivePoints(f, v) # {},
           NEW b \in Block(f), NEW k \in 1..(Size(f, b) - 1), f.body[b][k].res = v,
           NEW h \in (k + 1)..Size(f, b), \A i \in (k + 1)..(h - 1) : f.body[b][i].op = "phi"
    PROVE  /\ IntervalStart(f, liveIns, v) <= Idx(f, b, k)
           /\ Idx(f, b, h) <= IntervalEnd(f, liveIns, liveOuts, v)
<1>1. k \in 1..Size(f, b)
  BY Sizes
<1>2. DefIndex(f, v) = Idx(f, b, k)
  BY <1>1, DefIndexAt
<1>3. PICK j : j = k + 1
  OBVIOUS
<1>4. Idx(f, b, j) \in LivePoints(f, v)
  <2>1. After(f, Idx(f, b, k)) \subseteq {Idx(f, b, j)}
    BY <1>3, AfterAt
  <2>. QED BY <1>2, <2>1
<1>5. j \in 1..Size(f, b) /\ h \in j..Size(f, b) /\ \A i \in j..(h - 1) : f.body[b][i].op = "phi"
  BY <1>3, Sizes
<1>6. Idx(f, b, h) <= IntervalEnd(f, liveIns, liveOuts, v)
  BY <1>4, <1>5, Spans
<1>. QED BY <1>2, <1>6, IntervalReaches
=============================================================================
