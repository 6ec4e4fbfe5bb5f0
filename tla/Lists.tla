--------------------------------- MODULE Lists ---------------------------------
(***************************************************************************)
(* What the proofs of the other modules use about sets of bounded numbers, *)
(* and about sequences taken for the sets they hold and the order they     *)
(* hold them in.                                                           *)
(***************************************************************************)
EXTENDS Integers, Loops, SequencesExt, SequenceTheorems, FiniteSetTheorems, WellFoundedInduction,
        TLAPS

-----------------------------------------------------------------------------
(* Sets of bounded numbers                                                  *)

(***************************************************************************)
(* Max, of a finite set of numbers, is in the set and no element is above  *)
(* it.  Were there none, the elements above each would form an endless     *)
(* descent of finite sets.                                                 *)
(***************************************************************************)
LEMMA MaxOfFinite ==
    ASSUME NEW S \in SUBSET Int, IsFiniteSet(S), S # {}
    PROVE  /\ Max(S) \in S
           /\ \A y \in S : Max(S) >= y
<1> DEFINE Over(x) == {y \in S : y > x}
<1> DEFINE F == {Over(x) : x \in S}
<1>0. S \subseteq Int
  OBVIOUS
<1>1. IsFiniteSet(S)
  OBVIOUS
<1>2. F \subseteq FiniteSubsetsOf(S) /\ F # {}
  <2>1. \A x \in S : Over(x) \in SUBSET S
    OBVIOUS
  <2>2. \A x \in S : IsFiniteSet(Over(x))
    BY <1>1, <2>1, FS_Subset
  <2>. QED BY <2>1, <2>2 DEF FiniteSubsetsOf
<1>3. IsWellFoundedOn(StrictSubsetOrdering(S), FiniteSubsetsOf(S))
  BY FS_StrictSubsetOrderingWellFounded
<1>4. \E A \in F : \A B \in F : <<B, A>> \notin StrictSubsetOrdering(S)
  BY <1>2, <1>3, WFMin
<1>5. PICK x \in S : \A z \in S : <<Over(z), Over(x)>> \notin StrictSubsetOrdering(S)
  BY <1>4
<1>6. ASSUME NEW z \in S, z > x
      PROVE  FALSE
  <2>1. Over(z) \subseteq Over(x) /\ z \in Over(x) /\ z \notin Over(z)
    <3>1. z \in Int /\ x \in Int /\ x < z /\ ~(z < z)
      BY <1>0, <1>6
    <3>2. \A y \in S : y > z => y > x
      BY <1>0, <3>1
    <3>3. Over(z) \subseteq Over(x)
      BY <3>2
    <3>4. z \in Over(x)
      BY <1>6
    <3>5. z \notin Over(z)
      BY <3>1
    <3>. QED BY <3>3, <3>4, <3>5
  <2>2. Over(z) \in SUBSET S /\ Over(x) \in SUBSET S /\ Over(z) # Over(x)
    BY <2>1
  <2>. QED BY <2>1, <2>2, <1>5 DEF StrictSubsetOrdering
<1>7. \A z \in S : x >= z
  BY <1>0, <1>6
<1>. QED BY <1>7 DEF Max

(***************************************************************************)
(* So is Max of a set of numbers with an upper bound.                      *)
(***************************************************************************)
LEMMA MaxExists ==
    ASSUME NEW n \in Nat, NEW S \in SUBSET (0..n), S # {}
    PROVE  /\ Max(S) \in S
           /\ \A y \in S : Max(S) >= y
<1>1. IsFiniteSet(0..n) /\ S \in SUBSET Int
  BY FS_Interval
<1>2. IsFiniteSet(S)
  BY <1>1, FS_Subset
<1>. QED BY <1>1, <1>2, MaxOfFinite

(***************************************************************************)
(* Induction up to n, on a set of numbers: were one missing, the greatest  *)
(* number below which all are there would be followed by one more.         *)
(***************************************************************************)
LEMMA BoundedInduction ==
    ASSUME NEW n \in Nat, NEW S, 0 \in S,
           \A i \in 0..(n - 1) : i \in S => i + 1 \in S
    PROVE  \A i \in 0..n : i \in S
<1>. DEFINE Reached == {m \in 0..n : \A i \in 0..m : i \in S}
<1>1. Reached \in SUBSET (0..n) /\ 0 \in Reached
  OBVIOUS
<1>2. PICK m \in Reached : \A y \in Reached : m >= y
  BY <1>1, MaxExists
<1>3. CASE m = n
  BY <1>2, <1>3
<1>4. CASE m # n
  <2>1. m \in 0..(n - 1) /\ m \in S /\ m + 1 \in 0..n /\ ~(m >= m + 1)
    BY <1>2, <1>4
  <2>2. \A i \in 0..(m + 1) : i \in 0..m \/ i = m + 1
    BY <2>1
  <2>3. m + 1 \in Reached
    BY <1>2, <2>1, <2>2
  <2>. QED BY <1>2, <2>1, <2>3
<1>. QED BY <1>3, <1>4

(***************************************************************************)
(* Min, of a set of bounded numbers, is in the set and no element is below *)
(* it: the distances to the bound have a greatest one.                     *)
(***************************************************************************)
LEMMA MinExists ==
    ASSUME NEW n \in Nat, NEW S \in SUBSET (0..n), S # {}
    PROVE  /\ Min(S) \in S
           /\ \A y \in S : Min(S) <= y
<1>. DEFINE T == {m \in 0..n : n - m \in S}
<1>1. \A y \in S : n - y \in T
  <2>. SUFFICES ASSUME NEW y \in S PROVE n - y \in T
    OBVIOUS
  <2>1. y \in 0..n
    OBVIOUS
  <2>2. n - y \in 0..n /\ n - (n - y) = y
    BY <2>1
  <2>. QED BY <2>2
<1>2. T \in SUBSET (0..n) /\ T # {}
  BY <1>1
<1>3. PICK m \in T : \A z \in T : m >= z
  <2>. HIDE DEF T
  <2>. QED BY <1>2, MaxExists
<1>4. n - m \in S
  OBVIOUS
<1>5. \A y \in S : n - m <= y
  <2>. SUFFICES ASSUME NEW y \in S PROVE n - m <= y
    OBVIOUS
  <2>1. m >= n - y
    BY <1>1, <1>3
  <2>2. y \in 0..n /\ m \in 0..n
    OBVIOUS
  <2>. QED BY <2>1, <2>2
<1>. QED BY <1>4, <1>5 DEF Min

-----------------------------------------------------------------------------
(* Sequences                                                                *)

\* Every earlier entry of list is related by R to every later one.
Chain(list, R) == \A i, j \in DOMAIN list : i < j => <<list[i], list[j]>> \in R

(***************************************************************************)
(* Two lists put together, index by index.                                 *)
(***************************************************************************)
LEMMA Joined ==
    ASSUME NEW A, NEW s \in Seq(A), NEW t \in Seq(A), NEW r, r = s \o t,
           NEW m \in Nat, NEW n \in Nat, m = Len(s), n = Len(t)
    PROVE  /\ r \in Seq(A) /\ Len(r) = m + n /\ DOMAIN r = 1..(m + n)
           /\ \A i \in 1..m : r[i] = s[i]
           /\ \A i \in 1..n : r[m + i] = t[i]
<1>1. m \in Nat /\ n \in Nat
  OBVIOUS
<1>2. /\ r \in Seq(A) /\ Len(r) = m + n
      /\ \A i \in 1..(m + n) : r[i] = IF i <= m THEN s[i] ELSE t[i - m]
  BY ConcatProperties
<1>3. \A i \in 1..m : i \in 1..(m + n) /\ i <= m
  BY <1>1
<1>4. \A i \in 1..n : m + i \in 1..(m + n) /\ ~(m + i <= m) /\ (m + i) - m = i
  BY <1>1
<1>. QED BY <1>1, <1>2, <1>3, <1>4

(***************************************************************************)
(* A stretch of a list, index by index.                                    *)
(***************************************************************************)
LEMMA Slice ==
    ASSUME NEW A, NEW list \in Seq(A), NEW m \in Nat, NEW l \in Nat, m + l <= Len(list),
           NEW a, NEW b, a = m + 1, b = m + l, NEW s, s = SubSeq(list, a, b)
    PROVE  s \in Seq(A) /\ Len(s) = l /\ \A i \in 1..l : s[i] = list[m + i]
<1>1. Len(list) \in Nat /\ a \in Int /\ b \in Int
  OBVIOUS
<1>2. \A i \in a..b : list[i] \in A
  <2>1. a..b \subseteq 1..Len(list)
    BY <1>1
  <2>. QED BY <2>1
<1>3. /\ s \in Seq(A)
      /\ Len(s) = IF a <= b THEN b - a + 1 ELSE 0
      /\ \A i \in 1..(b - a + 1) : s[i] = list[a + i - 1]
  BY <1>1, <1>2, SubSeqProperties
<1>4. b - a + 1 = l /\ (~(a <= b) => l = 0) /\ \A i \in 1..l : a + i - 1 = m + i
  BY <1>1
<1>. QED BY <1>3, <1>4

(***************************************************************************)
(* What stands in two lists put together.                                  *)
(***************************************************************************)
LEMMA ConcatFacts ==
    ASSUME NEW A, NEW s \in Seq(A), NEW t \in Seq(A)
    PROVE  /\ s \o t \in Seq(A)
           /\ ToSet(s \o t) = ToSet(s) \cup ToSet(t)
           /\ IsInjective(s) /\ IsInjective(t) /\ ToSet(s) \cap ToSet(t) = {} => IsInjective(s \o t)
<1>1. PICK r : r = s \o t
  OBVIOUS
<1>2. PICK m \in Nat, n \in Nat : m = Len(s) /\ n = Len(t)
  OBVIOUS
<1>3. /\ r \in Seq(A) /\ DOMAIN r = 1..(m + n) /\ DOMAIN s = 1..m /\ DOMAIN t = 1..n
      /\ \A i \in 1..m : r[i] = s[i]
      /\ \A i \in 1..n : r[m + i] = t[i]
  BY <1>1, <1>2, Joined
<1>4. \A i \in 1..(m + n) : i \in 1..m \/ (i - m \in 1..n /\ r[i] = t[i - m])
  <2>. SUFFICES ASSUME NEW i \in 1..(m + n), i \notin 1..m PROVE i - m \in 1..n /\ r[i] = t[i - m]
    OBVIOUS
  <2>1. i - m \in 1..n /\ m + (i - m) = i
    BY <1>2
  <2>. QED BY <1>3, <2>1
<1>5. ToSet(r) = ToSet(s) \cup ToSet(t)
  <2>1. \A i \in 1..n : m + i \in 1..(m + n)
    BY <1>2
  <2>2. \A i \in 1..m : i \in 1..(m + n)
    BY <1>2
  <2>3. ToSet(r) = {r[i] : i \in 1..(m + n)} /\ ToSet(s) = {s[i] : i \in 1..m} /\ ToSet(t) = {t[i] : i \in 1..n}
    BY <1>3 DEF ToSet
  <2>4. ToSet(r) \subseteq ToSet(s) \cup ToSet(t)
    BY <1>3, <1>4, <2>3
  <2>5. ToSet(s) \subseteq ToSet(r)
    BY <1>3, <2>2, <2>3
  <2>6. ToSet(t) \subseteq ToSet(r)
    BY <1>3, <2>1, <2>3
  <2>. QED BY <2>4, <2>5, <2>6
<1>6. ASSUME IsInjective(s), IsInjective(t), ToSet(s) \cap ToSet(t) = {} PROVE IsInjective(r)
  <2>. SUFFICES ASSUME NEW i \in 1..(m + n), NEW j \in 1..(m + n), r[i] = r[j] PROVE i = j
    BY <1>3 DEF IsInjective
  <2>1. CASE i \in 1..m /\ j \in 1..m
    BY <1>3, <1>6, <2>1 DEF IsInjective
  <2>2. CASE i \in 1..m /\ j \notin 1..m
    BY <1>3, <1>4, <1>6, <2>2 DEF ToSet
  <2>3. CASE i \notin 1..m /\ j \in 1..m
    BY <1>3, <1>4, <1>6, <2>3 DEF ToSet
  <2>4. CASE i \notin 1..m /\ j \notin 1..m
    <3>1. i - m \in 1..n /\ j - m \in 1..n /\ t[i - m] = t[j - m]
      BY <1>4, <2>4
    <3>2. i - m = j - m
      BY <1>3, <1>6, <3>1 DEF IsInjective
    <3>. QED BY <1>2, <3>2
  <2>. QED BY <2>1, <2>2, <2>3, <2>4
<1>. QED BY <1>1, <1>3, <1>5, <1>6

(***************************************************************************)
(* A list in reverse holds the same entries.                               *)
(***************************************************************************)
LEMMA ReverseFacts ==
    ASSUME NEW A, NEW s \in Seq(A), IsInjective(s)
    PROVE  /\ Reverse(s) \in Seq(A)
           /\ IsInjective(Reverse(s))
           /\ ToSet(Reverse(s)) = ToSet(s)
<1>1. PICK n \in Nat : n = Len(s)
  OBVIOUS
<1>2. PICK r : r = Reverse(s)
  OBVIOUS
<1>3. \A i \in 1..n : (n - i) + 1 \in 1..n /\ (n - ((n - i) + 1)) + 1 = i
  BY <1>1
<1>4. DOMAIN s = 1..n /\ \A i \in 1..n : s[i] \in A
  BY <1>1
<1>5. r = [i \in 1..n |-> s[(n - i) + 1]]
  BY <1>1, <1>2 DEF Reverse
<1>6. DOMAIN r = 1..n /\ \A i \in 1..n : r[i] = s[(n - i) + 1] /\ r[i] \in A
  BY <1>3, <1>4, <1>5
<1>7. r \in Seq(A)
  <2>1. r \in [1..n -> A]
    BY <1>5, <1>6
  <2>. QED BY <1>1, <2>1
<1>8. IsInjective(r)
  <2>. SUFFICES ASSUME NEW i \in 1..n, NEW j \in 1..n, r[i] = r[j] PROVE i = j
    BY <1>6 DEF IsInjective
  <2>1. (n - i) + 1 = (n - j) + 1
    BY <1>3, <1>4, <1>6 DEF IsInjective
  <2>. QED BY <1>1, <2>1
<1>9. ToSet(r) = ToSet(s)
  <2>1. ToSet(r) = {r[i] : i \in 1..n} /\ ToSet(s) = {s[i] : i \in 1..n}
    BY <1>4, <1>6 DEF ToSet
  <2>2. ToSet(r) \subseteq ToSet(s)
    BY <1>3, <1>6, <2>1
  <2>3. ASSUME NEW i \in 1..n PROVE s[i] \in ToSet(r)
    <3>1. r[(n - i) + 1] = s[i] /\ (n - i) + 1 \in 1..n
      BY <1>3, <1>6
    <3>. QED BY <2>1, <3>1
  <2>. QED BY <2>1, <2>2, <2>3
<1>. QED BY <1>2, <1>7, <1>8, <1>9

(***************************************************************************)
(* A pop takes one register off a stack.                                   *)
(***************************************************************************)
LEMMA PopFacts ==
    ASSUME NEW A, NEW s \in Seq(A), s # <<>>, IsInjective(s)
    PROVE  /\ Front(s) \in Seq(A) /\ IsInjective(Front(s))
           /\ Last(s) \in ToSet(s)
           /\ ToSet(Front(s)) = ToSet(s) \ {Last(s)}
<1>1. PICK n \in Nat \ {0} : n = Len(s)
  OBVIOUS
<1>2. PICK f : f = Front(s)
  OBVIOUS
<1>3. /\ DOMAIN s = 1..n /\ Last(s) = s[n] /\ f \in Seq(A) /\ DOMAIN f = 1..(n - 1)
      /\ \A i \in 1..(n - 1) : f[i] = s[i]
  BY <1>1, <1>2 DEF Front, Last
<1>4. \A i \in 1..n : i \in 1..(n - 1) \/ i = n
  BY <1>1
<1>5. \A i \in 1..(n - 1) : i \in 1..n /\ i # n
  BY <1>1
<1>6. n \in 1..n
  BY <1>1
<1>7. ToSet(f) = ToSet(s) \ {s[n]}
  BY <1>3, <1>4, <1>5, <1>6 DEF ToSet, IsInjective
<1>. QED BY <1>2, <1>3, <1>5, <1>6, <1>7 DEF ToSet, IsInjective

(***************************************************************************)
(* Taking the head off a list leaves the rest in their order.              *)
(***************************************************************************)
LEMMA TailFacts ==
    ASSUME NEW A, NEW list \in Seq(A), list # <<>>,
           \A i, j \in DOMAIN list : i < j => list[i] # list[j]
    PROVE  /\ Tail(list) \in Seq(A)
           /\ ToSet(Tail(list)) = ToSet(list) \ {Head(list)}
           /\ \A R : Chain(list, R) => Chain(Tail(list), R)
<1>1. PICK n \in Nat : n + 1 = Len(list)
  <2>1. Len(list) \in Nat /\ Len(list) # 0
    OBVIOUS
  <2>2. Len(list) - 1 \in Nat /\ (Len(list) - 1) + 1 = Len(list)
    BY <2>1
  <2>. QED BY <2>2
<1>2. PICK t : t = Tail(list)
  OBVIOUS
<1>3. /\ DOMAIN list = 1..(n + 1) /\ Head(list) = list[1]
      /\ t \in Seq(A) /\ DOMAIN t = 1..n
      /\ \A i \in 1..n : t[i] = list[i + 1]
  BY <1>1, <1>2
<1>4. /\ 1 \in 1..(n + 1)
      /\ \A i \in 1..n : i + 1 \in 1..(n + 1) /\ 1 < i + 1
      /\ \A i, j \in 1..n : i < j => i + 1 < j + 1
      /\ \A i \in 1..(n + 1) : i = 1 \/ (i - 1 \in 1..n /\ (i - 1) + 1 = i)
  BY <1>1
<1>5. ToSet(t) \subseteq ToSet(list) \ {Head(list)}
  BY <1>3, <1>4 DEF ToSet
<1>6. ASSUME NEW i \in 1..(n + 1), list[i] # list[1] PROVE list[i] \in ToSet(t)
  <2>1. i - 1 \in 1..n /\ t[i - 1] = list[i]
    BY <1>3, <1>4, <1>6
  <2>. QED BY <1>3, <2>1 DEF ToSet
<1>7. ToSet(t) = ToSet(list) \ {Head(list)}
  <2>1. ToSet(list) = {list[i] : i \in 1..(n + 1)} /\ Head(list) = list[1]
    BY <1>3 DEF ToSet
  <2>2. ToSet(list) \ {Head(list)} \subseteq ToSet(t)
    BY <1>6, <2>1
  <2>. QED BY <1>5, <2>2
<1>8. ASSUME NEW R, Chain(list, R) PROVE Chain(t, R)
  <2>. SUFFICES ASSUME NEW i \in 1..n, NEW j \in 1..n, i < j PROVE <<t[i], t[j]>> \in R
    BY <1>3 DEF Chain
  <2>1. <<list[i + 1], list[j + 1]>> \in R
    BY <1>3, <1>4, <1>8 DEF Chain
  <2>. QED BY <1>3, <2>1
<1>. QED BY <1>2, <1>3, <1>7, <1>8

(***************************************************************************)
(* RemoveAt, index by index.                                               *)
(***************************************************************************)
LEMMA Removed ==
    ASSUME NEW A, NEW list \in Seq(A), NEW k \in 1..Len(list)
    PROVE  LET r == RemoveAt(list, k) IN
           /\ r \in Seq(A) /\ Len(r) = Len(list) - 1
           /\ \A i \in 1..(k - 1) : r[i] = list[i]
           /\ \A i \in k..(Len(list) - 1) : r[i] = list[i + 1]
<1>1. PICK n \in Nat : n = Len(list)
  OBVIOUS
<1>2. PICK m \in Nat, l \in Nat : k = m + 1 /\ n = (m + 1) + l
  <2>1. k \in 1..n
    BY <1>1
  <2>2. k - 1 \in Nat /\ n - k \in Nat /\ k = (k - 1) + 1 /\ n = ((k - 1) + 1) + (n - k)
    BY <1>1, <2>1
  <2>. QED BY <2>2
<1>3. PICK s : s = SubSeq(list, 1, m)
  OBVIOUS
<1>4. s \in Seq(A) /\ Len(s) = m /\ \A i \in 1..m : s[i] = list[i]
  <2>1. m \in Nat /\ 0 + m <= Len(list) /\ 0 + m = m /\ 0 + 1 = 1 /\ \A i \in 1..m : 0 + i = i
    BY <1>1, <1>2
  <2>. QED BY <1>3, <2>1, Slice
<1>5. PICK t : t = SubSeq(list, (m + 1) + 1, (m + 1) + l)
  OBVIOUS
<1>6. t \in Seq(A) /\ Len(t) = l /\ \A i \in 1..l : t[i] = list[(m + 1) + i]
  <2>1. l \in Nat /\ m + 1 \in Nat /\ (m + 1) + l <= Len(list)
    BY <1>1, <1>2
  <2>. QED BY <1>5, <2>1, Slice
<1>7. PICK r : r = s \o t
  OBVIOUS
<1>8. RemoveAt(list, k) = r
  <2>1. (m + 1) - 1 = m
    BY <1>2
  <2>. QED BY <1>1, <1>2, <1>3, <1>5, <1>7, <2>1 DEF RemoveAt
<1>9. /\ r \in Seq(A) /\ Len(r) = m + l
      /\ \A i \in 1..m : r[i] = s[i]
      /\ \A i \in 1..l : r[m + i] = t[i]
  <2>1. s \in Seq(A) /\ t \in Seq(A) /\ m = Len(s) /\ l = Len(t) /\ m \in Nat /\ l \in Nat
    BY <1>2, <1>4, <1>6
  <2>. QED BY <1>7, <2>1, Joined
<1>10. m + l = n - 1 /\ k - 1 = m
  BY <1>2
<1>11. ASSUME NEW i \in k..(n - 1) PROVE r[i] = list[i + 1]
  <2>1. i - m \in 1..l /\ m + (i - m) = i /\ (m + 1) + (i - m) = i + 1
    BY <1>2
  <2>2. r[m + (i - m)] = t[i - m] /\ t[i - m] = list[(m + 1) + (i - m)]
    BY <1>6, <1>9, <2>1
  <2>. QED BY <2>1, <2>2
<1>. QED BY <1>1, <1>4, <1>8, <1>9, <1>10, <1>11

(***************************************************************************)
(* Taking an entry out of a list leaves the rest in their order.           *)
(***************************************************************************)
LEMMA RemoveFacts ==
    ASSUME NEW A, NEW list \in Seq(A), NEW k \in DOMAIN list,
           \A i, j \in DOMAIN list : i < j => list[i] # list[j]
    PROVE  /\ RemoveAt(list, k) \in Seq(A)
           /\ ToSet(RemoveAt(list, k)) = ToSet(list) \ {list[k]}
           /\ \A R : Chain(list, R) => Chain(RemoveAt(list, k), R)
<1>1. PICK n \in Nat : n = Len(list)
  OBVIOUS
<1>2. PICK r : r = RemoveAt(list, k)
  OBVIOUS
<1>3. DOMAIN list = 1..n /\ k \in 1..n /\ k \in Nat
  BY <1>1
<1>4. /\ r \in Seq(A) /\ Len(r) = n - 1
      /\ \A i \in 1..(k - 1) : r[i] = list[i]
      /\ \A i \in k..(n - 1) : r[i] = list[i + 1]
  <2>1. Len(list) = n /\ k \in 1..Len(list)
    BY <1>1, <1>3
  <2>. QED BY <1>2, <2>1, Removed
<1>. DEFINE At(i) == IF i < k THEN i ELSE i + 1
<1>5. /\ \A i \in 1..(n - 1) : At(i) \in 1..n /\ At(i) # k
      /\ \A i, j \in 1..(n - 1) : i < j => At(i) < At(j)
      /\ \A x \in 1..n : x # k => \E i \in 1..(n - 1) : At(i) = x
  <2>1. \A i \in 1..(n - 1) : At(i) \in 1..n /\ At(i) # k
    BY <1>3
  <2>2. \A i, j \in 1..(n - 1) : i < j => At(i) < At(j)
    BY <1>3
  <2>3. ASSUME NEW x \in 1..n, x # k PROVE \E i \in 1..(n - 1) : At(i) = x
    <3>1. CASE x < k
      <4>1. x \in 1..(n - 1) /\ At(x) = x
        BY <1>3, <3>1
      <4>. QED BY <4>1
    <3>2. CASE x > k
      <4>1. x - 1 \in 1..(n - 1) /\ At(x - 1) = x
        BY <1>3, <3>2
      <4>. QED BY <4>1
    <3>. QED BY <1>3, <2>3, <3>1, <3>2
  <2>. QED BY <2>1, <2>2, <2>3
<1>6. \A i \in 1..(n - 1) : r[i] = list[At(i)]
  <2>1. \A i \in 1..(n - 1) : (i < k => i \in 1..(k - 1)) /\ (~(i < k) => i \in k..(n - 1))
    BY <1>1, <1>3
  <2>. QED BY <1>4, <2>1
<1>7. DOMAIN r = 1..(n - 1)
  BY <1>1, <1>3, <1>4
<1>. HIDE DEF At
<1>8. \A i \in 1..n : i # k => list[i] # list[k]
  BY <1>3
<1>9. ToSet(r) = ToSet(list) \ {list[k]}
  <2>1. ToSet(r) \subseteq ToSet(list) \ {list[k]}
    BY <1>3, <1>5, <1>6, <1>7, <1>8 DEF ToSet
  <2>2. ASSUME NEW x \in 1..n, list[x] # list[k] PROVE list[x] \in ToSet(r)
    BY <1>5, <1>6, <1>7, <2>2 DEF ToSet
  <2>. QED BY <1>3, <2>1, <2>2 DEF ToSet
<1>10. ASSUME NEW R, Chain(list, R) PROVE Chain(r, R)
  BY <1>3, <1>5, <1>6, <1>7, <1>10 DEF Chain
<1>. QED BY <1>2, <1>4, <1>9, <1>10

(***************************************************************************)
(* Putting an entry into a list leaves the rest in their order.            *)
(***************************************************************************)
LEMMA InsertFacts ==
    ASSUME NEW A, NEW list \in Seq(A), NEW a \in A, NEW q \in 1..(Len(list) + 1)
    PROVE  /\ InsertAt(list, q, a) \in Seq(A)
           /\ ToSet(InsertAt(list, q, a)) = ToSet(list) \cup {a}
           /\ \A R : /\ Chain(list, R)
                     /\ \A i \in DOMAIN list : i < q => <<list[i], a>> \in R
                     /\ \A i \in DOMAIN list : i >= q => <<a, list[i]>> \in R
                     => Chain(InsertAt(list, q, a), R)
<1>1. PICK n \in Nat : n = Len(list)
  OBVIOUS
<1>2. PICK p \in 0..n : q = p + 1
  <2>1. q - 1 \in 0..n /\ q = (q - 1) + 1
    BY <1>1
  <2>. QED BY <2>1
<1>3. PICK r : r = InsertAt(list, q, a)
  OBVIOUS
<1>4. DOMAIN list = 1..n /\ p \in 0..n
  BY <1>1, <1>2
<1>5. /\ r \in Seq(A) /\ Len(r) = n + 1 /\ r[p + 1] = a
      /\ \A i \in 1..p : r[i] = list[i]
      /\ \A i \in (p + 1)..n : r[i + 1] = list[i]
  <2>1. PICK m \in Nat, l \in Nat : m = p /\ l = n - p
    BY <1>4
  <2>s. PICK s : s = SubSeq(list, 1, m)
    OBVIOUS
  <2>2. s \in Seq(A) /\ Len(s) = m /\ \A i \in 1..m : s[i] = list[i]
    <3>1. 0 + m <= Len(list) /\ 0 + m = m /\ 0 + 1 = 1 /\ \A i \in 1..m : 0 + i = i
      BY <1>1, <1>4, <2>1
    <3>. QED BY <2>s, <2>1, <3>1, Slice
  <2>t. PICK t : t = SubSeq(list, m + 1, m + l)
    OBVIOUS
  <2>3. t \in Seq(A) /\ Len(t) = l /\ \A i \in 1..l : t[i] = list[m + i]
    <3>1. m \in Nat /\ l \in Nat /\ m + l <= Len(list)
      BY <1>1, <1>4, <2>1
    <3>. QED BY <2>t, <3>1, Slice
  <2>u. PICK u : u = s \o <<a>>
    OBVIOUS
  <2>4. u \in Seq(A) /\ Len(u) = m + 1 /\ u[m + 1] = a /\ \A i \in 1..m : u[i] = list[i]
    <3>. PICK one : one = <<a>>
      OBVIOUS
    <3>1. one \in Seq(A) /\ Len(one) = 1 /\ one[1] = a /\ 1 \in 1..1
      OBVIOUS
    <3>2. /\ u \in Seq(A) /\ Len(u) = m + 1
          /\ \A i \in 1..m : u[i] = s[i]
          /\ \A i \in 1..1 : u[m + i] = one[i]
      <4>. PICK o : o = Len(one)
        OBVIOUS
      <4>1. /\ u \in Seq(A) /\ Len(u) = m + o
            /\ \A i \in 1..m : u[i] = s[i]
            /\ \A i \in 1..o : u[m + i] = one[i]
        BY <2>u, <2>2, <3>1, Joined
      <4>. QED BY <3>1, <4>1
    <3>. QED BY <2>2, <3>1, <3>2
  <2>5. r = u \o t
    <3>1. (p + 1) - 1 = m /\ m + l = n
      BY <1>4, <2>1
    <3>. QED BY <1>1, <1>2, <1>3, <2>1, <2>s, <2>t, <2>u, <3>1 DEF InsertAt
  <2>6. /\ r \in Seq(A) /\ Len(r) = (m + 1) + l
        /\ \A i \in 1..(m + 1) : r[i] = u[i]
        /\ \A i \in 1..l : r[(m + 1) + i] = t[i]
    <3>1. PICK o \in Nat : o = m + 1
      BY <2>1
    <3>2. u \in Seq(A) /\ t \in Seq(A) /\ o = Len(u) /\ l = Len(t) /\ l \in Nat
      BY <2>1, <2>3, <2>4, <3>1
    <3>3. /\ r \in Seq(A) /\ Len(r) = o + l
          /\ \A i \in 1..o : r[i] = u[i]
          /\ \A i \in 1..l : r[o + i] = t[i]
      BY <2>5, <3>2, Joined
    <3>. QED BY <3>1, <3>3
  <2>7. /\ (m + 1) + l = n + 1 /\ m + 1 \in 1..(m + 1)
        /\ \A i \in 1..m : i \in 1..(m + 1)
    BY <1>1, <1>4, <2>1
  <2>8. ASSUME NEW i \in (p + 1)..n PROVE r[i + 1] = list[i]
    <3>1. i - m \in 1..l /\ m + (i - m) = i /\ (m + 1) + (i - m) = i + 1
      BY <1>1, <1>4, <2>1
    <3>2. r[(m + 1) + (i - m)] = t[i - m] /\ t[i - m] = list[m + (i - m)]
      BY <2>3, <2>6, <3>1
    <3>. QED BY <3>1, <3>2
  <2>9. ASSUME NEW i \in 1..p PROVE r[i] = list[i]
    BY <2>1, <2>4, <2>6, <2>7
  <2>10. r[p + 1] = a
    BY <2>1, <2>4, <2>6, <2>7
  <2>. QED BY <2>6, <2>7, <2>8, <2>9, <2>10
<1>6. DOMAIN r = 1..(n + 1) /\ p \in Nat
  BY <1>4, <1>5
<1>7. \A i \in 1..(n + 1) : \/ i \in 1..p /\ i \in 1..n /\ r[i] = list[i]
                            \/ i = p + 1 /\ r[i] = a
                            \/ i > p + 1 /\ i - 1 \in (p + 1)..n /\ i - 1 \in 1..n /\ r[i] = list[i - 1]
  <2>. SUFFICES ASSUME NEW i \in 1..(n + 1), i > p + 1
                PROVE  i - 1 \in (p + 1)..n /\ i - 1 \in 1..n /\ r[i] = list[i - 1]
    BY <1>4, <1>5
  <2>1. i - 1 \in (p + 1)..n /\ i - 1 \in 1..n /\ (i - 1) + 1 = i
    BY <1>4
  <2>. QED BY <1>5, <2>1
<1>8. ToSet(r) = ToSet(list) \cup {a}
  <2>1. ToSet(r) \subseteq ToSet(list) \cup {a}
    BY <1>4, <1>6, <1>7 DEF ToSet
  <2>2. a \in ToSet(r)
    <3>1. p + 1 \in 1..(n + 1)
      BY <1>4
    <3>. QED BY <1>5, <1>6, <3>1 DEF ToSet
  <2>3. ASSUME NEW i \in 1..n PROVE list[i] \in ToSet(r)
    <3>1. CASE i \in 1..p
      <4>1. i \in 1..(n + 1)
        BY <1>4
      <4>. QED BY <1>5, <1>6, <3>1, <4>1 DEF ToSet
    <3>2. CASE i \notin 1..p
      <4>1. i \in (p + 1)..n /\ i + 1 \in 1..(n + 1)
        BY <1>4, <3>2
      <4>. QED BY <1>5, <1>6, <4>1 DEF ToSet
    <3>. QED BY <3>1, <3>2
  <2>. QED BY <1>4, <2>1, <2>2, <2>3 DEF ToSet
<1>9. ASSUME NEW R, Chain(list, R),
             \A i \in DOMAIN list : i < q => <<list[i], a>> \in R,
             \A i \in DOMAIN list : i >= q => <<a, list[i]>> \in R
      PROVE  Chain(r, R)
  <2>6. /\ \A i \in 1..n : i <= p => <<list[i], a>> \in R
        /\ \A i \in 1..n : i > p => <<a, list[i]>> \in R
    <3>1. \A i \in 1..n : (i <= p => i < q) /\ (i > p => i >= q)
      BY <1>2, <1>4
    <3>. QED BY <1>4, <1>9, <3>1
  <2>. SUFFICES ASSUME NEW i \in 1..(n + 1), NEW j \in 1..(n + 1), i < j PROVE <<r[i], r[j]>> \in R
    BY <1>6 DEF Chain
  <2>1. CASE i \in 1..p /\ j \in 1..p
    <3>1. i \in 1..n /\ j \in 1..n /\ r[i] = list[i] /\ r[j] = list[j]
      BY <1>4, <1>5, <2>1
    <3>. QED BY <1>4, <1>9, <3>1 DEF Chain
  <2>2. CASE i \in 1..p /\ j = p + 1
    <3>1. i \in 1..n /\ i <= p /\ r[i] = list[i] /\ r[j] = a
      BY <1>4, <1>5, <2>2
    <3>. QED BY <2>6, <3>1
  <2>3. CASE i \in 1..p /\ j > p + 1
    <3>1. j - 1 \in 1..n /\ r[j] = list[j - 1] /\ i \in 1..n /\ r[i] = list[i] /\ i < j - 1
      BY <1>4, <1>7, <2>3
    <3>. QED BY <1>4, <1>9, <3>1 DEF Chain
  <2>4. CASE i = p + 1 /\ j > p + 1
    <3>1. j - 1 \in 1..n /\ r[j] = list[j - 1] /\ j - 1 > p /\ r[i] = a
      BY <1>4, <1>5, <1>7, <2>4
    <3>. QED BY <2>6, <3>1
  <2>5. CASE i > p + 1 /\ j > p + 1
    <3>1. i - 1 \in 1..n /\ r[i] = list[i - 1] /\ j - 1 \in 1..n /\ r[j] = list[j - 1] /\ i - 1 < j - 1
      BY <1>4, <1>7, <2>5
    <3>. QED BY <1>4, <1>9, <3>1 DEF Chain
  <2>. QED BY <1>4, <2>1, <2>2, <2>3, <2>4, <2>5
<1>. QED BY <1>5, <1>8, <1>9, <1>3

-----------------------------------------------------------------------------
(* Keep: what a loop over a list leaves or takes out                        *)

\* g builds up the entries of list that are in S, from the front.
Keeps(g, m, list, S) ==
    /\ g[0] = <<>>
    /\ \A i \in 1..m : g[i] = IF list[i] \in S THEN Append(g[i - 1], list[i]) ELSE g[i - 1]

(***************************************************************************)
(* The loop over a list has an outcome after each of its entries.          *)
(***************************************************************************)
LEMMA KeepsExists ==
    ASSUME NEW A, NEW list \in Seq(A), NEW S
    PROVE  \E g : DOMAIN g = 0..Len(list) /\ Keeps(g, Len(list), list, S)
<1>. PICK n \in Nat : n = Len(list)
  OBVIOUS
<1>. DEFINE Done == {m \in 0..n : \E g : DOMAIN g = 0..m /\ Keeps(g, m, list, S)}
<1>1. 0 \in Done
  <2>. PICK g : g = [i \in 0..0 |-> <<>>]
    OBVIOUS
  <2>1. DOMAIN g = 0..0 /\ Keeps(g, 0, list, S)
    BY DEF Keeps
  <2>. QED BY <2>1
<1>2. ASSUME NEW m \in 0..(n - 1), m \in Done
      PROVE  m + 1 \in Done
  <2>1. PICK g : DOMAIN g = 0..m /\ Keeps(g, m, list, S)
    BY <1>2
  <2>2. PICK last : last = IF list[m + 1] \in S THEN Append(g[m], list[m + 1]) ELSE g[m]
    OBVIOUS
  <2>3. PICK h : h = [i \in 0..(m + 1) |-> IF i = m + 1 THEN last ELSE g[i]]
    OBVIOUS
  <2>4. /\ DOMAIN h = 0..(m + 1) /\ h[m + 1] = last
        /\ \A i \in 0..m : h[i] = g[i]
    BY <2>3
  <2>5. ASSUME NEW i \in 1..(m + 1)
        PROVE  h[i] = IF list[i] \in S THEN Append(h[i - 1], list[i]) ELSE h[i - 1]
    <3>1. CASE i = m + 1
      <4>1. h[i - 1] = g[m] /\ h[i] = last
        BY <2>4, <3>1
      <4>. QED BY <2>2, <3>1, <4>1
    <3>2. CASE i # m + 1
      <4>1. i \in 1..m /\ h[i] = g[i] /\ h[i - 1] = g[i - 1]
        BY <2>4, <3>2
      <4>. QED BY <2>1, <4>1 DEF Keeps
    <3>. QED BY <3>1, <3>2
  <2>6. h[0] = <<>>
    BY <2>1, <2>4 DEF Keeps
  <2>. QED BY <2>4, <2>5, <2>6 DEF Keeps
<1>3. n \in Done
  <2>. HIDE DEF Done
  <2>. QED BY <1>1, <1>2, BoundedInduction
<1>. QED BY <1>3

(***************************************************************************)
(* Keep is the outcome after the last entry.                               *)
(***************************************************************************)
LEMMA KeepUnfolds ==
    ASSUME NEW A, NEW list \in Seq(A), NEW S
    PROVE  \E g : /\ DOMAIN g = 0..Len(list)
                  /\ Keeps(g, Len(list), list, S)
                  /\ Keep(list, S) = g[Len(list)]
<1>. DEFINE Step(g) == [i \in 0..Len(list) |->
                          IF i = 0 THEN <<>>
                          ELSE IF list[i] \in S THEN Append(g[i - 1], list[i]) ELSE g[i - 1]]
<1>1. PICK g : DOMAIN g = 0..Len(list) /\ Keeps(g, Len(list), list, S)
  BY KeepsExists
<1>2. PICK h : h = [i \in 0..Len(list) |-> g[i]]
  OBVIOUS
<1>3. h = Step(h)
  <2>1. Len(list) \in Nat
    OBVIOUS
  <2>2. ASSUME NEW i \in 0..Len(list), i # 0
        PROVE  h[i] = IF list[i] \in S THEN Append(h[i - 1], list[i]) ELSE h[i - 1]
    <3>1. i \in 1..Len(list) /\ i - 1 \in 0..Len(list)
      BY <2>1, <2>2
    <3>2. h[i] = g[i] /\ h[i - 1] = g[i - 1]
      BY <1>2, <3>1
    <3>. QED BY <1>1, <3>1, <3>2 DEF Keeps
  <2>3. h[0] = <<>>
    BY <1>1, <1>2, <2>1 DEF Keeps
  <2>. QED BY <1>2, <2>2, <2>3
<1>4. PICK k : k = CHOOSE f : f = Step(f)
  OBVIOUS
<1>5. k = Step(k)
  BY <1>3, <1>4
<1>6. Keep(list, S) = k[Len(list)]
  BY <1>4 DEF Keep
<1>7. DOMAIN k = 0..Len(list) /\ Keeps(k, Len(list), list, S)
  <2>1. Len(list) \in Nat /\ DOMAIN k = 0..Len(list)
    BY <1>5
  <2>2. k[0] = <<>>
    BY <1>5, <2>1
  <2>3. ASSUME NEW i \in 1..Len(list)
        PROVE  k[i] = IF list[i] \in S THEN Append(k[i - 1], list[i]) ELSE k[i - 1]
    <3>1. i \in 0..Len(list) /\ i # 0
      BY <2>1
    <3>. QED BY <1>5, <3>1
  <2>. QED BY <2>1, <2>2, <2>3 DEF Keeps
<1>. QED BY <1>6, <1>7

\* kept holds the entries of list up to m that are in S, e saying where.
Picks(e, kept, m, list, S) ==
    /\ e \in [1..Len(kept) -> 1..m]
    /\ \A i, j \in 1..Len(kept) : i < j => e[i] < e[j]
    /\ \A j \in 1..Len(kept) : kept[j] = list[e[j]] /\ list[e[j]] \in S
    /\ \A x \in 1..m : list[x] \in S => \E j \in 1..Len(kept) : e[j] = x

(***************************************************************************)
(* Keep takes the entries that are in S, all of them and in their order.   *)
(***************************************************************************)
LEMMA KeepPicks ==
    ASSUME NEW A, NEW list \in Seq(A), NEW S
    PROVE  /\ Keep(list, S) \in Seq(A)
           /\ \E e : Picks(e, Keep(list, S), Len(list), list, S)
<1>1. PICK g : /\ DOMAIN g = 0..Len(list)
               /\ Keeps(g, Len(list), list, S)
               /\ Keep(list, S) = g[Len(list)]
  BY KeepUnfolds
<1>. DEFINE Good == {m \in 0..Len(list) : g[m] \in Seq(A) /\ \E e : Picks(e, g[m], m, list, S)}
<1>2. PICK n \in Nat : n = Len(list)
  OBVIOUS
<1>3. 0 \in Good
  <2>1. g[0] = <<>>
    BY <1>1 DEF Keeps
  <2>2. PICK e : e = [i \in 1..0 |-> 0]
    OBVIOUS
  <2>3. Picks(e, <<>>, 0, list, S)
    BY <2>2 DEF Picks
  <2>4. <<>> \in Seq(A) /\ 0 \in 0..Len(list)
    BY <1>2
  <2>. QED BY <2>1, <2>3, <2>4
<1>4. ASSUME NEW m \in 0..(n - 1), m \in Good
      PROVE  m + 1 \in Good
  <2>1. PICK e : Picks(e, g[m], m, list, S)
    BY <1>4
  <2>2. /\ m + 1 \in 1..n /\ (m + 1) - 1 = m /\ m \in Nat
        /\ g[m] \in Seq(A) /\ Len(g[m]) \in Nat /\ list[m + 1] \in A
    BY <1>2, <1>4
  <2>3. g[m + 1] = IF list[m + 1] \in S THEN Append(g[m], list[m + 1]) ELSE g[m]
    <3>1. \A i \in 1..n : g[i] = IF list[i] \in S THEN Append(g[i - 1], list[i]) ELSE g[i - 1]
      BY <1>1, <1>2 DEF Keeps
    <3>. QED BY <2>2, <3>1
  <2>4. CASE list[m + 1] \notin S
    <3>1. g[m + 1] = g[m]
      BY <2>3, <2>4
    <3>2. Picks(e, g[m], m + 1, list, S)
      <4>1. \A x \in 1..(m + 1) : x \in 1..m \/ x = m + 1
        BY <2>2
      <4>2. 1..m \subseteq 1..(m + 1)
        BY <2>2
      <4>3. m + 1 \in Nat /\ Len(g[m]) \in Nat
        BY <2>2
      <4>. QED BY <2>1, <2>4, <4>1, <4>2, <4>3 DEF Picks
    <3>. QED BY <2>2, <1>2, <3>1, <3>2
  <2>5. CASE list[m + 1] \in S
    <3>1. PICK k : k = Append(g[m], list[m + 1])
      OBVIOUS
    <3>2. PICK l \in Nat : l = Len(g[m])
      BY <2>2
    <3>3. /\ k \in Seq(A) /\ Len(k) = l + 1 /\ k[l + 1] = list[m + 1]
          /\ \A j \in 1..l : k[j] = g[m][j]
      BY <2>2, <3>1, <3>2
    <3>4. PICK h : h = [j \in 1..(l + 1) |-> IF j = l + 1 THEN m + 1 ELSE e[j]]
      OBVIOUS
    <3>5. h[l + 1] = m + 1 /\ \A j \in 1..l : h[j] = e[j] /\ h[j] \in 1..m
      <4>1. \A j \in 1..l : e[j] \in 1..m
        BY <2>1, <3>2 DEF Picks
      <4>2. l + 1 \in 1..(l + 1) /\ \A j \in 1..l : j \in 1..(l + 1) /\ j # l + 1
        BY <3>2
      <4>. QED BY <3>4, <4>1, <4>2
    <3>6. \A j \in 1..(l + 1) : j \in 1..l \/ j = l + 1
      BY <3>2
    <3>7. h \in [1..(l + 1) -> 1..(m + 1)]
      <4>1. \A j \in 1..(l + 1) : h[j] \in 1..(m + 1)
        BY <2>2, <3>5, <3>6
      <4>. QED BY <3>4, <4>1
    <3>8. \A i, j \in 1..(l + 1) : i < j => h[i] < h[j]
      <4>. SUFFICES ASSUME NEW i \in 1..(l + 1), NEW j \in 1..(l + 1), i < j PROVE h[i] < h[j]
        OBVIOUS
      <4>1. i \in 1..l
        OBVIOUS
      <4>2. CASE j = l + 1
        BY <2>2, <3>5, <4>1, <4>2
      <4>3. CASE j # l + 1
        BY <2>1, <3>2, <3>5, <3>6, <4>1, <4>3 DEF Picks
      <4>. QED BY <4>2, <4>3
    <3>9. \A j \in 1..(l + 1) : k[j] = list[h[j]] /\ list[h[j]] \in S
      BY <2>1, <2>5, <3>2, <3>3, <3>5, <3>6 DEF Picks
    <3>10. \A x \in 1..(m + 1) : list[x] \in S => \E j \in 1..(l + 1) : h[j] = x
      <4>. SUFFICES ASSUME NEW x \in 1..(m + 1), list[x] \in S PROVE \E j \in 1..(l + 1) : h[j] = x
        OBVIOUS
      <4>1. CASE x = m + 1
        BY <3>2, <3>5, <4>1
      <4>2. CASE x # m + 1
        <5>1. x \in 1..m
          BY <2>2, <4>2
        <5>2. PICK j \in 1..l : e[j] = x
          BY <2>1, <3>2, <5>1 DEF Picks
        <5>. QED BY <3>5, <5>2
      <4>. QED BY <4>1, <4>2
    <3>11. Picks(h, k, m + 1, list, S)
      BY <3>3, <3>7, <3>8, <3>9, <3>10 DEF Picks
    <3>12. g[m + 1] = k
      BY <2>3, <2>5, <3>1
    <3>. QED BY <1>2, <2>2, <3>3, <3>11, <3>12
  <2>. QED BY <2>4, <2>5
<1>5. n \in Good
  <2>. HIDE DEF Good
  <2>. QED BY <1>2, <1>3, <1>4, BoundedInduction
<1>. QED BY <1>1, <1>2, <1>5

(***************************************************************************)
(* Keep leaves a chain a chain, and its entries are those in S.            *)
(***************************************************************************)
LEMMA KeepFacts ==
    ASSUME NEW A, NEW list \in Seq(A), NEW S
    PROVE  /\ Keep(list, S) \in Seq(A)
           /\ ToSet(Keep(list, S)) = ToSet(list) \cap S
           /\ \A R : Chain(list, R) => Chain(Keep(list, S), R)
<1>1. PICK k, e : k \in Seq(A) /\ k = Keep(list, S) /\ Picks(e, k, Len(list), list, S)
  BY KeepPicks
<1>2. /\ e \in [1..Len(k) -> 1..Len(list)] /\ DOMAIN k = 1..Len(k) /\ DOMAIN list = 1..Len(list)
      /\ \A i, j \in 1..Len(k) : i < j => e[i] < e[j]
      /\ \A j \in 1..Len(k) : k[j] = list[e[j]] /\ list[e[j]] \in S
      /\ \A x \in 1..Len(list) : list[x] \in S => \E j \in 1..Len(k) : e[j] = x
  BY <1>1 DEF Picks
<1>3. ToSet(k) = ToSet(list) \cap S
  <2>1. ToSet(k) \subseteq ToSet(list) \cap S
    BY <1>2 DEF ToSet
  <2>2. ASSUME NEW x \in 1..Len(list), list[x] \in S PROVE list[x] \in ToSet(k)
    BY <1>2, <2>2 DEF ToSet
  <2>. QED BY <1>2, <2>1, <2>2 DEF ToSet
<1>4. ASSUME NEW R, Chain(list, R) PROVE Chain(k, R)
  BY <1>2, <1>4 DEF Chain
<1>. QED BY <1>1, <1>3, <1>4

(***************************************************************************)
(* Keep leaves no entry twice in a list that had none twice.               *)
(***************************************************************************)
LEMMA KeepInjective ==
    ASSUME NEW A, NEW list \in Seq(A), IsInjective(list), NEW S
    PROVE  IsInjective(Keep(list, S))
<1>. DEFINE R == {p \in A \X A : p[1] # p[2]}
<1>1. DOMAIN list = 1..Len(list) /\ Len(list) \in Nat /\ \A i \in DOMAIN list : list[i] \in A
  OBVIOUS
<1>2. Chain(list, R)
  <2>. SUFFICES ASSUME NEW i \in DOMAIN list, NEW j \in DOMAIN list, i < j
                PROVE  <<list[i], list[j]>> \in R
    BY DEF Chain
  <2>1. list[i] # list[j]
    BY <1>1 DEF IsInjective
  <2>. QED BY <1>1, <2>1
<1>3. PICK k \in Seq(A) : k = Keep(list, S) /\ Chain(k, R)
  BY <1>2, KeepFacts
<1>4. ASSUME NEW i \in DOMAIN k, NEW j \in DOMAIN k, i < j
      PROVE  k[i] # k[j]
  <2>1. <<k[i], k[j]>> \in R
    BY <1>3, <1>4 DEF Chain
  <2>. QED BY <2>1
<1>5. \A i, j \in DOMAIN k : i < j \/ j < i \/ i = j
  BY <1>3
<1>. QED BY <1>3, <1>4, <1>5 DEF IsInjective

(***************************************************************************)
(* It is no longer than the list, and shorter when the last entry goes.    *)
(***************************************************************************)
LEMMA KeepLength ==
    ASSUME NEW A, NEW list \in Seq(A), NEW S
    PROVE  /\ Len(Keep(list, S)) \in Nat /\ Len(Keep(list, S)) <= Len(list)
           /\ list # <<>> /\ list[Len(list)] \notin S => Len(Keep(list, S)) + 1 <= Len(list)
<1>1. PICK k, e : k \in Seq(A) /\ k = Keep(list, S) /\ Picks(e, k, Len(list), list, S)
  BY KeepPicks
<1>2. PICK l \in Nat, n \in Nat : l = Len(k) /\ n = Len(list)
  BY <1>1
<1>3. /\ e \in [1..l -> 1..n] /\ \A i, j \in 1..l : i < j => e[i] < e[j]
      /\ \A j \in 1..l : list[e[j]] \in S
  BY <1>1, <1>2 DEF Picks
<1>4. \A i, j \in 1..l : e[i] = e[j] => i = j
  <2>1. \A i, j \in 1..l : i < j \/ j < i \/ i = j
    OBVIOUS
  <2>2. \A i \in 1..l : ~(e[i] < e[i])
    BY <1>3
  <2>. QED BY <1>3, <2>1, <2>2
<1>5. ASSUME NEW m \in Nat, e \in [1..l -> 1..m]
      PROVE  l <= m
  <2>1. e \in Injection(1..l, 1..m)
    BY <1>4, <1>5 DEF Injection, IsInjective
  <2>2. IsFiniteSet(1..m) /\ Cardinality(1..m) = m /\ Cardinality(1..l) = l
    BY FS_Interval
  <2>. QED BY <2>1, <2>2, FS_Injection
<1>6. l <= n
  BY <1>3, <1>5
<1>7. ASSUME list # <<>>, list[n] \notin S
      PROVE  l + 1 <= n
  <2>1. n # 0
    BY <1>2, <1>7
  <2>2. \A i \in 1..l : e[i] \in 1..n /\ e[i] # n
    BY <1>3, <1>7
  <2>3. \A x \in 1..n : x # n => x \in 1..(n - 1)
    OBVIOUS
  <2>4. e \in [1..l -> 1..(n - 1)]
    BY <1>3, <2>2, <2>3
  <2>5. n - 1 \in Nat
    BY <2>1
  <2>6. l <= n - 1
    BY <1>5, <2>4, <2>5
  <2>. QED BY <2>6
<1>. QED BY <1>1, <1>2, <1>6, <1>7
(***************************************************************************)
(* What is put behind a list does not change its head.                     *)
(***************************************************************************)
LEMMA JoinedTail ==
    ASSUME NEW A, NEW s \in Seq(A), NEW t \in Seq(A), s # <<>>
    PROVE  s \o t # <<>> /\ Head(s \o t) = Head(s) /\ Tail(s \o t) = Tail(s) \o t
<1>. PICK r, u, m, n : r = s \o t /\ u = Tail(s) \o t /\ m = Len(s) /\ n = Len(t)
  OBVIOUS
<1>1. m \in Nat /\ m >= 1 /\ n \in Nat
  OBVIOUS
<1>2. /\ r \in Seq(A) /\ Len(r) = m + n
      /\ \A i \in 1..m : r[i] = s[i]
      /\ \A i \in 1..n : r[m + i] = t[i]
  BY <1>1, Joined
<1>3. /\ Tail(s) \in Seq(A) /\ Len(Tail(s)) = m - 1 /\ m - 1 \in Nat
      /\ \A i \in 1..(m - 1) : Tail(s)[i] = s[i + 1]
  BY <1>1
<1>4. /\ u \in Seq(A) /\ Len(u) = (m - 1) + n
      /\ \A i \in 1..(m - 1) : u[i] = Tail(s)[i]
      /\ \A i \in 1..n : u[(m - 1) + i] = t[i]
  BY <1>1, <1>3, Joined
<1>5. r # <<>> /\ Head(r) = Head(s)
  <2>1. 1 \in 1..m /\ Len(r) # 0
    BY <1>1, <1>2
  <2>. QED BY <1>2, <2>1
<1>6. /\ Tail(r) \in Seq(A) /\ Len(Tail(r)) = (m + n) - 1
      /\ \A i \in 1..((m + n) - 1) : Tail(r)[i] = r[i + 1]
  BY <1>1, <1>2, <1>5
<1>7. \A i \in 1..((m + n) - 1) : u[i] = r[i + 1]
  <2>. SUFFICES ASSUME NEW i \in 1..((m + n) - 1) PROVE u[i] = r[i + 1]
    OBVIOUS
  <2>1. CASE i \in 1..(m - 1)
    <3>1. i + 1 \in 1..m
      BY <1>1, <2>1
    <3>. QED BY <1>2, <1>3, <1>4, <2>1, <3>1
  <2>2. CASE i \notin 1..(m - 1)
    <3>1. /\ i - (m - 1) \in 1..n
          /\ (m - 1) + (i - (m - 1)) = i /\ m + (i - (m - 1)) = i + 1
      BY <1>1, <2>2
    <3>2. PICK j \in 1..n : (m - 1) + j = i /\ m + j = i + 1
      BY <3>1
    <3>. QED BY <1>2, <1>4, <3>2
  <2>. QED BY <2>1, <2>2
<1>8. Len(u) = Len(Tail(r)) /\ \A i \in 1..Len(u) : u[i] = Tail(r)[i]
  BY <1>1, <1>4, <1>6, <1>7
<1>9. Tail(r) = u
  BY <1>4, <1>6, <1>8, SeqEqual
<1>. QED BY <1>5, <1>9

\* list has every element of the finite set V once, by increasing s.
SortedList(list, V, s) ==
    /\ IsFiniteSet(V) /\ list \in [1..Cardinality(V) -> V]
    /\ \A i, j \in 1..Cardinality(V) : (list[i] = list[j] => i = j) /\ (i < j => s[list[i]] <= s[list[j]])

(***************************************************************************)
(* A sorted list of some values, with one of the others behind it, is a    *)
(* sorted list of all of them when none of the others comes before.        *)
(***************************************************************************)
LEMMA SortedTogether ==
    ASSUME NEW V, NEW O, V \cap O = {}, NEW s, \A u \in V, v \in O : s[u] <= s[v],
           NEW p, SortedList(p, V, s), NEW r, SortedList(r, O, s)
    PROVE  SortedList(p \o r, V \cup O, s) /\ Cardinality(V \cup O) = Cardinality(V) + Cardinality(O)
<1>. PICK A, q, n, k : A = V \cup O /\ q = p \o r /\ n = Cardinality(V) /\ k = Cardinality(O)
  OBVIOUS
<1>1. IsFiniteSet(V) /\ IsFiniteSet(O)
  BY DEF SortedList
<1>2. n \in Nat /\ k \in Nat
  BY <1>1, FS_CardinalityType
<1>3. /\ p \in [1..n -> V] /\ r \in [1..k -> O]
      /\ \A i, j \in 1..n : (p[i] = p[j] => i = j) /\ (i < j => s[p[i]] <= s[p[j]])
      /\ \A i, j \in 1..k : (r[i] = r[j] => i = j) /\ (i < j => s[r[i]] <= s[r[j]])
  BY DEF SortedList
<1>4. p \in Seq(A) /\ r \in Seq(A) /\ n = Len(p) /\ k = Len(r)
  <2>1. p \in [1..n -> A] /\ r \in [1..k -> A]
    BY <1>3
  <2>. QED BY ONLY <1>2, <2>1
<1>5. /\ q \in Seq(A) /\ Len(q) = n + k /\ DOMAIN q = 1..(n + k)
      /\ \A i \in 1..n : q[i] = p[i]
      /\ \A i \in 1..k : q[n + i] = r[i]
  <2>1. q = p \o r
    OBVIOUS
  <2>. QED BY ONLY <1>2, <1>4, <2>1, Joined
<1>6. \A i \in 1..(n + k) : \/ i \in 1..n /\ q[i] = p[i] /\ q[i] \in V
                            \/ i - n \in 1..k /\ q[i] = r[i - n] /\ q[i] \in O
  <2>. SUFFICES ASSUME NEW i \in 1..(n + k), i \notin 1..n
                PROVE  i - n \in 1..k /\ q[i] = r[i - n]
    BY <1>3, <1>5
  <2>1. i - n \in 1..k /\ n + (i - n) = i
    BY <1>2
  <2>. QED BY <1>5, <2>1
<1>7. \A i, j \in 1..(n + k) : (q[i] = q[j] => i = j) /\ (i < j => s[q[i]] <= s[q[j]])
  <2>. SUFFICES ASSUME NEW i \in 1..(n + k), NEW j \in 1..(n + k)
                PROVE  (q[i] = q[j] => i = j) /\ (i < j => s[q[i]] <= s[q[j]])
    OBVIOUS
  <2>n. n \in Int /\ k \in Int /\ i \in Int /\ j \in Int
    BY <1>2
  <2>1. CASE i \in 1..n /\ q[i] = p[i] /\ q[i] \in V
    <3>1. CASE j \in 1..n /\ q[j] = p[j] /\ q[j] \in V
      BY <1>3, <2>1, <3>1
    <3>2. CASE q[j] \in O
      BY <2>1, <3>2
    <3>. QED BY <1>6, <3>1, <3>2
  <2>2. CASE i - n \in 1..k /\ q[i] = r[i - n] /\ q[i] \in O
    <3>1. CASE j \in 1..n /\ q[j] \in V
      <4>1. j < i
        BY ONLY <2>n, <2>2, <3>1
      <4>2. ~(i < j)
        BY ONLY <2>n, <4>1
      <4>3. q[i] # q[j]
        BY <2>2, <3>1
      <4>. QED BY <4>2, <4>3
    <3>2. CASE j - n \in 1..k /\ q[j] = r[j - n] /\ q[j] \in O
      <4>1. (i - n = j - n => i = j) /\ (i < j => i - n < j - n)
        BY <2>n
      <4>. QED BY <1>3, <2>2, <3>2, <4>1
    <3>. QED BY <1>6, <3>1, <3>2
  <2>. QED BY <1>6, <2>1, <2>2
<1>8. IsFiniteSet(A) /\ Cardinality(A) = n + k
  <2>1. /\ IsFiniteSet(V \cup O)
        /\ Cardinality(V \cup O) = Cardinality(V) + Cardinality(O) - Cardinality(V \cap O)
    BY <1>1, FS_Union
  <2>2. Cardinality(V \cap O) = 0
    BY FS_EmptySet
  <2>. QED BY <1>2, <2>1, <2>2
<1>9. q \in [1..(n + k) -> A]
  <2>1. q \in [1..Len(q) -> A]
    BY ONLY <1>5
  <2>. QED BY <1>5, <2>1
<1>. QED BY <1>7, <1>8, <1>9 DEF SortedList

(***************************************************************************)
(* Keep takes the front of a list when that is where the entries in S are. *)
(***************************************************************************)
LEMMA KeepFront ==
    ASSUME NEW A, NEW list \in Seq(A), NEW S, NEW m \in 0..Len(list),
           \A i \in 1..m : list[i] \in S, \A i \in (m + 1)..Len(list) : list[i] \notin S
    PROVE  Len(Keep(list, S)) = m /\ \A i \in 1..m : Keep(list, S)[i] = list[i]
<1>1. PICK n \in Nat : n = Len(list) /\ DOMAIN list = 1..n
  OBVIOUS
<1>2. PICK g : DOMAIN g = 0..n /\ Keeps(g, n, list, S) /\ Keep(list, S) = g[n]
  BY <1>1, KeepUnfolds
<1>3. g[0] = <<>> /\ \A i \in 1..n : g[i] = IF list[i] \in S THEN Append(g[i - 1], list[i]) ELSE g[i - 1]
  BY <1>2 DEF Keeps
<1>. DEFINE Fine(i) == /\ g[i] \in Seq(A)
                       /\ i <= m => Len(g[i]) = i /\ \A j \in 1..i : g[i][j] = list[j]
                       /\ i > m => Len(g[i]) = m /\ \A j \in 1..m : g[i][j] = list[j]
<1>4. Fine(0)
  BY <1>3
<1>5. ASSUME NEW i \in 0..(n - 1), Fine(i)
      PROVE  Fine(i + 1)
  <2>1. PICK k : k = i + 1
    OBVIOUS
  <2>2. k \in 1..n /\ k - 1 = i /\ list[k] \in A
    BY <1>1, <2>1
  <2>3. g[k] = IF list[k] \in S THEN Append(g[i], list[k]) ELSE g[i]
    BY <1>3, <2>2
  <2>4. CASE k <= m
    <3>1. list[k] \in S /\ i <= m
      BY <2>1, <2>2, <2>4
    <3>2. PICK s \in Seq(A) : s = g[i] /\ Len(s) = i /\ \A j \in 1..i : s[j] = list[j]
      BY <1>5, <3>1
    <3>3. PICK t : t = Append(s, list[k])
      OBVIOUS
    <3>4. t \in Seq(A) /\ Len(t) = i + 1 /\ t[i + 1] = list[k] /\ \A j \in 1..i : t[j] = s[j]
      BY <2>2, <3>2, <3>3
    <3>5. \A j \in 1..k : t[j] = list[j]
      BY <2>1, <3>2, <3>4
    <3>6. g[k] = t
      BY <2>3, <3>1, <3>2, <3>3
    <3>. QED BY <2>1, <2>4, <3>4, <3>5, <3>6
  <2>5. CASE ~(k <= m)
    <3>1. list[k] \notin S
      BY <1>1, <2>2, <2>5
    <3>2. g[k] = g[i]
      BY <2>3, <3>1
    <3>3. i = m \/ i > m
      BY <2>1, <2>5
    <3>. QED BY <1>5, <2>1, <2>5, <3>2, <3>3
  <2>. QED BY <2>4, <2>5
<1>. HIDE DEF Fine
<1>. DEFINE Done == {i \in 0..n : Fine(i)}
<1>6. 0 \in Done /\ \A i \in 0..(n - 1) : i \in Done => i + 1 \in Done
  BY <1>4, <1>5
<1>7. n \in Done
  <2>. HIDE DEF Done
  <2>1. \A i \in 0..n : i \in Done
    BY <1>6, BoundedInduction
  <2>. QED BY <2>1
<1>8. Fine(n) /\ (n <= m \/ n > m) /\ (n <= m => n = m)
  BY <1>1, <1>7
<1>. QED BY <1>2, <1>8 DEF Fine
=============================================================================
