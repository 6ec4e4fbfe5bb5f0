-------------------------- MODULE LinearScanProofs --------------------------
(***************************************************************************)
(* Proofs about LinearScan, for every set of values, both register pools,  *)
(* every assignment of intervals and every set of call positions.          *)
(***************************************************************************)
EXTENDS LinearScan, TLAPS

(***************************************************************************)
(* The three shapes of an allocation are told apart by their kind.         *)
(***************************************************************************)
LEMMA AllocationShapes ==
    ASSUME NEW r, NEW n
    PROVE  /\ InReg(r).kind = "reg"
           /\ InReg(r).reg = r
           /\ InSlot(n).kind = "slot"
           /\ InSlot(n).slot = n
           /\ Unplaced.kind = "none"
           /\ InReg(r) # Unplaced
           /\ InSlot(n) # Unplaced
           /\ InReg(r) # InSlot(n)
<1>1. "reg" # "slot" /\ "reg" # "none" /\ "slot" # "none"
  OBVIOUS
<1>2. InReg(r).kind = "reg" /\ InReg(r).reg = r
  BY DEF InReg
<1>3. InSlot(n).kind = "slot" /\ InSlot(n).slot = n
  BY DEF InSlot
<1>4. Unplaced.kind = "none"
  BY DEF Unplaced
<1>. QED BY <1>1, <1>2, <1>3, <1>4

(***************************************************************************)
(* What a value that the loop has reached may look like, from TypeOK.      *)
(***************************************************************************)
LEMMA Shapes ==
    ASSUME TypeOK, NEW v \in Value
    PROVE  /\ v \in todo => alloc[v] = Unplaced /\ ~HasReg(v)
           /\ v \in active => v \notin todo /\ HasReg(v)
           /\ HasReg(v) => /\ v \notin todo
                           /\ RegHeld(v) \in Reg
                           /\ alloc[v] = InReg(RegHeld(v))
           /\ alloc[v].kind = "slot" => /\ v \notin todo
                                        /\ v \notin active
                                        /\ alloc[v].slot \in 0..(nextSlot - 1)
                                        /\ alloc[v] = InSlot(alloc[v].slot)
<1>1. CASE v \in todo
  BY <1>1, AllocationShapes DEF TypeOK, HasReg
<1>2. CASE v \notin todo /\ \E r \in Reg : alloc[v] = InReg(r)
  <2>1. PICK r \in Reg : alloc[v] = InReg(r)
    BY <1>2
  <2>2. HasReg(v) /\ RegHeld(v) = r /\ alloc[v].kind # "slot"
    BY <2>1, AllocationShapes DEF HasReg, RegHeld
  <2>. QED BY <1>2, <2>1, <2>2
<1>3. CASE v \notin todo /\ v \notin active /\ \E n \in 0..(nextSlot - 1) : alloc[v] = InSlot(n)
  <2>1. PICK n \in 0..(nextSlot - 1) : alloc[v] = InSlot(n)
    BY <1>3
  <2>2. ~HasReg(v) /\ alloc[v].slot = n /\ alloc[v].kind = "slot"
    BY <2>1, AllocationShapes DEF HasReg
  <2>. QED BY <1>3, <2>1, <2>2
<1>. QED BY <1>1, <1>2, <1>3 DEF TypeOK

(***************************************************************************)
(* The expire step frees exactly the registers that no live interval       *)
(* holds, and each goes back to the pool it came from.                     *)
(***************************************************************************)
LEMMA ExpireFrees ==
    ASSUME TypeOK, PoolConserved, NEW v \in Value
    PROVE  /\ CallerAfter(v) \subseteq CallerSaved
           /\ CalleeAfter(v) \subseteq CalleeSaved
           /\ Live(v) \subseteq active
           /\ \A r \in Reg : r \in CallerAfter(v) \cup CalleeAfter(v)
                                <=> ~ \E a \in Live(v) : RegHeld(a) = r
           /\ Usable(v) \subseteq CallerAfter(v) \cup CalleeAfter(v)
<1>1. CallerAfter(v) \subseteq CallerSaved /\ CalleeAfter(v) \subseteq CalleeSaved
  BY DEF CallerAfter, CalleeAfter, TypeOK
<1>2. Live(v) \subseteq active /\ Expired(v) \subseteq active /\ Live(v) = active \ Expired(v)
  BY DEF Live, Expired
<1>3. ASSUME NEW r \in Reg
      PROVE  r \in CallerAfter(v) \cup CalleeAfter(v) <=> ~ \E a \in Live(v) : RegHeld(a) = r
  <2>1. r \in CallerAfter(v) \cup CalleeAfter(v)
          <=> r \in freeCaller \cup freeCallee \/ \E a \in Expired(v) : RegHeld(a) = r
    BY DEF CallerAfter, CalleeAfter, Reg
  <2>2. r \in freeCaller \cup freeCallee <=> ~ \E a \in active : RegHeld(a) = r
    BY DEF PoolConserved
  <2>3. \A a, b \in active : RegHeld(a) = RegHeld(b) => a = b
    BY DEF PoolConserved
  <2>. QED BY <1>2, <2>1, <2>2, <2>3
<1>4. Usable(v) \subseteq CallerAfter(v) \cup CalleeAfter(v)
  BY DEF Usable
<1>. QED BY <1>1, <1>2, <1>3, <1>4

(***************************************************************************)
(* An interval that may be evicted is active and its register is one that  *)
(* v could use.                                                            *)
(***************************************************************************)
LEMMA VictimActive ==
    ASSUME TypeOK, NEW v \in Value, NEW c \in Victims(v)
    PROVE  /\ c \in Live(v)
           /\ c \in active
           /\ c \in Value
           /\ HasReg(c)
           /\ CrossesCall(v) => RegHeld(c) \in CalleeSaved
<1>1. c \in Live(v) /\ (CrossesCall(v) => RegHeld(c) \in CalleeSaved)
  BY DEF Victims, Eligible
<1>2. c \in active /\ c \in Value
  BY <1>1 DEF Live, TypeOK
<1>. QED BY <1>1, <1>2, Shapes

-----------------------------------------------------------------------------
(* Type correctness                                                         *)

(***************************************************************************)
(* The loop starts in a state of the right types (regalloc.rs:224-232).    *)
(***************************************************************************)
LEMMA InitTypeOK == Init => TypeOK
  BY PoolsAssumption DEF Init, LoopInit, TypeOK

(***************************************************************************)
(* One iteration keeps the types, whichever of its three ways it ends      *)
(* (regalloc.rs:234-307).                                                  *)
(***************************************************************************)
LEMMA PlaceTypeOK ==
    ASSUME TypeOK, PoolConserved, NEW v \in Candidates, Place(v)
    PROVE  TypeOK'
<1>1. v \in Value /\ v \in todo /\ v \notin active /\ v \notin todo'
  BY DEF Candidates, Place, TypeOK
<1>2. /\ start' \in [Value -> 0..MaxIndex]
      /\ end' \in [Value -> 0..MaxIndex]
      /\ calls' \subseteq 1..MaxIndex
      /\ todo' \subseteq Value
      /\ todo' = todo \ {v}
  BY DEF Place, input, TypeOK
<1>3. /\ CallerAfter(v) \subseteq CallerSaved
      /\ CalleeAfter(v) \subseteq CalleeSaved
      /\ Live(v) \subseteq Value \ todo
      /\ Usable(v) \subseteq Reg
  BY <1>1, ExpireFrees DEF TypeOK, Reg
<1>4. CASE TakeFree(v)
  <2>1. PICK r \in Usable(v) :
            /\ alloc' = [alloc EXCEPT ![v] = InReg(r)]
            /\ freeCaller' = CallerAfter(v) \ {r}
            /\ freeCallee' = CalleeAfter(v) \ {r}
            /\ usedCallee' = usedCallee \cup ({r} \cap CalleeSaved)
    BY <1>4 DEF TakeFree
  <2>2. r \in Reg
    BY <1>3
  <2>3. active' \subseteq Value \ todo'
    BY <1>1, <1>2, <1>3, <1>4 DEF TakeFree
  <2>4. DOMAIN alloc' = Value /\ nextSlot' = nextSlot /\ nextSlot' \in Nat
    BY <1>4, <2>1 DEF TakeFree, TypeOK
  <2>5. /\ freeCaller' \subseteq CallerSaved
        /\ freeCallee' \subseteq CalleeSaved
        /\ usedCallee' \subseteq CalleeSaved
    BY <1>3, <2>1 DEF TypeOK
  <2>6. ASSUME NEW u \in Value
        PROVE  \/ u \in todo' /\ alloc'[u] = Unplaced
               \/ u \notin todo' /\ \E q \in Reg : alloc'[u] = InReg(q)
               \/ u \notin todo' /\ u \notin active' /\ \E n \in 0..(nextSlot' - 1) : alloc'[u] = InSlot(n)
    <3>1. CASE u = v
      BY <1>1, <2>1, <2>2, <3>1 DEF TypeOK
    <3>2. CASE u # v
      <4>1. alloc'[u] = alloc[u] /\ (u \in todo' <=> u \in todo) /\ (u \in active' => u \in active)
        BY <1>2, <1>4, <2>1, <3>2 DEF TakeFree, Live, TypeOK
      <4>. QED BY <2>4, <4>1 DEF TypeOK
    <3>. QED BY <3>1, <3>2
  <2>. QED BY <1>2, <2>3, <2>4, <2>5, <2>6 DEF TypeOK
<1>5. CASE SpillActive(v)
  <2>1. PICK c \in Victims(v) :
            /\ alloc' = [alloc EXCEPT ![c] = InSlot(nextSlot), ![v] = alloc[c]]
            /\ active' = (Live(v) \ {c}) \cup {v}
    BY <1>5 DEF SpillActive
  <2>2. c \in active /\ c \in Value /\ c # v /\ c \notin todo /\ HasReg(c)
    BY <1>1, VictimActive, Shapes
  <2>3. active' \subseteq Value \ todo'
    BY <1>1, <1>2, <1>3, <2>1
  <2>4. DOMAIN alloc' = Value /\ nextSlot' = nextSlot + 1 /\ nextSlot' \in Nat /\ nextSlot \in Nat
    BY <1>5, <2>1 DEF SpillActive, TypeOK
  <2>5. /\ freeCaller' \subseteq CallerSaved
        /\ freeCallee' \subseteq CalleeSaved
        /\ usedCallee' \subseteq CalleeSaved
    BY <1>3, <1>5 DEF SpillActive, TypeOK
  <2>6. ASSUME NEW u \in Value
        PROVE  \/ u \in todo' /\ alloc'[u] = Unplaced
               \/ u \notin todo' /\ \E q \in Reg : alloc'[u] = InReg(q)
               \/ u \notin todo' /\ u \notin active' /\ \E n \in 0..(nextSlot' - 1) : alloc'[u] = InSlot(n)
    <3>1. CASE u = v
      <4>1. alloc'[v] = alloc[c]
        BY <1>1, <2>1, <2>2 DEF TypeOK
      <4>. QED BY <1>1, <2>2, <3>1, <4>1, Shapes
    <3>2. CASE u = c
      <4>1. alloc'[c] = InSlot(nextSlot)
        BY <2>1, <2>2 DEF TypeOK
      <4>2. c \notin todo' /\ c \notin active'
        BY <1>2, <2>1, <2>2
      <4>3. nextSlot \in 0..(nextSlot' - 1)
        BY <2>4
      <4>. QED BY <3>2, <4>1, <4>2, <4>3
    <3>3. CASE u # v /\ u # c
      <4>1. alloc'[u] = alloc[u] /\ (u \in todo' <=> u \in todo) /\ (u \in active' => u \in active)
        BY <1>2, <2>1, <3>3 DEF Live, TypeOK
      <4>2. 0..(nextSlot - 1) \subseteq 0..(nextSlot' - 1)
        BY <2>4
      <4>. QED BY <4>1, <4>2 DEF TypeOK
    <3>. QED BY <3>1, <3>2, <3>3
  <2>. QED BY <1>2, <2>3, <2>4, <2>5, <2>6 DEF TypeOK
<1>6. CASE SpillSelf(v)
  <2>1. /\ alloc' = [alloc EXCEPT ![v] = InSlot(nextSlot)]
        /\ active' = Live(v)
    BY <1>6 DEF SpillSelf
  <2>3. active' \subseteq Value \ todo' /\ v \notin active'
    BY <1>1, <1>2, <1>3, <2>1
  <2>4. DOMAIN alloc' = Value /\ nextSlot' = nextSlot + 1 /\ nextSlot' \in Nat /\ nextSlot \in Nat
    BY <1>6, <2>1 DEF SpillSelf, TypeOK
  <2>5. /\ freeCaller' \subseteq CallerSaved
        /\ freeCallee' \subseteq CalleeSaved
        /\ usedCallee' \subseteq CalleeSaved
    BY <1>3, <1>6 DEF SpillSelf, TypeOK
  <2>6. ASSUME NEW u \in Value
        PROVE  \/ u \in todo' /\ alloc'[u] = Unplaced
               \/ u \notin todo' /\ \E q \in Reg : alloc'[u] = InReg(q)
               \/ u \notin todo' /\ u \notin active' /\ \E n \in 0..(nextSlot' - 1) : alloc'[u] = InSlot(n)
    <3>1. CASE u = v
      <4>1. alloc'[v] = InSlot(nextSlot)
        BY <1>1, <2>1 DEF TypeOK
      <4>2. nextSlot \in 0..(nextSlot' - 1)
        BY <2>4
      <4>. QED BY <1>1, <2>3, <3>1, <4>1, <4>2
    <3>2. CASE u # v
      <4>1. alloc'[u] = alloc[u] /\ (u \in todo' <=> u \in todo) /\ (u \in active' => u \in active)
        BY <1>2, <2>1, <3>2 DEF Live, TypeOK
      <4>2. 0..(nextSlot - 1) \subseteq 0..(nextSlot' - 1)
        BY <2>4
      <4>. QED BY <4>1, <4>2 DEF TypeOK
    <3>. QED BY <3>1, <3>2
  <2>. QED BY <1>2, <2>3, <2>4, <2>5, <2>6 DEF TypeOK
<1>. QED BY <1>4, <1>5, <1>6 DEF Place

-----------------------------------------------------------------------------
(* The effect of one iteration, whichever way it ends                       *)

(***************************************************************************)
(* Placing v changes no other value's register, except that a live one may *)
(* lose it to a slot; if v gets a register it is in the active list and no *)
(* value that is still live and kept has the same one.                     *)
(***************************************************************************)
LEMMA PlaceEffect ==
    ASSUME TypeOK, PoolConserved, NEW v \in Candidates, Place(v)
    PROVE  /\ v \in Value /\ v \in todo /\ todo' = todo \ {v} /\ UNCHANGED input
           /\ \A u \in Value \ {v} : alloc'[u] # alloc[u] =>
                    /\ u \in Live(v) /\ u \notin active'
                    /\ alloc'[u] = InSlot(nextSlot) /\ nextSlot' = nextSlot + 1
           /\ \A u \in Live(v) : u \in active' \/ ~HasReg(u)'
           /\ active' \subseteq Live(v) \cup {v}
           /\ HasReg(v)' => /\ v \in active'
                            /\ RegHeld(v)' \in Reg
                            /\ CrossesCall(v) => RegHeld(v)' \in CalleeSaved
                            /\ \A u \in active' \ {v} : RegHeld(u) # RegHeld(v)'
<1>1. v \in Value /\ v \in todo /\ todo' = todo \ {v} /\ UNCHANGED input /\ v \notin active
  BY DEF Candidates, Place, TypeOK
<1>2. /\ CallerAfter(v) \subseteq CallerSaved
      /\ CalleeAfter(v) \subseteq CalleeSaved
      /\ Live(v) \subseteq active
      /\ Usable(v) \subseteq CallerAfter(v) \cup CalleeAfter(v)
      /\ \A r \in Usable(v) : r \in Reg /\ ~ \E a \in Live(v) : RegHeld(a) = r
  BY <1>1, ExpireFrees DEF Reg
<1>3. CASE TakeFree(v)
  <2>1. PICK r \in Usable(v) : alloc' = [alloc EXCEPT ![v] = InReg(r)]
    BY <1>3 DEF TakeFree
  <2>2. active' = Live(v) \cup {v}
    BY <1>3 DEF TakeFree
  <2>3. alloc'[v] = InReg(r) /\ RegHeld(v)' = r
    BY <1>1, <2>1, AllocationShapes DEF RegHeld, TypeOK
  <2>4. \A u \in Value \ {v} : alloc'[u] = alloc[u]
    BY <2>1 DEF TypeOK
  <2>5. CrossesCall(v) => r \in CalleeSaved
    BY <1>2 DEF Usable
  <2>. QED BY <1>1, <1>2, <2>2, <2>3, <2>4, <2>5
<1>4. CASE SpillActive(v)
  <2>1. PICK c \in Victims(v) :
            /\ alloc' = [alloc EXCEPT ![c] = InSlot(nextSlot), ![v] = alloc[c]]
            /\ active' = (Live(v) \ {c}) \cup {v}
    BY <1>4 DEF SpillActive
  <2>2. /\ c \in Live(v) /\ c \in Value /\ c # v /\ HasReg(c)
        /\ CrossesCall(v) => RegHeld(c) \in CalleeSaved
    BY <1>1, VictimActive
  <2>3. alloc'[v] = alloc[c] /\ RegHeld(v)' = RegHeld(c) /\ RegHeld(c) \in Reg
    BY <1>1, <2>1, <2>2, Shapes DEF RegHeld, TypeOK
  <2>4. /\ alloc'[c] = InSlot(nextSlot) /\ ~HasReg(c)' /\ c \notin active'
        /\ nextSlot' = nextSlot + 1
    BY <1>4, <2>1, <2>2, AllocationShapes DEF HasReg, TypeOK, SpillActive
  <2>5. \A u \in Value \ {v, c} : alloc'[u] = alloc[u]
    BY <2>1 DEF TypeOK
  <2>6. \A u \in active' \ {v} : RegHeld(u) # RegHeld(c)
    BY <1>2, <2>1, <2>2 DEF PoolConserved
  <2>. QED BY <1>1, <1>2, <2>1, <2>2, <2>3, <2>4, <2>5, <2>6
<1>5. CASE SpillSelf(v)
  <2>1. alloc' = [alloc EXCEPT ![v] = InSlot(nextSlot)] /\ active' = Live(v)
    BY <1>5 DEF SpillSelf
  <2>2. ~HasReg(v)' /\ \A u \in Value \ {v} : alloc'[u] = alloc[u]
    BY <1>1, <2>1, AllocationShapes DEF HasReg, TypeOK
  <2>. QED BY <1>1, <1>2, <2>1, <2>2
<1>. QED BY <1>3, <1>4, <1>5 DEF Place

(***************************************************************************)
(* The register pool stays a partition: what is free and what is held.     *)
(***************************************************************************)
LEMMA PlacePoolConserved ==
    ASSUME TypeOK, PoolConserved, NEW v \in Candidates, Place(v)
    PROVE  PoolConserved'
<1>1. v \in Value /\ v \notin active /\ v \notin Live(v)
  BY DEF Candidates, TypeOK, Live
<1>2. Live(v) \subseteq active /\ Live(v) \subseteq Value
  BY DEF Live, TypeOK
<1>3. \A r \in Reg : r \in CallerAfter(v) \cup CalleeAfter(v) <=> ~ \E a \in Live(v) : RegHeld(a) = r
  BY <1>1, ExpireFrees
<1>4. Usable(v) \subseteq Reg /\ Usable(v) \subseteq CallerAfter(v) \cup CalleeAfter(v)
  BY <1>1, ExpireFrees DEF Reg
<1>5. \A a, b \in Live(v) : RegHeld(a) = RegHeld(b) => a = b
  BY <1>2 DEF PoolConserved
<1>6. CASE TakeFree(v)
  <2>1. PICK r \in Usable(v) :
            /\ alloc' = [alloc EXCEPT ![v] = InReg(r)]
            /\ freeCaller' = CallerAfter(v) \ {r}
            /\ freeCallee' = CalleeAfter(v) \ {r}
    BY <1>6 DEF TakeFree
  <2>2. active' = Live(v) \cup {v}
    BY <1>6 DEF TakeFree
  <2>3. RegHeld(v)' = r /\ \A u \in Live(v) : RegHeld(u)' = RegHeld(u)
    BY <1>1, <1>2, <2>1, AllocationShapes DEF RegHeld, TypeOK
  <2>4. r \in Reg /\ ~ \E a \in Live(v) : RegHeld(a) = r
    BY <1>3, <1>4
  <2>5. ASSUME NEW q \in Reg
        PROVE  q \in freeCaller' \cup freeCallee' <=> ~ \E a \in active' : RegHeld(a)' = q
    BY <1>3, <2>1, <2>2, <2>3, <2>4
  <2>6. ASSUME NEW a \in active', NEW b \in active', RegHeld(a)' = RegHeld(b)'
        PROVE  a = b
    BY <1>5, <2>2, <2>3, <2>4, <2>6
  <2>. QED BY <2>5, <2>6 DEF PoolConserved, Reg
<1>7. CASE SpillActive(v)
  <2>1. PICK c \in Victims(v) :
            /\ alloc' = [alloc EXCEPT ![c] = InSlot(nextSlot), ![v] = alloc[c]]
            /\ active' = (Live(v) \ {c}) \cup {v}
    BY <1>7 DEF SpillActive
  <2>2. c \in Live(v) /\ c # v
    BY <1>1, VictimActive
  <2>3. RegHeld(v)' = RegHeld(c) /\ \A u \in Live(v) \ {c} : RegHeld(u)' = RegHeld(u)
    BY <1>1, <1>2, <2>1, <2>2 DEF RegHeld, TypeOK
  <2>4. freeCaller' = CallerAfter(v) /\ freeCallee' = CalleeAfter(v)
    BY <1>7 DEF SpillActive
  <2>5. ASSUME NEW q \in Reg
        PROVE  q \in freeCaller' \cup freeCallee' <=> ~ \E a \in active' : RegHeld(a)' = q
    BY <1>3, <2>1, <2>2, <2>3, <2>4
  <2>6. ASSUME NEW a \in active', NEW b \in active', RegHeld(a)' = RegHeld(b)'
        PROVE  a = b
    BY <1>5, <2>1, <2>2, <2>3, <2>6
  <2>. QED BY <2>5, <2>6 DEF PoolConserved, Reg
<1>8. CASE SpillSelf(v)
  <2>1. /\ alloc' = [alloc EXCEPT ![v] = InSlot(nextSlot)]
        /\ active' = Live(v)
        /\ freeCaller' = CallerAfter(v)
        /\ freeCallee' = CalleeAfter(v)
    BY <1>8 DEF SpillSelf
  <2>2. \A u \in Live(v) : RegHeld(u)' = RegHeld(u)
    BY <1>1, <1>2, <2>1 DEF RegHeld, TypeOK
  <2>. QED BY <1>3, <1>5, <2>1, <2>2 DEF PoolConserved, Reg
<1>. QED BY <1>6, <1>7, <1>8 DEF Place

(***************************************************************************)
(* The sweep only moves right: whoever left the active list ended before   *)
(* everything that is still to come.                                       *)
(***************************************************************************)
LEMMA PlaceSweepOrder ==
    ASSUME TypeOK, PoolConserved, SweepOrder, NEW v \in Candidates, Place(v)
    PROVE  SweepOrder'
<1>1. /\ v \in Value /\ v \in todo /\ todo' = todo \ {v}
      /\ start' = start /\ end' = end
      /\ todo \subseteq Value
  BY PlaceEffect DEF input, TypeOK
<1>2. \A w \in todo : start[v] <= start[w]
  BY DEF Candidates
<1>3. \A u \in Value : start[u] \in Int /\ end[u] \in Int
  BY DEF TypeOK
<1>4. \A u \in Value \ todo', w \in todo' : start'[u] <= start'[w]
  BY <1>1, <1>2 DEF SweepOrder
<1>5. ASSUME NEW u \in Value \ (todo' \cup active'), NEW w \in todo', HasReg(u)'
      PROVE  end'[u] <= start'[w]
  <2>1. u # v
    BY <1>5, PlaceEffect
  <2>2. u \notin Live(v)
    BY <1>5, PlaceEffect
  <2>3. HasReg(u) /\ u \notin todo
    BY <1>1, <1>5, <2>1, <2>2, PlaceEffect DEF HasReg
  <2>4. CASE u \in active
    <3>1. end[u] <= start[v]
      BY <2>2, <2>4 DEF Live, Expired
    <3>2. start[v] <= start[w]
      BY <1>1, <1>2
    <3>. QED BY <1>1, <1>3, <3>1, <3>2
  <2>5. CASE u \notin active
    BY <1>1, <2>3, <2>5 DEF SweepOrder
  <2>. QED BY <2>4, <2>5
<1>. QED BY <1>1, <1>4, <1>5 DEF SweepOrder

(***************************************************************************)
(* A register goes to v only when whoever had it before is over.           *)
(***************************************************************************)
LEMMA PlaceNoSharing ==
    ASSUME IInv, NEW v \in Candidates, Place(v)
    PROVE  NoSharing'
<1>1. TypeOK /\ PoolConserved /\ SweepOrder /\ NoSharing
  BY DEF IInv
<1>2. /\ v \in Value /\ v \in todo
      /\ start' = start /\ end' = end
  BY <1>1, PlaceEffect DEF input
<1>3. ASSUME NEW u \in Value \ {v}, HasReg(u)'
      PROVE  HasReg(u) /\ RegHeld(u)' = RegHeld(u)
  <2>1. alloc'[u] = alloc[u]
    BY <1>1, <1>3, PlaceEffect, AllocationShapes DEF HasReg
  <2>. QED BY <1>3, <2>1 DEF HasReg, RegHeld
<1>4. ASSUME NEW u \in Value \ {v}, HasReg(u)', HasReg(v)', RegHeld(u)' = RegHeld(v)'
      PROVE  end[u] <= start[v]
  <2>1. HasReg(u) /\ RegHeld(u) = RegHeld(v)' /\ u \notin active'
    BY <1>1, <1>3, <1>4, PlaceEffect
  <2>2. u \notin Live(v)
    BY <1>1, <1>4, <2>1, PlaceEffect
  <2>3. CASE u \in active
    BY <2>2, <2>3 DEF Live, Expired
  <2>4. CASE u \notin active
    BY <1>1, <1>2, <2>1, <2>4, Shapes DEF SweepOrder
  <2>. QED BY <2>3, <2>4
<1>5. ASSUME NEW u \in Value, NEW w \in Value, u # w,
             HasReg(u)', HasReg(w)', RegHeld(u)' = RegHeld(w)'
      PROVE  end[u] <= start[w] \/ end[w] <= start[u]
  <2>1. CASE u # v /\ w # v
    BY <1>1, <1>3, <1>5, <2>1 DEF NoSharing
  <2>2. CASE u = v \/ w = v
    BY <1>4, <1>5, <2>2
  <2>. QED BY <2>1, <2>2
<1>. QED BY <1>2, <1>5 DEF NoSharing

-----------------------------------------------------------------------------
(* The invariant and the theorems                                           *)

(***************************************************************************)
(* The inductive invariant holds where the loop starts.                    *)
(***************************************************************************)
LEMMA InitIInv == Init => IInv
<1>. SUFFICES ASSUME Init PROVE IInv
  OBVIOUS
<1>1. TypeOK
  BY InitTypeOK
<1>2. todo = Value /\ active = {} /\ freeCaller = CallerSaved /\ freeCallee = CalleeSaved
  BY DEF Init, LoopInit
<1>3. \A v \in Value : v \in todo /\ ~HasReg(v)
  BY <1>1, <1>2, Shapes
<1>4. SweepOrder
  BY <1>2 DEF Init, SweepOrder
<1>5. PoolConserved
  BY <1>2 DEF PoolConserved, Reg
<1>6. NoSharing
  BY <1>3 DEF NoSharing
<1>. QED BY <1>1, <1>4, <1>5, <1>6 DEF IInv

(***************************************************************************)
(* Every iteration preserves the inductive invariant.                      *)
(***************************************************************************)
LEMMA StepIInv == IInv /\ [Next]_vars => IInv'
<1>. SUFFICES ASSUME IInv, [Next]_vars PROVE IInv'
  OBVIOUS
<1>1. CASE Next
  <2>1. PICK v \in Candidates : Place(v)
    BY <1>1 DEF Next
  <2>. QED BY <2>1, PlaceTypeOK, PlacePoolConserved, PlaceSweepOrder, PlaceNoSharing DEF IInv
<1>2. CASE UNCHANGED vars
  BY <1>2 DEF vars, IInv, TypeOK, SweepOrder, PoolConserved, NoSharing,
              HasReg, RegHeld
<1>. QED BY <1>1, <1>2

(***************************************************************************)
(* The inductive invariant holds in every state of the loop: the types,    *)
(* the order of the sweep, the pool and the registers together.            *)
(***************************************************************************)
THEOREM Invariant == Spec => []IInv
  BY InitIInv, StepIInv, PTL DEF Spec

(***************************************************************************)
(* The loop's state is what its Rust types and the pools allow, and a      *)
(* value has a place exactly when the loop has passed it.                  *)
(***************************************************************************)
THEOREM TypeCorrect == Spec => []TypeOK
<1>1. IInv => TypeOK
  BY DEF IInv
<1>. QED BY <1>1, Invariant, PTL

(***************************************************************************)
(* No register holds two values that are alive together.                   *)
(***************************************************************************)
THEOREM NoSharingAlways == Spec => []NoSharing
<1>1. IInv => NoSharing
  BY DEF IInv
<1>. QED BY <1>1, Invariant, PTL

(***************************************************************************)
(* Every register is free or held by one active value, never both.         *)
(***************************************************************************)
THEOREM PoolConservedAlways == Spec => []PoolConserved
<1>1. IInv => PoolConserved
  BY DEF IInv
<1>. QED BY <1>1, Invariant, PTL

-----------------------------------------------------------------------------
(* Calls                                                                    *)

(***************************************************************************)
(* A value whose interval contains a call is in a callee-saved register or *)
(* in a slot, in every state.                                              *)
(***************************************************************************)
THEOREM CallSafeAlways == Spec => []CallSafe
<1>1. Init => CallSafe
  BY AllocationShapes DEF Init, LoopInit, CallSafe, HasReg
<1>2. IInv /\ CallSafe /\ [Next]_vars => CallSafe'
  <2>. SUFFICES ASSUME IInv, CallSafe, [Next]_vars PROVE CallSafe'
    OBVIOUS
  <2>1. CASE Next
    <3>1. PICK v \in Candidates : Place(v)
      BY <2>1 DEF Next
    <3>2. TypeOK /\ PoolConserved
      BY DEF IInv
    <3>3. ASSUME NEW u \in Value, HasReg(u)', CrossesCall(u)'
          PROVE  RegHeld(u)' \in CalleeSaved
      <4>1. CrossesCall(u)
        BY <3>1, <3>2, <3>3, PlaceEffect DEF CrossesCall, input
      <4>2. CASE u = v
        BY <3>1, <3>2, <3>3, <4>1, <4>2, PlaceEffect
      <4>3. CASE u # v
        <5>1. alloc'[u] = alloc[u]
          BY <3>1, <3>2, <3>3, <4>3, PlaceEffect, AllocationShapes DEF HasReg
        <5>. QED BY <3>3, <4>1, <5>1 DEF CallSafe, HasReg, RegHeld
      <4>. QED BY <4>2, <4>3
    <3>. QED BY <3>3 DEF CallSafe
  <2>2. CASE UNCHANGED vars
    BY <2>2 DEF vars, CallSafe, HasReg, RegHeld, CrossesCall
  <2>. QED BY <2>1, <2>2
<1>. QED BY <1>1, <1>2, Invariant, PTL DEF Spec

(***************************************************************************)
(* Whoever has a callee-saved register, by taking it free or by evicting   *)
(* its holder, the prologue knows of it.                                   *)
(***************************************************************************)
THEOREM CalleeSavedRecordedAlways == Spec => []CalleeSavedRecorded
<1>1. Init => CalleeSavedRecorded
  BY AllocationShapes DEF Init, LoopInit, CalleeSavedRecorded, HasReg
<1>2. IInv /\ CalleeSavedRecorded /\ [Next]_vars => CalleeSavedRecorded'
  <2>. SUFFICES ASSUME IInv, CalleeSavedRecorded, [Next]_vars PROVE CalleeSavedRecorded'
    OBVIOUS
  <2>1. CASE Next
    <3>1. PICK v \in Candidates : Place(v)
      BY <2>1 DEF Next
    <3>2. TypeOK /\ PoolConserved
      BY DEF IInv
    <3>3. v \in Value
      BY <3>1, <3>2, PlaceEffect
    <3>4. usedCallee \subseteq usedCallee'
      BY <3>1 DEF Place, TakeFree, SpillActive, SpillSelf
    <3>5. ASSUME NEW u \in Value, HasReg(u)', RegHeld(u)' \in CalleeSaved
          PROVE  RegHeld(u)' \in usedCallee'
      <4>1. CASE u # v
        <5>1. alloc'[u] = alloc[u]
          BY <3>1, <3>2, <3>5, <4>1, PlaceEffect, AllocationShapes DEF HasReg
        <5>. QED BY <3>4, <3>5, <5>1 DEF CalleeSavedRecorded, HasReg, RegHeld
      <4>2. CASE u = v /\ TakeFree(v)
        <5>1. PICK r \in Usable(v) :
                  /\ alloc' = [alloc EXCEPT ![v] = InReg(r)]
                  /\ usedCallee' = usedCallee \cup ({r} \cap CalleeSaved)
          BY <4>2 DEF TakeFree
        <5>2. RegHeld(v)' = r
          BY <3>2, <3>3, <5>1, AllocationShapes DEF RegHeld, TypeOK
        <5>. QED BY <3>5, <4>2, <5>1, <5>2
      <4>3. CASE u = v /\ SpillActive(v)
        <5>1. PICK c \in Victims(v) : alloc' = [alloc EXCEPT ![c] = InSlot(nextSlot), ![v] = alloc[c]]
          BY <4>3 DEF SpillActive
        <5>2. c \in Value /\ HasReg(c)
          BY <3>2, <3>3, VictimActive
        <5>3. RegHeld(v)' = RegHeld(c)
          BY <3>2, <3>3, <5>1 DEF RegHeld, TypeOK
        <5>. QED BY <3>4, <3>5, <4>3, <5>2, <5>3 DEF CalleeSavedRecorded
      <4>4. CASE u = v /\ SpillSelf(v)
        <5>1. alloc'[v] = InSlot(nextSlot)
          BY <3>2, <3>3, <4>4 DEF SpillSelf, TypeOK
        <5>. QED BY <3>5, <4>4, <5>1, AllocationShapes DEF HasReg
      <4>. QED BY <3>1, <4>1, <4>2, <4>3, <4>4 DEF Place
    <3>. QED BY <3>5 DEF CalleeSavedRecorded
  <2>2. CASE UNCHANGED vars
    BY <2>2 DEF vars, CalleeSavedRecorded, HasReg, RegHeld
  <2>. QED BY <2>1, <2>2
<1>. QED BY <1>1, <1>2, Invariant, PTL DEF Spec

-----------------------------------------------------------------------------
(* Spilling                                                                 *)

(***************************************************************************)
(* A decision is final except that a register may be lost to a slot.       *)
(***************************************************************************)
THEOREM PlacementOnlyDegradesAlways == Spec => PlacementOnlyDegrades
<1>1. IInv /\ [Next]_vars =>
        [\A v \in Value : v \notin todo =>
            alloc'[v] = alloc[v] \/ (HasReg(v) /\ alloc'[v].kind = "slot")]_vars
  <2>. SUFFICES ASSUME IInv, Next, NEW u \in Value, u \notin todo, alloc'[u] # alloc[u]
                PROVE  HasReg(u) /\ alloc'[u].kind = "slot"
    OBVIOUS
  <2>1. PICK v \in Candidates : Place(v)
    BY DEF Next
  <2>2. TypeOK /\ PoolConserved
    BY DEF IInv
  <2>3. u # v /\ u \in Live(v) /\ alloc'[u] = InSlot(nextSlot)
    BY <2>1, <2>2, PlaceEffect
  <2>4. u \in active
    BY <2>3 DEF Live
  <2>. QED BY <2>2, <2>3, <2>4, Shapes, AllocationShapes
<1>. QED BY <1>1, Invariant, PTL DEF Spec, PlacementOnlyDegrades

(***************************************************************************)
(* What becomes spilled in a step is v itself or its victim, in the next   *)
(* unused slot, and only one of the two.                                   *)
(***************************************************************************)
LEMMA OneNewSlot ==
    ASSUME TypeOK, PoolConserved, NEW v \in Candidates, Place(v),
           NEW s \in Value, alloc'[s].kind = "slot", alloc'[s] # alloc[s]
    PROVE  /\ alloc'[s] = InSlot(nextSlot)
           /\ nextSlot' = nextSlot + 1
           /\ \A u \in Value \ {s} : alloc'[u].kind = "slot" => alloc'[u] = alloc[u]
           /\ Usable(v) = {}
           /\ s = v \/ s \in Victims(v)
           /\ s = v => \A c \in Eligible(v) : end[c] <= end[v]
           /\ s # v => end[s] > end[v]
<1>1. v \in Value /\ v \in todo
  BY PlaceEffect
<1>2. CASE TakeFree(v)
  <2>1. PICK r \in Usable(v) : alloc' = [alloc EXCEPT ![v] = InReg(r)]
    BY <1>2 DEF TakeFree
  <2>2. s = v /\ alloc'[v] = InReg(r)
    BY <1>1, <2>1 DEF TypeOK
  <2>. QED BY <2>2, AllocationShapes
<1>3. CASE SpillActive(v)
  <2>1. PICK c \in Victims(v) :
            /\ end[c] > end[v]
            /\ alloc' = [alloc EXCEPT ![c] = InSlot(nextSlot), ![v] = alloc[c]]
    BY <1>3 DEF SpillActive
  <2>2. c \in Value /\ HasReg(c) /\ c # v
    BY <1>1, VictimActive, Shapes
  <2>3. alloc'[c] = InSlot(nextSlot) /\ alloc'[v] = alloc[c]
    BY <1>1, <2>1, <2>2 DEF TypeOK
  <2>4. \A u \in Value \ {c, v} : alloc'[u] = alloc[u]
    BY <2>1 DEF TypeOK
  <2>5. alloc'[v].kind # "slot"
    BY <2>2, <2>3 DEF HasReg
  <2>6. s = c
    BY <2>4, <2>5
  <2>. QED BY <1>3, <2>1, <2>2, <2>3, <2>4, <2>5, <2>6 DEF SpillActive
<1>4. CASE SpillSelf(v)
  <2>1. s = v /\ alloc'[v] = InSlot(nextSlot) /\ \A u \in Value \ {v} : alloc'[u] = alloc[u]
    BY <1>1, <1>4 DEF SpillSelf, TypeOK
  <2>. QED BY <1>4, <2>1 DEF SpillSelf
<1>. QED BY <1>2, <1>3, <1>4 DEF Place

(***************************************************************************)
(* Two spilled values never share a slot.                                  *)
(***************************************************************************)
THEOREM SlotsDisjointAlways == Spec => []SlotsDisjoint
<1>1. Init => SlotsDisjoint
  BY AllocationShapes DEF Init, LoopInit, SlotsDisjoint
<1>2. IInv /\ SlotsDisjoint /\ [Next]_vars => SlotsDisjoint'
  <2>. SUFFICES ASSUME IInv, SlotsDisjoint, [Next]_vars PROVE SlotsDisjoint'
    OBVIOUS
  <2>1. CASE Next
    <3>1. PICK v \in Candidates : Place(v)
      BY <2>1 DEF Next
    <3>2. TypeOK /\ PoolConserved /\ nextSlot \in Nat
      BY DEF IInv, TypeOK
    <3>3. ASSUME NEW s \in Value, NEW u \in Value, s # u, alloc'[s] # alloc[s],
                 alloc'[s].kind = "slot", alloc'[u].kind = "slot"
          PROVE  alloc'[s].slot # alloc'[u].slot
      <4>1. alloc'[s].slot = nextSlot /\ alloc'[u] = alloc[u]
        BY <3>1, <3>2, <3>3, OneNewSlot, AllocationShapes
      <4>2. alloc[u].slot \in 0..(nextSlot - 1)
        BY <3>2, <3>3, <4>1, Shapes
      <4>. QED BY <3>2, <4>1, <4>2
    <3>4. ASSUME NEW s \in Value, NEW u \in Value, s # u,
                 alloc'[s].kind = "slot", alloc'[u].kind = "slot"
          PROVE  alloc'[s].slot # alloc'[u].slot
      BY <3>3, <3>4 DEF SlotsDisjoint
    <3>. QED BY <3>4 DEF SlotsDisjoint
  <2>2. CASE UNCHANGED vars
    BY <2>2 DEF vars, SlotsDisjoint
  <2>. QED BY <2>1, <2>2
<1>. QED BY <1>1, <1>2, Invariant, PTL DEF Spec

(***************************************************************************)
(* Nothing is spilled while a register the new interval may use is free:   *)
(* each is held by an interval that is running at that point.              *)
(***************************************************************************)
THEOREM SpillNeedsPressureAlways == Spec => SpillNeedsPressure
<1>1. IInv /\ [Next]_vars =>
        [nextSlot' # nextSlot =>
            \A v \in todo \ todo' :
                \A r \in (IF CrossesCall(v) THEN CalleeSaved ELSE Reg) :
                    \E a \in active : /\ RegHeld(a) = r
                                      /\ start[a] <= start[v]
                                      /\ start[v] < end[a]]_vars
  <2>. SUFFICES ASSUME IInv, Next, nextSlot' # nextSlot, NEW v \in todo \ todo',
                       NEW r \in (IF CrossesCall(v) THEN CalleeSaved ELSE Reg)
                PROVE  \E a \in active : /\ RegHeld(a) = r
                                         /\ start[a] <= start[v]
                                         /\ start[v] < end[a]
    OBVIOUS
  <2>1. TypeOK /\ PoolConserved /\ SweepOrder
    BY DEF IInv
  <2>2. v \in Candidates /\ Place(v) /\ v \in Value
    BY <2>1, PlaceEffect DEF Next
  <2>3. Usable(v) = {}
    BY <2>2 DEF Place, TakeFree, SpillActive, SpillSelf
  <2>4. r \in Reg /\ r \notin CallerAfter(v) \cup CalleeAfter(v)
    <3>1. CASE CrossesCall(v)
      BY <2>1, <2>2, <2>3, <3>1, ExpireFrees, PoolsAssumption DEF Usable, Reg
    <3>2. CASE ~CrossesCall(v)
      BY <2>3, <3>2 DEF Usable
    <3>. QED BY <3>1, <3>2
  <2>5. PICK a \in Live(v) : RegHeld(a) = r
    BY <2>1, <2>2, <2>4, ExpireFrees
  <2>6. a \in active /\ a \in Value /\ a \notin todo /\ ~(end[a] <= start[v])
    BY <2>1, <2>5 DEF Live, Expired, TypeOK
  <2>7. start[a] <= start[v]
    BY <2>1, <2>6 DEF SweepOrder
  <2>8. start[v] < end[a]
    BY <2>1, <2>2, <2>6 DEF TypeOK
  <2>. QED BY <2>5, <2>6, <2>7, <2>8
<1>. QED BY <1>1, Invariant, PTL DEF Spec, SpillNeedsPressure

(***************************************************************************)
(* What is spilled ends last among the new interval and all running ones:  *)
(* one in a register v may not use would, if it ended later, cross the     *)
(* call that v crosses, and so be in a register v may use.                 *)
(***************************************************************************)
THEOREM SpillsFurthestEndAlways == Spec => SpillsFurthestEnd
<1>1. IInv /\ CallSafe /\ [Next]_vars =>
        [\A v \in todo \ todo' : \A s \in Value :
            (alloc'[s].kind = "slot" /\ alloc[s].kind # "slot") =>
                /\ end[v] <= end[s]
                /\ \A a \in active : start[v] < end[a] => end[a] <= end[s]]_vars
  <2>. SUFFICES ASSUME IInv, CallSafe, Next, NEW v \in todo \ todo', NEW s \in Value,
                       alloc'[s].kind = "slot", alloc[s].kind # "slot"
                PROVE  /\ end[v] <= end[s]
                       /\ \A a \in active : start[v] < end[a] => end[a] <= end[s]
    OBVIOUS
  <2>1. /\ TypeOK /\ PoolConserved /\ SweepOrder
        /\ \A u \in Value : start[u] \in Int /\ end[u] \in Int
    BY DEF IInv, TypeOK
  <2>2. v \in Candidates /\ Place(v) /\ v \in Value /\ v \in todo
    BY <2>1, PlaceEffect DEF Next
  <2>3. /\ s = v \/ s \in Victims(v)
        /\ s = v => \A c \in Eligible(v) : end[c] <= end[v]
        /\ s # v => end[s] > end[v]
    BY <2>1, <2>2, OneNewSlot
  <2>4. end[v] <= end[s]
    BY <2>1, <2>2, <2>3
  <2>5. ASSUME NEW a \in active, start[v] < end[a]
        PROVE  end[a] <= end[s]
    <3>1. a \in Value /\ a \notin todo /\ HasReg(a)
      BY <2>1, Shapes DEF TypeOK
    <3>2. CASE a \in Eligible(v)
      <4>1. CASE s \in Victims(v)
        BY <2>5, <3>2, <4>1 DEF Victims
      <4>2. CASE s = v
        BY <2>1, <2>2, <2>3, <2>5, <3>1, <3>2, <4>2
      <4>. QED BY <2>3, <4>1, <4>2
    <3>3. CASE a \notin Eligible(v)
      <4>1. a \in Live(v)
        BY <2>1, <2>2, <2>5, <3>1 DEF Live, Expired
      <4>2. CrossesCall(v) /\ RegHeld(a) \notin CalleeSaved
        BY <3>3, <4>1 DEF Eligible
      <4>3. ~CrossesCall(a)
        BY <3>1, <4>2 DEF CallSafe
      <4>4. start[a] <= start[v]
        BY <2>1, <2>2, <3>1 DEF SweepOrder
      <4>5. PICK i \in calls : start[v] <= i /\ i <= end[v]
        BY <4>2 DEF CrossesCall
      <4>6. i \in Int
        BY <2>1 DEF TypeOK
      <4>7. ~(start[a] <= i /\ i <= end[a])
        BY <4>3, <4>5 DEF CrossesCall
      <4>. QED BY <2>1, <2>2, <2>4, <3>1, <4>4, <4>5, <4>6, <4>7
    <3>. QED BY <3>2, <3>3
  <2>. QED BY <2>4, <2>5
<1>. QED BY <1>1, Invariant, CallSafeAlways, PTL DEF Spec, SpillsFurthestEnd
=============================================================================
