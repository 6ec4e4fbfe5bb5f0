----------------------------- MODULE LinearScan -----------------------------
(***************************************************************************)
(* The linear-scan loop of backend/src/riscv/regalloc.rs (lines 217-314).  *)
(*                                                                         *)
(* The loop takes the live intervals in the order of their start index and *)
(* gives each SSA value a physical register or a spill slot.  The sort is  *)
(* stable but its input is the iteration of a HashMap, so intervals that   *)
(* start at the same index come in ANY order: `Candidates` is that choice. *)
(*                                                                         *)
(* Here the active list and the two free lists are sets: which register a  *)
(* free list yields, and which of two active intervals with the same end   *)
(* is spilled, is left open.  LinearScanList keeps the Vecs of the code,   *)
(* sorted list and stacks included, and implements this module.            *)
(***************************************************************************)
EXTENDS Integers

CONSTANTS
    Value,        \* the SSA values of the function: keys of func.values
    CallerSaved,  \* CALLER_SAVED_POOL
    CalleeSaved,  \* CALLEE_SAVED_POOL
    MaxIndex      \* the largest instruction index of the function

ASSUME PoolsAssumption ==
    /\ CallerSaved \cap CalleeSaved = {}
    /\ MaxIndex \in Nat

VARIABLES
    start, end,   \* the live interval [start, end] of every value
    calls,        \* call_indices: where the function calls another
    todo,         \* the intervals the loop has not reached
    active,       \* values that hold a register at the current start
    freeCaller,   \* free_caller_saved
    freeCallee,   \* free_callee_saved
    usedCallee,   \* used_callee_saved: what the prologue will save
    alloc,        \* allocations
    nextSlot      \* next_spill_slot, the number of slots at the end

input == <<start, end, calls>>
vars  == <<start, end, calls, todo, active, freeCaller, freeCallee,
           usedCallee, alloc, nextSlot>>

Reg == CallerSaved \cup CalleeSaved

InReg(r)  == [kind |-> "reg", reg |-> r]
InSlot(n) == [kind |-> "slot", slot |-> n]
Unplaced  == [kind |-> "none"]

RegHeld(v) == alloc[v].reg
HasReg(v)  == alloc[v].kind = "reg"

-----------------------------------------------------------------------------
(* Which interval comes next, and what the loop frees before it looks at it *)

\* Mutant: an order in which two intervals with one start block each other.
Candidates_Strict == {v \in todo : \A w \in todo \ {v} : start[v] < start[w]}
Candidates == {v \in todo : \A w \in todo : start[v] <= start[w]}

\* Mutant: an interval retired one index early.
Expired_Early(v) == {a \in active : end[a] <= start[v] + 1}

\* `active[i].2 <= start`: an interval that ends where v starts is over.
Expired(v) == {a \in active : end[a] <= start[v]}
Live(v)    == active \ Expired(v)

\* Mutant: expired caller-saved registers are not pushed back.
CallerAfter_Lost(v) == freeCaller
CallerAfter(v) == freeCaller \cup ({RegHeld(a) : a \in Expired(v)} \cap CallerSaved)
CalleeAfter(v) == freeCallee \cup ({RegHeld(a) : a \in Expired(v)} \cap CalleeSaved)

CrossesCall(v) == \E i \in calls : start[v] <= i /\ i <= end[v]

\* Mutants: a value alive across a call falls back to a caller-saved register;
\* there is no fallback to the callee-saved pool.
Usable_AnyClass(v) ==
    IF CalleeAfter(v) = {} \/ (~CrossesCall(v) /\ CallerAfter(v) # {}) THEN CallerAfter(v) ELSE CalleeAfter(v)

Usable_NoFallback(v) == IF CrossesCall(v) THEN CalleeAfter(v) ELSE CallerAfter(v)

\* The free registers v may take: a value alive across a call only ever a
\* callee-saved one, any other value a caller-saved one while there is one.
Usable(v) ==
    IF CrossesCall(v) \/ CallerAfter(v) = {} THEN CalleeAfter(v) ELSE CallerAfter(v)

\* The live intervals whose register v could use.
Eligible(v) == {a \in Live(v) : CrossesCall(v) => RegHeld(a) \in CalleeSaved}

\* Mutant: the candidate search from the wrong end of the sorted list.
Victims_Nearest(v) == {a \in Eligible(v) : \A b \in Eligible(v) : end[a] <= end[b]}

\* The active interval that would be spilled for v: the furthest end among
\* those whose register v could use.
Victims(v) == {a \in Eligible(v) : \A b \in Eligible(v) : end[b] <= end[a]}

-----------------------------------------------------------------------------
(* One iteration of the loop ends in one of three ways.                     *)

\* Mutants: only values that cross a call report their callee-saved register;
\* an expired interval loses its entry in the result.
TakeFree_Unrecorded(v) ==
    /\ \E r \in Usable(v) :
        /\ alloc' = [alloc EXCEPT ![v] = InReg(r)]
        /\ freeCaller' = CallerAfter(v) \ {r}
        /\ freeCallee' = CalleeAfter(v) \ {r}
        /\ usedCallee' = IF CrossesCall(v) THEN usedCallee \cup {r} ELSE usedCallee
    /\ active' = Live(v) \cup {v}
    /\ UNCHANGED nextSlot

TakeFree_Forgets(v) ==
    /\ \E r \in Usable(v) :
        /\ alloc' = [w \in Value |-> IF w = v THEN InReg(r)
                                     ELSE IF w \in Expired(v) THEN Unplaced ELSE alloc[w]]
        /\ freeCaller' = CallerAfter(v) \ {r}
        /\ freeCallee' = CalleeAfter(v) \ {r}
        /\ usedCallee' = usedCallee \cup ({r} \cap CalleeSaved)
    /\ active' = Live(v) \cup {v}
    /\ UNCHANGED nextSlot

TakeFree(v) ==
    /\ \E r \in Usable(v) :
        /\ alloc' = [alloc EXCEPT ![v] = InReg(r)]
        /\ freeCaller' = CallerAfter(v) \ {r}
        /\ freeCallee' = CalleeAfter(v) \ {r}
        /\ usedCallee' = usedCallee \cup ({r} \cap CalleeSaved)
    /\ active' = Live(v) \cup {v}
    /\ UNCHANGED nextSlot

\* Mutant: the slot given to the victim is not counted.
SpillActive_SameSlot(v) ==
    /\ Usable(v) = {}
    /\ \E c \in Victims(v) :
        /\ end[c] > end[v]
        /\ alloc' = [alloc EXCEPT ![c] = InSlot(nextSlot), ![v] = alloc[c]]
        /\ active' = (Live(v) \ {c}) \cup {v}
    /\ freeCaller' = CallerAfter(v)
    /\ freeCallee' = CalleeAfter(v)
    /\ UNCHANGED <<nextSlot, usedCallee>>

\* The victim moves to a fresh slot for its whole life and v has its register.
SpillActive(v) ==
    /\ Usable(v) = {}
    /\ \E c \in Victims(v) :
        /\ end[c] > end[v]
        /\ alloc' = [alloc EXCEPT ![c] = InSlot(nextSlot), ![v] = alloc[c]]
        /\ active' = (Live(v) \ {c}) \cup {v}
    /\ freeCaller' = CallerAfter(v)
    /\ freeCallee' = CalleeAfter(v)
    /\ nextSlot' = nextSlot + 1
    /\ UNCHANGED usedCallee

\* Mutant: the new interval is entered in the active list without a register.
SpillSelf_Active(v) ==
    /\ Usable(v) = {}
    /\ \A c \in Eligible(v) : end[c] <= end[v]
    /\ alloc' = [alloc EXCEPT ![v] = InSlot(nextSlot)]
    /\ active' = Live(v) \cup {v}
    /\ freeCaller' = CallerAfter(v)
    /\ freeCallee' = CalleeAfter(v)
    /\ nextSlot' = nextSlot + 1
    /\ UNCHANGED usedCallee

SpillSelf(v) ==
    /\ Usable(v) = {}
    /\ \A c \in Eligible(v) : end[c] <= end[v]
    /\ alloc' = [alloc EXCEPT ![v] = InSlot(nextSlot)]
    /\ active' = Live(v)
    /\ freeCaller' = CallerAfter(v)
    /\ freeCallee' = CalleeAfter(v)
    /\ nextSlot' = nextSlot + 1
    /\ UNCHANGED usedCallee

Place(v) ==
    /\ todo' = todo \ {v}
    /\ UNCHANGED input
    /\ TakeFree(v) \/ SpillActive(v) \/ SpillSelf(v)

-----------------------------------------------------------------------------

\* The state the loop starts from, for the intervals already in start and end.
LoopInit ==
    /\ todo = Value
    /\ active = {}
    /\ freeCaller = CallerSaved
    /\ freeCallee = CalleeSaved
    /\ usedCallee = {}
    /\ alloc = [v \in Value |-> Unplaced]
    /\ nextSlot = 0

Init ==
    /\ start \in [Value -> 0..MaxIndex]
    /\ end \in [Value -> 0..MaxIndex]
    /\ \A v \in Value : start[v] <= end[v]
    /\ calls \in SUBSET (1..MaxIndex)
    /\ LoopInit

Next == \E v \in Candidates : Place(v)

Spec == Init /\ [][Next]_vars

\* The for loop runs on: nothing in it waits.
FairSpec == Spec /\ WF_vars(Next)

-----------------------------------------------------------------------------
(* What the loop promises                                                   *)

(***************************************************************************)
(* Every value the loop has reached has one place, and what is active has  *)
(* a register (regalloc.rs:17-28, 224-232).                                *)
(***************************************************************************)
TypeOK ==
    /\ start \in [Value -> 0..MaxIndex]
    /\ end \in [Value -> 0..MaxIndex]
    /\ calls \subseteq 1..MaxIndex
    /\ todo \subseteq Value
    /\ active \subseteq Value \ todo
    /\ freeCaller \subseteq CallerSaved
    /\ freeCallee \subseteq CalleeSaved
    /\ usedCallee \subseteq CalleeSaved
    /\ nextSlot \in Nat
    /\ DOMAIN alloc = Value
    /\ \A v \in Value :
        \/ v \in todo /\ alloc[v] = Unplaced
        \/ v \notin todo /\ \E r \in Reg : alloc[v] = InReg(r)
        \/ v \notin todo /\ v \notin active /\ \E n \in 0..(nextSlot - 1) : alloc[v] = InSlot(n)

(***************************************************************************)
(* Two values never hold the same register while both intervals run: the   *)
(* reason the generated code computes anything.  The expiry test, the      *)
(* eviction of an active interval and the order of the loop must agree for *)
(* it to hold (regalloc.rs:234-307).                                       *)
(***************************************************************************)
NoSharing ==
    \A v, w \in Value :
        (v # w /\ HasReg(v) /\ HasReg(w) /\ RegHeld(v) = RegHeld(w))
            => (end[v] <= start[w] \/ end[w] <= start[v])

(***************************************************************************)
(* Registers are neither lost nor handed out twice by the expire, pop and  *)
(* evict steps: every register is free or held by exactly one active value *)
(* (regalloc.rs:235-250, 254-262, 285-295).                                *)
(***************************************************************************)
PoolConserved ==
    /\ \A r \in Reg : r \in freeCaller \cup freeCallee <=> ~ \E a \in active : RegHeld(a) = r
    /\ \A a, b \in active : RegHeld(a) = RegHeld(b) => a = b

(***************************************************************************)
(* A value whose interval contains a call never sits in a register the     *)
(* callee may overwrite, not even one it inherits from an evicted interval *)
(* (regalloc.rs:252-262, 273-283; README "Register Allocation").           *)
(***************************************************************************)
CallSafe ==
    \A v \in Value : HasReg(v) /\ CrossesCall(v) => RegHeld(v) \in CalleeSaved

(***************************************************************************)
(* Every callee-saved register some value was given is in                  *)
(* used_callee_saved, so that the prologue saves it, also when the         *)
(* register changed hands by an eviction, which does not add to the set    *)
(* (regalloc.rs:265-267, 285-295).                                         *)
(***************************************************************************)
CalleeSavedRecorded ==
    \A v \in Value : HasReg(v) /\ RegHeld(v) \in CalleeSaved => RegHeld(v) \in usedCallee

(***************************************************************************)
(* No two spilled values share a stack slot, and all slots lie below       *)
(* num_spill_slots, which sizes the frame (regalloc.rs:289, 297, 312).     *)
(***************************************************************************)
SlotsDisjoint ==
    \A v, w \in Value :
        (v # w /\ alloc[v].kind = "slot" /\ alloc[w].kind = "slot")
            => alloc[v].slot # alloc[w].slot

(***************************************************************************)
(* What makes NoSharing inductive: the loop visits intervals in the order  *)
(* of their start, and a value that has a register but is no longer active *)
(* ended before anything that is still to come (regalloc.rs:218-250).      *)
(***************************************************************************)
SweepOrder ==
    /\ \A v \in Value : start[v] <= end[v]
    /\ \A v \in Value \ todo, w \in todo : start[v] <= start[w]
    /\ \A v \in Value \ (todo \cup active), w \in todo : HasReg(v) => end[v] <= start[w]

\* The inductive invariant of LinearScanProofs.
IInv == TypeOK /\ SweepOrder /\ PoolConserved /\ NoSharing

(***************************************************************************)
(* A value is spilled only under real pressure: at that moment every       *)
(* register it could have used is held by an interval that is running      *)
(* (regalloc.rs:254-262; README "register pressure exceeds capacity").     *)
(***************************************************************************)
SpillNeedsPressure ==
    [][nextSlot' # nextSlot =>
        \A v \in todo \ todo' :
            \A r \in (IF CrossesCall(v) THEN CalleeSaved ELSE Reg) :
                \E a \in active : /\ RegHeld(a) = r
                                  /\ start[a] <= start[v]
                                  /\ start[v] < end[a]]_vars

(***************************************************************************)
(* What goes to the stack is the live range with the furthest end, among   *)
(* the new interval and ALL that are running.  The rposition looks only at *)
(* those whose register class suits the new interval; that this passes     *)
(* over none that ends later takes the class rule for every earlier one    *)
(* (regalloc.rs:272-286; README "live ranges with the furthest end points  *)
(* are spilled").                                                          *)
(***************************************************************************)
SpillsFurthestEnd ==
    [][\A v \in todo \ todo' : \A s \in Value :
        (alloc'[s].kind = "slot" /\ alloc[s].kind # "slot") =>
            /\ end[v] <= end[s]
            /\ \A a \in active : start[v] < end[a] => end[a] <= end[s]]_vars

(***************************************************************************)
(* A decision is final but for one thing: a value in a register may later  *)
(* be evicted to a slot.  A spilled value is never given a register and no *)
(* value changes register (lower_inst reads one location per value).       *)
(***************************************************************************)
PlacementOnlyDegrades ==
    [][\A v \in Value : v \notin todo =>
        alloc'[v] = alloc[v] \/ (HasReg(v) /\ alloc'[v].kind = "slot")]_vars

(***************************************************************************)
(* The loop ends with a place for every value.                             *)
(***************************************************************************)
AllPlaced == <>(\A v \in Value : alloc[v] # Unplaced)
=============================================================================
