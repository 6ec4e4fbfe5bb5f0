--------------------------- MODULE LinearScanList ---------------------------
(***************************************************************************)
(* The linear scan of backend/src/riscv/regalloc.rs (lines 217-314) with   *)
(* the containers of the code: the sorted Vec of intervals, the active Vec *)
(* kept in the order of the ends by partition_point, and the two free      *)
(* lists as stacks.  It implements LinearScan, which has sets.             *)
(***************************************************************************)
EXTENDS Integers, Loops, SequencesExt

CONSTANTS
    Value,        \* the SSA values of the function
    CallerPool,   \* CALLER_SAVED_POOL, in the order of the source
    CalleePool,   \* CALLEE_SAVED_POOL
    MaxIndex      \* the largest instruction index

ASSUME ListPoolsAssumption ==
    /\ IsFiniteSet(Value)
    /\ CallerPool \in Seq(ToSet(CallerPool))
    /\ CalleePool \in Seq(ToSet(CalleePool))
    /\ IsInjective(CallerPool \o CalleePool)
    /\ MaxIndex \in Nat

VARIABLES
    start, end, calls,   \* as in LinearScan
    queue,               \* what is left of sorted_intervals
    active,              \* Vec of <<value, register>>, by increasing end
    callerStack,         \* free_caller_saved, popped and pushed at its end
    calleeStack,         \* free_callee_saved
    usedCallee, alloc, nextSlot

vars == <<start, end, calls, queue, active, callerStack, calleeStack,
          usedCallee, alloc, nextSlot>>

LS == INSTANCE LinearScan WITH
        CallerSaved <- ToSet(CallerPool),
        CalleeSaved <- ToSet(CalleePool),
        todo <- ToSet(queue),
        active <- {a[1] : a \in ToSet(active)},
        freeCaller <- ToSet(callerStack),
        freeCallee <- ToSet(calleeStack)

-----------------------------------------------------------------------------
(* The containers                                                           *)

\* Every order sort_by_key may leave the intervals in: by start, ties as the
\* HashMap iterated.
SortedByStart ==
    {q \in SetToSeqs(Value) :
        \A i, j \in DOMAIN q : i < j => start[q[i]] <= start[q[j]]}

\* What the expire loop removes at index s and what it leaves.
Over(s)    == Keep(active, {a \in ToSet(active) : end[a[1]] <= s})
Running(s) == Keep(active, {a \in ToSet(active) : end[a[1]] > s})

Pushed(s, pool) ==
    LET freed == Keep(Over(s), {a \in ToSet(active) : a[2] \in ToSet(pool)})
    IN  [i \in DOMAIN freed |-> freed[i][2]]

\* Mutant: entries appended instead of inserted.
InsertByEnd_Push(list, a) == Append(list, a)

\* partition_point(|item| item.2 <= end), then insert.
InsertByEnd(list, a) ==
    LET pos == SelectLastInSeq(list, LAMBDA b : end[b[1]] <= end[a[1]])
    IN  InsertAt(list, pos + 1, a)

\* Mutant: the candidate search from the front of the list.
Candidate_Front(list, crosses) ==
    SelectInSeq(list, LAMBDA a : crosses => a[2] \in ToSet(CalleePool))

\* The rposition of a register the new interval could use, 0 for None.
Candidate(list, crosses) ==
    SelectLastInSeq(list, LAMBDA a : crosses => a[2] \in ToSet(CalleePool))

-----------------------------------------------------------------------------

Crosses(v) == \E i \in calls : start[v] <= i /\ i <= end[v]

\* chosen_reg is a pop of one stack; rest is what the two stacks then hold.
TakeFree(v, running, caller, callee) ==
    LET fromCaller == ~Crosses(v) /\ caller # <<>>
        r == IF fromCaller THEN Last(caller) ELSE Last(callee)
    IN  /\ fromCaller \/ callee # <<>>
        /\ callerStack' = IF fromCaller THEN Front(caller) ELSE caller
        /\ calleeStack' = IF fromCaller THEN callee ELSE Front(callee)
        /\ usedCallee' = IF fromCaller THEN usedCallee ELSE usedCallee \cup {r}
        /\ alloc' = [alloc EXCEPT ![v] = LS!InReg(r)]
        /\ active' = InsertByEnd(running, <<v, r>>)
        /\ UNCHANGED nextSlot

Spill(v, running, caller, callee) ==
    LET i == Candidate(running, Crosses(v))
        evict == i # 0 /\ end[running[i][1]] > end[v]
    IN  /\ callee = <<>> /\ (Crosses(v) \/ caller = <<>>)
        /\ callerStack' = caller
        /\ calleeStack' = callee
        /\ UNCHANGED usedCallee
        /\ nextSlot' = nextSlot + 1
        /\ \/ /\ evict
              /\ alloc' = [alloc EXCEPT ![running[i][1]] = LS!InSlot(nextSlot),
                                        ![v] = LS!InReg(running[i][2])]
              /\ active' = InsertByEnd(RemoveAt(running, i), <<v, running[i][2]>>)
           \/ /\ ~evict
              /\ alloc' = [alloc EXCEPT ![v] = LS!InSlot(nextSlot)]
              /\ active' = running

\* One iteration of the loop, on the next interval of the Vec.
Place ==
    /\ queue # <<>>
    /\ LET v == Head(queue)
           s == start[v]
           caller == callerStack \o Pushed(s, CallerPool)
           callee == calleeStack \o Pushed(s, CalleePool)
       IN  TakeFree(v, Running(s), caller, callee) \/ Spill(v, Running(s), caller, callee)
    /\ queue' = Tail(queue)
    /\ UNCHANGED <<start, end, calls>>

Init ==
    /\ start \in [Value -> 0..MaxIndex]
    /\ end \in [Value -> 0..MaxIndex]
    /\ \A v \in Value : start[v] <= end[v]
    /\ calls \in SUBSET (1..MaxIndex)
    /\ queue \in SortedByStart
    /\ active = <<>>
    /\ callerStack = Reverse(CallerPool)
    /\ calleeStack = Reverse(CalleePool)
    /\ usedCallee = {}
    /\ alloc = [v \in Value |-> LS!Unplaced]
    /\ nextSlot = 0

Next == Place

Spec == Init /\ [][Next]_vars

-----------------------------------------------------------------------------

(***************************************************************************)
(* The loop over Vecs does what the loop over sets may do: in particular   *)
(* the rposition it evicts has the furthest end, and the pools it pops     *)
(* from are the ones the set model chooses from (regalloc.rs:234-307).     *)
(***************************************************************************)
ImplementsLinearScan == LS!Spec

(***************************************************************************)
(* The active Vec is sorted by end, as partition_point requires, through   *)
(* every mix of removals from the middle and insertions; each entry is the *)
(* value's allocation; and no register is twice in the free stacks and the *)
(* Vec together, which the sets of LinearScan cannot tell                  *)
(* (regalloc.rs:235-250, 254-262, 269-270, 285-295).                       *)
(***************************************************************************)
ListsSound ==
    /\ \A i, j \in DOMAIN active : i < j => end[active[i][1]] <= end[active[j][1]]
    /\ \A i \in DOMAIN active : alloc[active[i][1]] = LS!InReg(active[i][2])
    /\ IsInjective(callerStack \o calleeStack \o [i \in DOMAIN active |-> active[i][2]])
=============================================================================
