-------------------------------- MODULE Loops --------------------------------
(***************************************************************************)
(* A loop over a Vec that leaves or takes out what meets a condition:      *)
(* retain in the optimizer, the expire loop of the register allocator.     *)
(***************************************************************************)
EXTENDS Integers, Sequences

\* The entries of list that are in S, in the order a loop over it meets them.
Keep(list, S) ==
    LET kept[i \in 0..Len(list)] ==
            IF i = 0 THEN <<>>
            ELSE IF list[i] \in S THEN Append(kept[i - 1], list[i]) ELSE kept[i - 1]
    IN  kept[Len(list)]
=============================================================================
