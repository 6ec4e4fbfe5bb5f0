-------------------------- MODULE MCLinearScanList --------------------------
(* LinearScanList with the smallest pools of two classes.                   *)
EXTENDS LinearScanList, TLC

CONSTANTS t3, s1, s2

OneCaller == <<t3>>
TwoCallee == <<s1, s2>>

ValueSymmetry == Permutations(Value)
=============================================================================
