---------------------------- MODULE MCLinearScan ----------------------------
(* LinearScan over every set of intervals of a few values.                  *)
EXTENDS LinearScan
=============================================================================
