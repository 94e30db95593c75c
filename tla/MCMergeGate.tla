---------------------------- MODULE MCMergeGate ----------------------------
(***************************************************************************)
(* Small pod-mode graphs for TLC: j joins a and b.                         *)
(***************************************************************************)
EXTENDS MergeGate

CONSTANTS a, b, j

JoinDeps == [t \in Tasks |-> IF t = j THEN {a, b} ELSE {}]
============================================================================
