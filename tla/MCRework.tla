------------------------------ MODULE MCRework ------------------------------
(***************************************************************************)
(* Graphs for TLC: a gate of two criteria and one round, a gate of one     *)
(* criterion and two rounds, and the other gates.                          *)
(***************************************************************************)
EXTENDS Rework

Ask(gate, criteria, maxAttempts, together, disturbances) ==
    [gate |-> gate, criteria |-> criteria, maxAttempts |-> maxAttempts,
     together |-> together, disturbances |-> disturbances]

GraphsToEnd ==
    {Ask("exec", 2, 1, 1, 0), Ask("exec", 2, 0, 1, 1), Ask("exec", 1, 2, 1, 1),
     Ask("exec", 1, 0, 2, 1), Ask("exec", 1, 1, 2, 0), Ask("mixed", 1, 1, 1, 1), Ask("inline", 0, 1, 2, 2),
     Ask("none", 0, 0, 2, 2)}

\* Nothing goes wrong here.
OneCriterion == {Ask("exec", 1, 0, 1, 0)}

\* What follows a second gate is not explored: the run of EndIsEnd leads there.
GatedOnce == ~regated
=============================================================================
