-------------------------- MODULE MCApplyAssignments --------------------------
(* Three applies: one holds the lock, one waits, one gives up.              *)
EXTENDS ApplyAssignments, TLC

Plan(mode, hands, print, rest) ==
    [mode |-> mode, hands |-> hands, rows |-> [print |-> print, rest |-> rest]]

\* Two plans differ only in what the fingerprint leaves out.
MCPlans ==
    {Plan("routings", FALSE, "p", "r"), Plan("routings", FALSE, "p", "s"),
     Plan("overwrite", TRUE, "q", "r"), Plan("adapt", FALSE, "q", "r")}

MCColumns == {"none", "other", "p", "q", "r", "s"}

Symmetry == Permutations(Applies)
=============================================================================
