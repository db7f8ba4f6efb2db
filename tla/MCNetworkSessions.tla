--------------------------- MODULE MCNetworkSessions ---------------------------
(* Two commands and three sessions: one may take the place of another while *)
(* a third waits.  The sessions are interchangeable in the safety runs.     *)
EXTENDS NetworkSessions, TLC

Symmetry == Permutations(Sessions) \cup Permutations(Callers)
=============================================================================
