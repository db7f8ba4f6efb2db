---------------------------- MODULE MCFileLibrary ----------------------------
(* Two commands in flight besides the synchronous ones, two files and three  *)
(* contents: enough for one command to replace, copy or collect what another *)
(* one is about to use.                                                      *)
EXTENDS FileLibrary, TLC

\* Past an overlap the invariants promise nothing: such states are not explored.
Isolated == ~overlap

AnyWorker == Permutations(Workers)
=============================================================================
