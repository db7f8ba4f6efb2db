---------------------------- MODULE MCPlayerRouting ----------------------------
(* Two pitches and two instruments, under every strategy, and a third one   *)
(* for a channel that is not split.                                         *)
EXTENDS PlayerRouting, TLC

CONSTANTS low, high, solo

MCRoutings ==
    [strategy : Strategies \ {"single", "first"}, outs : {<<low, high>>}]
    \cup {[strategy |-> "single", outs |-> <<solo>>]}

Symmetry == Permutations(Notes)
=============================================================================
