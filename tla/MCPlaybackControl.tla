-------------------------- MODULE MCPlaybackControl --------------------------
(* Instances of PlaybackControl for TLC: one ordinary file and one without  *)
(* events, and playlists that differ in loop, gap and shuffle.              *)
EXTENDS PlaybackControl

CONSTANTS song, blank

MCPlaylists ==
    {[files |-> <<song, blank>>,  loop |-> TRUE,  gap |-> FALSE, shuffle |-> TRUE],
     [files |-> <<blank>>,        loop |-> TRUE,  gap |-> FALSE, shuffle |-> FALSE],
     [files |-> <<song, song>>,   loop |-> FALSE, gap |-> TRUE,  shuffle |-> FALSE]}
=============================================================================
