-------------------------- MODULE MCPlaybackTimeline --------------------------
(* One short file for TLC: two events within EMIT_AHEAD_MS of each other,   *)
(* two on a device whose compensation exceeds the lookahead window, and one *)
(* outside the first window, on the last instant of the file.               *)
EXTENDS PlaybackTimeline

MCTimes == <<0, 1, 17, 18, 18>>
MCComp == <<0, 0, 8, 8, 0>>
=============================================================================
