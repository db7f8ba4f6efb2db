--------------------------- MODULE MCVoiceTracking ---------------------------
(* Three pitches on an instrument with two voices, which TLC explores for   *)
(* every file with at most three notes in their voice slots or their gates.   *)
EXTENDS VoiceTracking
=============================================================================
