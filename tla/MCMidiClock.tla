------------------------------ MODULE MCMidiClock ------------------------------
(* One slave, whose latency changes; the generator keeps nothing that would *)
(* let the messages of one slave depend on another.                         *)
EXTENDS MidiClock
=============================================================================
