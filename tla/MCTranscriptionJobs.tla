-------------------------- MODULE MCTranscriptionJobs --------------------------
(* One slot, room for two jobs in the queue, for three in memory and for    *)
(* the result of one: a fourth job makes the manager forget.                *)
EXTENDS TranscriptionJobs
================================================================================
