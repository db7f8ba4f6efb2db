------------------------------- MODULE MCWsOutput -------------------------------
(* Two browsers of which one may be connected, a queue of three events and  *)
(* of one under lag.                                                        *)
EXTENDS WsOutput
=============================================================================
