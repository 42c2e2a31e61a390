---------------------------- MODULE MCPulseCounter ----------------------------
(* A counter of 0 .. 7 that is drained from 5 on: several drains and cuts.     *)
EXTENDS PulseCounter
=============================================================================
