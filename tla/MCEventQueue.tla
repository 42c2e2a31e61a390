---------------------------- MODULE MCEventQueue ----------------------------
(* The queue with small segments: rollover, torn tails and sweeps all occur. *)
EXTENDS EventQueue
==============================================================================
