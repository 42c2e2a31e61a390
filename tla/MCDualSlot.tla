----------------------------- MODULE MCDualSlot -----------------------------
(* Two-slot checkpoint with three payloads, eight generations, two failures. *)
EXTENDS DualSlot
==============================================================================
