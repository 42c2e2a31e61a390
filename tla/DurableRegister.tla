--------------------------- MODULE DurableRegister ---------------------------
(***************************************************************************)
(* What the firmware expects of each of its three checkpoint records       *)
(* (totalizer Checkpoint, queue AckRec, queue FailureState): a register    *)
(* with a working copy in RAM and a durable copy that changes only in one  *)
(* indivisible step.  A power cut loses the working copy and nothing else. *)
(* DualSlot is the ping-pong implementation; EventQueue and Pipeline use   *)
(* the register at this level.                                             *)
(***************************************************************************)
CONSTANTS
    Value,   \* what a checkpoint record can hold
    Zero     \* the zeroed record of a device that never persisted one

VARIABLES
    durable, \* what a boot recovers
    ram,     \* the working copy
    up       \* is the device powered?

vars == <<durable, ram, up>>

Init == durable = Zero /\ ram = Zero /\ up = TRUE

\* The fields are updated in RAM; nothing is durable yet.
Update(v) == up /\ ram' = v /\ UNCHANGED <<durable, up>>

\* persist_(): the working copy becomes the durable one.
Persist == up /\ durable' = ram /\ UNCHANGED <<ram, up>>

\* Power is lost; the durable copy survives.
Cut == up /\ up' = FALSE /\ UNCHANGED <<durable, ram>>

\* begin(): the working copy is reloaded.
Boot == ~up /\ up' = TRUE /\ ram' = durable /\ UNCHANGED durable

Next == (\E v \in Value : Update(v)) \/ Persist \/ Cut \/ Boot

Spec == Init /\ [][Next]_vars
==============================================================================
