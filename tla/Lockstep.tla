------------------------------ MODULE Lockstep ------------------------------
(***************************************************************************)
(* What the co-simulation promises: z486 and the reference are two         *)
(* followers of one stream of instructions, faults and interrupts.         *)
(* Whichever is ahead fixes the next entry and the other has to take the   *)
(* same one; the reference is never more than one entry ahead, nor z486    *)
(* more than Lag.  A processor that went wrong ends the promise; a reset   *)
(* or a restored state starts both again at the same place.                *)
(***************************************************************************)
EXTENDS Naturals, Sequences, SequencesExt

CONSTANT Lag

VARIABLES
  hw,      \* what z486 has done since the reset
  rf,      \* what the reference has done
  broken,  \* z486 went wrong
  saved    \* <<hw, rf, broken>> of the kept state

lvars == <<hw, rf, broken, saved>>

Together == IsPrefix(hw, rf) \/ IsPrefix(rf, hw)
Near == Len(rf) <= Len(hw) + 1 /\ Len(hw) <= Len(rf) + Lag

LInit == hw = <<>> /\ rf = <<>> /\ broken = FALSE /\ saved = <<hw, rf, broken>>

Advance == /\ ~broken
           /\ IsPrefix(hw, hw') /\ IsPrefix(rf, rf') /\ Together' /\ Near'
           /\ UNCHANGED <<broken, saved>>
Restart == hw' = <<>> /\ rf' = <<>> /\ ~broken' /\ UNCHANGED saved
\* A checkpoint keeps both as they are, a snapshot the reference alone.
Save    == saved' \in {<<hw, rf, broken>>, <<rf, rf, FALSE>>} /\ UNCHANGED <<hw, rf, broken>>
Restore == <<hw', rf', broken'>> = saved /\ UNCHANGED saved
Broken  == broken' /\ UNCHANGED saved

LNext == Advance \/ Restart \/ Save \/ Restore \/ Broken
LSpec == LInit /\ [][LNext]_lvars
=============================================================================
