------------------------------ MODULE SlotStore ------------------------------
(***************************************************************************)
(* What the over-the-air update promises to the device: two slots, each    *)
(* empty or holding one complete image; the slot the processor runs from   *)
(* is never touched, the other one is filled in a single step and is empty *)
(* before that; a restart runs the chosen slot or, if that is empty, the   *)
(* other one.  Erasing, downloading, verifying and signing, and the loss   *)
(* of power between any two of their flash operations, do not show.        *)
(***************************************************************************)
EXTENDS Naturals

CONSTANTS
    Images,     \* the images there are
    Empty       \* a slot without an image

VARIABLES
    slot,       \* what each of the two slots holds
    active,     \* the slot the processor runs from
    chosen      \* the slot to run from after a restart

slotVars == <<slot, active, chosen>>

Spare(i) == 3 - i

SlotInit ==
    /\ slot[1] \in Images /\ slot[2] = Empty
    /\ active = 1 /\ chosen = 1

(* The slot that does not run loses its image, or receives one.            *)
Discard ==
    /\ slot' = [slot EXCEPT ![Spare(active)] = Empty]
    /\ UNCHANGED <<active, chosen>>

Install ==
    /\ slot[Spare(active)] = Empty
    /\ \E f \in Images : slot' = [slot EXCEPT ![Spare(active)] = f]
    /\ UNCHANGED <<active, chosen>>

Select ==
    /\ chosen' \in {1, 2}
    /\ UNCHANGED <<slot, active>>

Restart ==
    /\ active' = IF slot[chosen] # Empty THEN chosen ELSE Spare(chosen)
    /\ slot[active'] \in Images
    /\ UNCHANGED <<slot, chosen>>

SlotNext == Discard \/ Install \/ Select \/ Restart

SlotSpec == SlotInit /\ [][SlotNext]_slotVars
=============================================================================
