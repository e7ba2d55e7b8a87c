--------------------------- MODULE ReferenceSlots ---------------------------
(***************************************************************************)
(* What a decoder promises about its reference frames: every frame of the  *)
(* stream names the slots it refreshes, and once it is decoded these slots *)
(* hold that frame and the others what they held before.  A frame that     *)
(* cannot be decoded changes nothing.  Once the decoder is damaged nothing *)
(* is promised any more.                                                   *)
(***************************************************************************)
EXTENDS Naturals

CONSTANT RefSlots

VARIABLES
    slot,       \* the frame a slot holds, 0 for none
    busy,       \* a frame is being decoded
    pending,    \* the last frame of the stream, and the slots it is to refresh
    begun,      \* the number of frames begun: frames are numbered in this order
    damaged     \* something has happened the promise is not about

vars == <<slot, busy, pending, begun, damaged>>

Init ==
    /\ slot = [s \in RefSlots |-> 0]
    /\ busy = FALSE /\ pending = [frame |-> 0, refresh |-> {}]
    /\ begun = 0 /\ damaged = FALSE

Begin ==
    /\ ~busy /\ busy' = TRUE
    /\ begun' = begun + 1
    /\ \E m \in SUBSET RefSlots : pending' = [frame |-> begun', refresh |-> m]
    /\ UNCHANGED <<slot, damaged>>

\* A frame held in a slot is shown; a key frame then refreshes all slots.
ShowAgain ==
    /\ ~busy /\ busy' = TRUE
    /\ \E s \in RefSlots, m \in {{}, RefSlots} :
          /\ slot[s] # 0
          /\ pending' = [frame |-> slot[s], refresh |-> m]
    /\ UNCHANGED <<slot, begun, damaged>>

Finish ==
    /\ busy /\ busy' = FALSE
    /\ slot' = [s \in RefSlots |-> IF s \in pending.refresh THEN pending.frame ELSE slot[s]]
    /\ UNCHANGED <<pending, begun, damaged>>

Fail ==
    /\ busy /\ busy' = FALSE
    /\ UNCHANGED <<slot, pending, begun, damaged>>

\* Any step at all.
Damage == damaged' = TRUE

Next == Begin \/ ShowAgain \/ Finish \/ Fail \/ Damage

Spec == Init /\ [][Next]_vars
=============================================================================
