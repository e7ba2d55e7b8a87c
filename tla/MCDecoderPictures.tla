------------------------- MODULE MCDecoderPictures --------------------------
(* Three reference slots, one buffer more for the frame being decoded, and *)
(* one more yet, as the code has it.  The slots are alike.                 *)
EXTENDS DecoderPictures, TLC

MCBuffers == 0..4
SlotSymmetry == Permutations(RefSlots)
=============================================================================
