------------------------- MODULE MCAddRemoveChild -------------------------
(* AddRemoveChild for TLC: the frame counter may be kept modulo any        *)
(* number of frames in which the cubes have come and gone, so that the     *)
(* updates there have been can be told from it.                            *)
EXTENDS AddRemoveChild

ASSUME FrameModulusFits == FrameModulus % (Cycle * Every) = 0
===========================================================================
