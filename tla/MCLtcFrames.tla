---------------------------- MODULE MCLtcFrames -----------------------------
(* Two recordings of twelve frames: over the change of day, and before one *)
(* in which the digits are large.                                          *)
EXTENDS LtcFrames

MCStarts == {At(23, 59, 59, 20), At(19, 37, 57, 23)}
=============================================================================
