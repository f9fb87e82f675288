------------------------------- MODULE MCFrames ------------------------------
(* Instances of the frames model for TLC: a scalar of four bytes and an array *)
(* of two words.                                                            *)
EXTENDS FramesProperties

MCStride == [x \in Var |-> IF x = "n" THEN 4 ELSE 8]
MCCells  == [x \in Var |-> IF x = "n" THEN 1 ELSE 2]
=============================================================================
