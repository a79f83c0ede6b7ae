-------------------------- MODULE MCExtentProcess ---------------------------
(* ExtentProcess with extents of up to two blocks on a disk of four: a put *)
(* over a longer extent leaves a slot behind, and the disk fills up.       *)
EXTENDS ExtentProcess

MCPayloads == {<<1>>, <<2, 3>>}
=============================================================================
