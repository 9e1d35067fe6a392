----------------------------- MODULE MCFrameHub -----------------------------
(* The frame hub on small pools.                                           *)
EXTENDS FrameHub, TLC

Symmetry == Permutations(Consumers)
=============================================================================
