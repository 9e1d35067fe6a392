---------------------------- MODULE MCM2mEncoder ----------------------------
(* The hardware encoder with few buffers.                                  *)
EXTENDS M2mEncoder, TLC

Symmetry == Permutations(Buffers)
=============================================================================
