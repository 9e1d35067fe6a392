---------------------------- MODULE MCLifecycle ----------------------------
(* The program with a pool of two frames and two driver buffers.           *)
EXTENDS Lifecycle
=============================================================================
