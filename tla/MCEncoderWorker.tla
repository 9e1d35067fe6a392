-------------------------- MODULE MCEncoderWorker --------------------------
(* The encode worker with either backend.                                  *)
EXTENDS EncoderWorker
=============================================================================
