--------------------------- MODULE MCJanusClient ---------------------------
(* A page with two sockets at most.                                        *)
EXTENDS JanusClient
=============================================================================
