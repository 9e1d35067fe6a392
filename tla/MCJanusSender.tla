---------------------------- MODULE MCJanusSender ----------------------------
(* The Janus sender with a small ring; a unit makes one packet or two.     *)
EXTENDS JanusSender

CONSTANTS d1, d2
MCEncoded == {[data |-> d1, size |-> 1, is_idr |-> FALSE],
              [data |-> d2, size |-> 2, is_idr |-> TRUE]}
MCDatagrams == {<<"other", "pli">>, <<"bad", "fir">>}
=============================================================================
