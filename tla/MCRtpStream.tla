---------------------------- MODULE MCRtpStream ----------------------------
(* Units of one packet, and of two fragments with a NAL unit behind them.  *)
EXTENDS RtpStream

MCUnits == {<<4>>, <<5, 1>>}
=============================================================================
