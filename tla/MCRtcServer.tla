---------------------------- MODULE MCRtcServer ----------------------------
(* Instances of RtcServer for TLC: one run per configuration file.         *)
EXTENDS RtcServer

User(parts)     == [type |-> "USERNAME", parts |-> parts]
Hmac(verifies)  == [type |-> "MESSAGE-INTEGRITY", verifies |-> verifies]
Stun(type, seq) == [type |-> type, whole |-> TRUE, attributes |-> seq]

\* A check as browsers send it, one with the username the other way round,
\* and what must not pass for one: another password, none, a second HMAC that
\* is looked at too late, another viewer's name, one part, three parts, a
\* message cut short, an indication.
MCMessages ==
  LET Good == <<User(<<"local", "other">>), Hmac(TRUE)>> IN
  {Stun("request", Good),
   Stun("request", <<Hmac(TRUE), User(<<"other", "local">>)>>),
   Stun("request", <<User(<<"local", "other">>), Hmac(FALSE)>>),
   Stun("request", <<User(<<"local", "other">>)>>),
   Stun("request", <<User(<<"local", "other">>), Hmac(FALSE), Hmac(TRUE)>>),
   Stun("request", <<User(<<"other", "other">>), Hmac(TRUE)>>),
   Stun("request", <<User(<<"local">>), Hmac(TRUE)>>),
   Stun("request", <<User(<<"other", "local", "other">>), Hmac(TRUE)>>),
   [Stun("request", Good) EXCEPT !.whole = FALSE],
   Stun("indication", <<>>)}
=============================================================================
