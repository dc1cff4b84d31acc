----------------------------- MODULE MCFraming -----------------------------
(***************************************************************************)
(* Values of the constants of Framing for TLC: an agreement, which is      *)
(* granted or refused. Other commands leave their socket open like a       *)
(* refused agreement.                                                      *)
(***************************************************************************)
EXTENDS Framing

MCRequests == {<<1, 7>>}

MCAnswers == {<<0>>, <<1, 7>>}
============================================================================
