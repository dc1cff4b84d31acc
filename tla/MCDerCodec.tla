----------------------------- MODULE MCDerCodec -----------------------------
(* Values of the constants of DerCodec for TLC.                            *)
EXTENDS DerCodec

\* A text of n characters, and the 0 at its end.
Chars(ch, n) == [j \in 1..n + 1 |-> IF j <= n THEN ch ELSE 0]

\* clientId takes up to 11 characters; r1 is a nonce of 63, a key of 40, or
\* the empty key of a node that was not found. With 49 characters between them
\* the sequence has 127, 128 or 129 octets.
MCRequestMsgs ==
    {[cmdType |-> cmd, clientId |-> Chars(65, n), authCode |-> Chars(66, 64),
      serverId |-> Chars(67, 1), r1 |-> Chars(68, r)] :
        cmd \in 1..3, n \in 1..11, r \in {0, 40, 63}}

\* seckeyid on both sides of every change of size, and below zero.
Ids == {-2147483647, -1, 0, 127, 128, 255, 256, 32767, 32768, 65535, 65536,
        8388607, 8388608, 16777215, 16777216, 2147483647}

\* An r2 without a 0, and what is behind it in the struct: the octets of seckeyid,
\* which end the text at their first 0, or the memory behind them does.
Unset64(octets) == [j \in 1..64 |-> 88] \o octets

UnendedMsgs ==
    {[rv |-> 2, clientId |-> Chars(65, 1), serverId |-> Chars(67, 1),
      r2 |-> Unset64(id[2]), seckeyid |-> id[1]] :
        id \in {<<0, <<0>>>>, <<127, <<127, 0>>>>, <<65536, <<0>>>>,
                <<2147483647, <<255, 255, 255, 127, 9, 9, 0>>>>,
                <<-2147483647, <<1, 0>>>>, <<-1, <<255, 255, 255, 255, 0>>>>}}

MCRespondMsgs == UnendedMsgs \cup
    {[rv |-> rv, clientId |-> Chars(65, n), serverId |-> Chars(67, 1),
      r2 |-> Chars(68, r), seckeyid |-> id] :
        rv \in 0..2, n \in {1, 11}, r \in {0, 63}, id \in Ids}
============================================================================
