------------------------------ MODULE MCCipher ------------------------------
(* Values of the constants of Cipher for TLC.                              *)
EXTENDS Cipher

CONSTANTS c1, m1, n1

MCClient == {c1}
MCNonce1 == {m1}
MCNonce2 == {n1}

\* A zero, which might end a text too early, and what never ends one.
MCAnything == {0, 255}
============================================================================
