--------------------------- MODULE MCKeyAgreement ---------------------------
(* Values of the constants for TLC, shared by all runs of KeyAgreement.    *)
EXTENDS KeyAgreement, TLC

CONSTANTS c1, c2, i1, i2, m1, m2, n1, n2

OneClient == {c1}
TwoClients == {c1, c2}
One_r1 == {m1}
Two_r1 == {m1, m2}
One_r2 == {n1}
Two_r2 == {n1, n2}
OneConn == {i1}
TwoConns == {i1, i2}

\* A negative int is dropped by the encoder, any other one arrives.
AnyGarbage == {-1, 99}
PlainGarbage == {99}

\* Nothing in the specification tells two nonces or two connections apart, nor
\* two clients that are both registered.
Symmetry == Permutations({m1, m2}) \cup Permutations({n1, n2})
            \cup Permutations({i1, i2})

ClientSymmetry == Symmetry \cup Permutations({c1, c2})

\* Where calls on the table have met, the properties of Workers claim nothing more,
\* and without a crash the server does not start anew: TLC need not go on.
Unmet == ~met
============================================================================
