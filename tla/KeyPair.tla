------------------------------- MODULE KeyPair -------------------------------
(***************************************************************************)
(* What the system promises its clients, without workers, connections or   *)
(* two stores: each client and the server hold a key each, and whether it  *)
(* may be used. The server's key changes by an agreement or a revocation   *)
(* and by nothing else, no crash and no restart; the client's follows what *)
(* the server told it, unless the news is lost on the way.                 *)
(***************************************************************************)
CONSTANTS
    Client,
    Registered,  \* the clients the server may agree with
    Key,
    NoKey        \* the key of a side that never agreed

VARIABLES
    server,      \* the server's side of each pair
    client,      \* the client's side
    news         \* what the server told a client that did not hear it yet

pairVars == <<server, client, news>>

Side == [seckey: Key \cup {NoKey}, status: {0, 1}]

NeverAgreed == [seckey |-> NoKey, status |-> 0]

\* News of an agreement say which key may be used from now on, news of a
\* revocation which one may not.
News == [seckey: Key, status: {0, 1}]

NoNews == [seckey |-> NoKey, status |-> 0]

Init ==
    /\ server = [c \in Client |-> NeverAgreed]
    /\ client = [c \in Client |-> NeverAgreed]
    /\ news = [c \in Client |-> NoNews]

\* The client that asked may have gone, and then nobody is told.
Tell(c, n) == news' = news \/ news' = [news EXCEPT ![c] = n]

Agree(c) ==
    /\ c \in Registered
    /\ \E k \in Key :
          LET pair == [seckey |-> k, status |-> 1]
          IN  server' = [server EXCEPT ![c] = pair] /\ Tell(c, pair)
    /\ UNCHANGED client

\* Whoever revokes knows the key that is revoked.
Revoke(c) ==
    /\ server[c].seckey # NoKey
    /\ LET pair == [server[c] EXCEPT !.status = 0]
       IN  server' = [server EXCEPT ![c] = pair] /\ Tell(c, pair)
    /\ UNCHANGED client

\* A client believes a revocation only of the key it holds.
Learn(c) ==
    /\ news[c] # NoNews
    /\ news[c].status = 0 => news[c].seckey = client[c].seckey
    /\ client' = [client EXCEPT ![c] = news[c]]
    /\ news' = [news EXCEPT ![c] = NoNews]
    /\ UNCHANGED server

\* A client gives up, or a crash takes the answers of several with it.
Lose ==
    /\ news' \in [Client -> {NoNews} \cup {news[c] : c \in Client}]
    /\ \A c \in Client : news'[c] \in {NoNews, news[c]}
    /\ UNCHANGED <<server, client>>

Next == Lose \/ \E c \in Client : Agree(c) \/ Revoke(c) \/ Learn(c)

Spec == Init /\ [][Next]_pairVars
============================================================================
