-------------------------------- MODULE Wire --------------------------------
(***************************************************************************)
(* The messages of the protocol and the TCP connections they travel on.    *)
(*                                                                         *)
(* Every operation of a client opens one connection, sends one request and *)
(* reads one response; the server starts one thread for each connection.   *)
(* A member of Conn is therefore both a connection and its worker thread.  *)
(* Connections are reused once both ends have let go of them, so Conn      *)
(* bounds how many are open at the same time, not how many are made.       *)
(***************************************************************************)
EXTENDS SecKeyShm

CONSTANTS
    Conn,       \* connections that can be open at the same time
    NoConn,     \* the socket of a client that failed to connect
    NoReq,      \* nothing was sent
    NoRsp       \* nothing was answered

VARIABLE conn

ASSUME WireAssumption ==
    /\ NoConn \notin Conn
    /\ NoReq \notin [cmdType: {"NewOrUpdate", "Check", "Revoke"},
                    clientId: Client, r1: Nonce1 \cup Key,
                    authCode: Client \X (Nonce1 \cup Key)]
    /\ NoRsp \notin [rv: {0, 1, 2}, r2: R2, seckeyid: Int]

\* HMAC-SHA256 of a text under the key "@server+client@"; injective.
Mac(c, text) == <<c, text>>

AuthCode == Client \X (Nonce1 \cup Key)

\* r1 carries the client's nonce when it asks for an agreement, and its
\* present key when it asks for a check or a revocation.
AgreeRequest == [cmdType: {"NewOrUpdate"}, clientId: Client, r1: Nonce1,
                 authCode: AuthCode]
KeyRequest == [cmdType: {"Check", "Revoke"}, clientId: Client, r1: Key,
               authCode: AuthCode]

RequestMsg == AgreeRequest \cup KeyRequest

RespondMsg == [rv: {0, 1, 2}, r2: R2, seckeyid: Int]

\* open: the client's process still holds its end. lost: the server's end
\* was reset before an answer came.
Connection == [st: {"free", "sent", "served", "answered", "lost"},
               client: Client \cup {NoClient}, open: BOOLEAN,
               req: RequestMsg \cup {NoReq}, rsp: RespondMsg \cup {NoRsp}]

FreeConn == [st |-> "free", client |-> NoClient, open |-> FALSE,
             req |-> NoReq, rsp |-> NoRsp]

WireInit == conn = [i \in Conn |-> FreeConn]

FreeConns == {i \in Conn : conn[i].st = "free"}

\* Connections of c that are in use.
ConnsOf(c) == {i \in Conn : conn[i].client = c}
============================================================================
