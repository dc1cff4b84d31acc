------------------------------ MODULE KeyClient ------------------------------
(***************************************************************************)
(* The client program (class ClientOperation and the menu loop of main).   *)
(* A client is sequential: it waits at the menu, or for the answer to its  *)
(* one request. Its table is a shared-memory segment, kept by the kernel   *)
(* when the process ends and recognised by the next one (the constructor   *)
(* of the client's SecKeyShm), so a client that dies is back at the menu   *)
(* with its key. The menu entry View only prints; it changes nothing.      *)
(***************************************************************************)
EXTENDS KeyServer

VARIABLES
    cshm,   \* the client's own table, one slot
    creq,   \* the request it waits for, NoReq at the menu
    cur,    \* its socket, NoConn when connectToHost failed
    cbuf,   \* the buffer an unset inData would point to
    sure,   \* history: clients that know the outcome of all they have asked
    alone   \* history: clients whose present request found none before it

clientVars == <<cshm, creq, cur, cbuf, sure, alone>>

ClientTypeOK ==
    /\ cshm \in [Client -> [1..1 -> NodeSHMInfo]]
    /\ creq \in [Client -> RequestMsg \cup {NoReq}]
    /\ cur \in [Client -> Conn \cup {NoConn}]
    /\ cbuf \in [Client -> RespondMsg \cup {NoRsp}]
    /\ sure \subseteq Client
    /\ alone \subseteq Client

ClientInit ==
    /\ cshm = [c \in Client |-> ZeroTable(1)]
    /\ creq = [c \in Client |-> NoReq]
    /\ cur = [c \in Client |-> NoConn]
    /\ cbuf = [c \in Client |-> NoRsp]
    /\ sure = Client
    /\ alone = {}

AtMenu(c) == creq[c] = NoReq

OwnKey(c) == ShmRead(cshm[c], c)

\* The client's end of its connection is gone. A connection the server is
\* still busy with lives on without it.
Hangup(c) ==
    IF cur[c] = NoConn THEN conn
    ELSE [conn EXCEPT ![cur[c]] =
            IF conn[cur[c]].st \in {"answered", "lost"} THEN FreeConn
            ELSE [conn[cur[c]] EXCEPT !.open = FALSE]]

BackToMenu(c) ==
    /\ creq' = [creq EXCEPT ![c] = NoReq]
    /\ cur' = [cur EXCEPT ![c] = NoConn]
    /\ alone' = alone \ {c}

-----------------------------------------------------------------------------
(* The requests.                                                           *)

\* msgEncode, connectToHost, sendMsg. Nobody looks at the result of
\* connectToHost: without a server the client goes on to sendMsg, and writing to
\* a socket that never connected ends its process (SIGPIPE; ReceiveDies).
Request(c, req) ==
    /\ AtMenu(c)
    /\ creq' = [creq EXCEPT ![c] = req]
    /\ IF up = "up"
       THEN \E i \in FreeConns :
              /\ cur' = [cur EXCEPT ![c] = i]
              /\ conn' = [conn EXCEPT ![i] = [st |-> "sent", client |-> c,
                            open |-> TRUE, req |-> req, rsp |-> NoRsp]]
       ELSE UNCHANGED <<conn, cur>>
    /\ alone' = IF ConnsOf(c) = {} THEN alone \cup {c} ELSE alone
    /\ UNCHANGED <<serverVars, cshm, cbuf, sure>>

\* secKeyAgree up to recvMsg.
SecKeyAgree(c) ==
    \E r1 \in Nonce1 :
       Request(c, [cmdType |-> "NewOrUpdate", clientId |-> c, r1 |-> r1,
                   authCode |-> Mac(c, r1)])

\* secKeyCheck and secKeyRevoke up to recvMsg: only a usable key is sent.
SendKey(c, cmd) ==
    /\ OwnKey(c).status = 1
    /\ Request(c, [cmdType |-> cmd, clientId |-> c, r1 |-> OwnKey(c).seckey,
                   authCode |-> Mac(c, OwnKey(c).seckey)])

SecKeyCheck(c) == SendKey(c, "Check")

SecKeyRevoke(c) == SendKey(c, "Revoke")

\* The process dies between connectToHost and sendMsg: the server accepts a
\* connection on which nothing will arrive.
ConnectOnly(c) ==
    /\ "noSend" \in Faults
    /\ AtMenu(c)
    /\ up = "up"
    /\ \E i \in FreeConns :
          conn' = [conn EXCEPT ![i] = [st |-> "sent", client |-> c,
                     open |-> FALSE, req |-> NoReq, rsp |-> NoRsp]]
    /\ cbuf' = [cbuf EXCEPT ![c] = NoRsp]
    /\ UNCHANGED <<serverVars, cshm, creq, cur, sure, alone>>

-----------------------------------------------------------------------------
(* The answers.                                                            *)

Agreed(c, rsp) == [status |-> 1, seckeyID |-> rsp.seckeyid, clientID |-> c,
                   seckey |-> <<creq[c].r1, rsp.r2>>]

\* Mutant: an agreement the server refused is stored like one it made.
AfterAgreeAnyRv(c, rsp) == ShmWrite(cshm[c], Agreed(c, rsp))

\* secKeyAgree: rv 1 and 2 are refusals, any other one yields a key.
AfterAgree(c, rsp) ==
    IF rsp.rv \in {1, 2} THEN cshm[c] ELSE ShmWrite(cshm[c], Agreed(c, rsp))

\* secKeyRevoke: only rv 1 is a refusal.
AfterRevoke(c, rsp) ==
    IF rsp.rv = 1 THEN cshm[c]
    ELSE ShmWrite(cshm[c], [OwnKey(c) EXCEPT !.status = 0])

\* The client's table after a decoded response. secKeyCheck only prints.
TableAfter(c, rsp) ==
    CASE creq[c].cmdType = "NewOrUpdate" -> AfterAgree(c, rsp)
      [] creq[c].cmdType = "Revoke" -> AfterRevoke(c, rsp)
      [] creq[c].cmdType = "Check" -> cshm[c]

\* The history of c after an answer: an agreement leaves no doubt, unless an
\* earlier request of c was still on its way.
SureAfter(c, rsp) ==
    IF creq[c].cmdType = "NewOrUpdate" /\ rsp.rv = 0 /\ c \in alone
    THEN sure \cup {c} ELSE sure

\* The history of c after it missed an answer.
SureWithout(c) == IF creq[c].cmdType = "Check" THEN sure ELSE sure \ {c}

Answered(c) == ~AtMenu(c) /\ cur[c] \in Conn /\ conn[cur[c]].st = "answered"

\* recvMsg and msgDecode succeed, and the rest of the operation runs.
ReceiveAnswer(c) ==
    LET rsp == conn[cur[c]].rsp
    IN  /\ Answered(c)
        /\ rsp.seckeyid >= 0
        /\ cshm' = [cshm EXCEPT ![c] = TableAfter(c, rsp)]
        /\ sure' = SureAfter(c, rsp)
        /\ cbuf' = [cbuf EXCEPT ![c] = IF "stale" \in Faults THEN rsp ELSE NoRsp]
        /\ conn' = Hangup(c)
        /\ BackToMenu(c)
        /\ UNCHANGED serverVars

\* The encoder drops a negative integer, so the response ends after r2, and
\* msgDecode dereferences a null node: the process dies.
DecodeDies(c) ==
    /\ Answered(c)
    /\ conn[cur[c]].rsp.seckeyid < 0
    /\ cbuf' = [cbuf EXCEPT ![c] = NoRsp]
    /\ sure' = SureWithout(c)
    /\ conn' = Hangup(c)
    /\ BackToMenu(c)
    /\ UNCHANGED <<serverVars, cshm>>

\* recvMsg has nothing to return: no connection, a reset one, or patience at
\* its end.
NoAnswer(c) ==
    /\ ~AtMenu(c)
    /\ \/ cur[c] = NoConn
       \/ cur[c] \in Conn /\ conn[cur[c]].st = "lost"
       \/ "timeout" \in Faults

\* The process dies in sendMsg, or inData stays unset and msgDecode follows a
\* wild pointer.
ReceiveDies(c) ==
    /\ NoAnswer(c)
    /\ cbuf' = [cbuf EXCEPT ![c] = NoRsp]
    /\ sure' = SureWithout(c)
    /\ conn' = Hangup(c)
    /\ BackToMenu(c)
    /\ UNCHANGED <<serverVars, cshm>>

\* inData still points to the response of an earlier operation, which is
\* never freed: it is taken for the answer.
ReceiveStale(c) ==
    /\ NoAnswer(c)
    /\ cur[c] # NoConn
    /\ cbuf[c] # NoRsp
    /\ cbuf[c].seckeyid >= 0
    /\ cshm' = [cshm EXCEPT ![c] = TableAfter(c, cbuf[c])]
    /\ sure' = SureWithout(c)
    /\ conn' = Hangup(c)
    /\ BackToMenu(c)
    /\ UNCHANGED <<serverVars, cbuf>>

ClientReceive(c) ==
    ReceiveAnswer(c) \/ DecodeDies(c) \/ ReceiveDies(c) \/ ReceiveStale(c)

ClientStep(c) ==
    \/ SecKeyAgree(c) \/ SecKeyCheck(c) \/ SecKeyRevoke(c) \/ ConnectOnly(c)
    \/ ClientReceive(c)
============================================================================
