----------------------------- MODULE EndsProofs -----------------------------
(***************************************************************************)
(* What the protocol is for: a client that knows the outcome of all it has *)
(* asked holds the server's key, with the id of its row, and agrees with   *)
(* the server on whether it may be used. The argument follows a request    *)
(* from the client over its connection to the worker and the answer back,  *)
(* while hang-ups leave other requests of the same client on their way.    *)
(* The last two parts are about what is left of it while workers overlap,  *)
(* as long as none of their calls on the table ran during a shmWrite.      *)
(***************************************************************************)
EXTENDS KeyAgreementProofs

-----------------------------------------------------------------------------
(* Who is at which end of a connection.                                    *)

\* The client whose connection it is, its socket, and the worker behind it.
ConnOK ==
    \A i \in Conn :
        /\ conn[i].st = "free" => conn[i].client = NoClient /\ ~conn[i].open
        /\ conn[i].st # "free" => conn[i].client \in Client
        /\ conn[i].st = "sent" =>
              conn[i].req \in RequestMsg /\ conn[i].req.clientId = conn[i].client
        /\ conn[i].st = "served" <=> work[i].pc # "idle"
        /\ work[i].pc # "idle" => NameOf(i) = conn[i].client
        /\ conn[i].st \in {"answered", "lost"} => conn[i].open
        /\ conn[i].open => cur[conn[i].client] = i

CurOK ==
    \A c \in Client :
        /\ AtMenu(c) => cur[c] = NoConn /\ c \notin alone
        /\ cur[c] # NoConn => conn[cur[c]].client = c /\ conn[cur[c]].open
        /\ c \in alone => ConnsOf(c) \subseteq {cur[c]}

Wired == ConnOK /\ CurOK

-----------------------------------------------------------------------------
(* What is asked.                                                          *)

\* The request of a connection, on its way or in the hands of its worker.
Carried(i) == IF conn[i].st = "sent" THEN conn[i].req ELSE work[i].req

\* A client's request carries the code of the nonce it drew or of the key it
\* holds, and keeps it on its way.
AskedOK ==
    \A c \in Client : ~AtMenu(c) =>
        /\ creq[c].authCode =
              Mac(c, IF creq[c].cmdType = "NewOrUpdate" THEN creq[c].r1
                     ELSE OwnKey(c).seckey)
        /\ creq[c].cmdType = "NewOrUpdate" => creq[c].r1 \in Nonce1
        /\ creq[c].cmdType # "NewOrUpdate" => OwnKey(c).status = 1
        /\ cur[c] # NoConn /\ conn[cur[c]].st \in {"sent", "served"} =>
              /\ Carried(cur[c]).cmdType = creq[c].cmdType
              /\ Carried(cur[c]).authCode = creq[c].authCode

\* What a client left behind that knows where it stands, or was alone when it
\* asked, changes nothing.
OnlyChecks ==
    \A c \in sure \cup alone : \A i \in ConnsOf(c) \ {cur[c]} :
        Carried(i).cmdType = "Check"

\* A client's table holds its own key or zeroes.
OwnTable == \A c \in Client : cshm[c][1] = Zero \/ cshm[c][1].clientID = c

-----------------------------------------------------------------------------
(* What the worker knows.                                                  *)

\* The calls of each operation.
Dispatched ==
    \A i \in Conn :
        /\ work[i].pc = "check" => work[i].req.cmdType = "Check"
        /\ work[i].pc \in {"revoke", "revokeDb"} => work[i].req.cmdType = "Revoke"
        /\ work[i].pc \in WritePc /\ ~Agrees(i) => work[i].req.cmdType = "Revoke"

\* Worker i has derived a key and not yet answered.
Keyed(i) ==
    \/ work[i].pc \in AgreePc \ {"agree"}
    \/ work[i].pc \in WritePc /\ Agrees(i)

\* Past the comparison of the codes the key is made of what both sides know.
KeyFits ==
    \A i \in Conn : Keyed(i) =>
        /\ work[i].req.authCode = Mac(NameOf(i), work[i].req.r1)
        /\ work[i].node.seckey = <<work[i].req.r1, work[i].rsp.r2>>
        /\ work[i].node.status = 1

\* The id that the response will carry is the row's.
IdFits ==
    \A i \in Conn :
        /\ work[i].pc = "decide" =>
              \A r \in RowsOf(NameOf(i)) : res.val = r.keyid
        /\ work[i].pc = "update" =>
              \A r \in RowsOf(NameOf(i)) : work[i].rsp.seckeyid = r.keyid
        /\ work[i].pc = "takeId" => res.by = i /\ res.val + 1 = nextId
        /\ work[i].pc = "insert" => work[i].rsp.seckeyid = nextId

\* AUTO_INCREMENT is right behind the last row.
LastId == nextId = 1 \/ \E r \in db : r.keyid + 1 = nextId

\* Only a client that is not in secnode is refused with 2.
Refused ==
    \A i \in Conn :
        /\ work[i].pc = "send" /\ work[i].rsp.rv = 2 => NameOf(i) \notin Registered
        /\ conn[i].st = "answered" /\ conn[i].rsp.rv = 2 =>
              conn[i].client \notin Registered

-----------------------------------------------------------------------------
(* Both ends.                                                              *)

\* The row of c is what the node says.
Holds(c, node) ==
    IF node = Zero THEN RowsOf(c) = {}
    ELSE \E r \in RowsOf(c) :
            /\ RowsOf(c) = {r}
            /\ r.seckey = node.seckey
            /\ r.state = node.status
            /\ r.keyid = node.seckeyID

\* The answer to a request that changes a key will not come.
Missed(c) ==
    /\ ~AtMenu(c) /\ creq[c].cmdType # "Check"
    /\ cur[c] = NoConn \/ conn[cur[c]].st = "lost"

\* The request of c was carried out, and c did not hear of it yet.
Did(c, cmd) ==
    /\ ~AtMenu(c) /\ creq[c].cmdType = cmd
    /\ ResponseTo(c) # NoRsp /\ ResponseTo(c).rv = 0

Ends(c) ==
    /\ c \in sure /\ ~Missed(c) /\ ~Did(c, "NewOrUpdate") /\ ~Did(c, "Revoke") =>
          Holds(c, OwnKey(c))
    /\ c \in sure /\ Did(c, "Revoke") => Holds(c, [OwnKey(c) EXCEPT !.status = 0])
    /\ c \in sure \cup alone /\ Did(c, "NewOrUpdate") =>
          Holds(c, Agreed(c, ResponseTo(c)))

EndsOK == \A c \in Client : Ends(c)

-----------------------------------------------------------------------------
(* Steps, seen from the connections.                                       *)

\* What a client sends.
Asks(c, req) ==
    /\ Request(c, req)
    /\ req \in RequestMsg /\ req.clientId = c
    /\ req.authCode = Mac(c, IF req.cmdType = "NewOrUpdate" THEN req.r1
                             ELSE OwnKey(c).seckey)
    /\ req.cmdType = "NewOrUpdate" => req.r1 \in Nonce1
    /\ req.cmdType # "NewOrUpdate" => OwnKey(c).status = 1

\* A client ends its operation, with or without an answer.
Leaves(c) ==
    /\ ~AtMenu(c)
    /\ conn' = Hangup(c)
    /\ BackToMenu(c)
    /\ UNCHANGED serverVars

\* A client's one slot is what it reads.
LEMMA OneSlotTable ==
    ASSUME IndInv, OwnTable, NEW c \in Client
    PROVE  /\ IsTable(cshm[c], 1) /\ OwnKey(c) = cshm[c][1]
           /\ OwnKey(c) \in NodeSHMInfo
<1>1. cshm[c] \in [1..1 -> NodeSHMInfo]
  BY DEF IndInv, TypeOK, ClientTypeOK
<1>2. IsTable(cshm[c], 1) /\ cshm[c][1] \in NodeSHMInfo
  BY <1>1 DEF IsTable
<1>3. CASE cshm[c][1] = Zero
  <2>1. SlotsOf(cshm[c], c) = {}
    BY <1>1, <1>3, Constants DEF SlotsOf, Zero
  <2> QED
    BY <1>2, <1>3, <2>1 DEF OwnKey, ShmRead
<1>4. CASE cshm[c][1].clientID = c
  <2>1. SlotsOf(cshm[c], c) = {1}
    BY <1>1, <1>4 DEF SlotsOf
  <2>2. First({1}) = 1
    BY DEF First
  <2> QED
    BY <1>2, <2>1, <2>2 DEF OwnKey, ShmRead
<1> QED
  BY <1>2, <1>3, <1>4 DEF OwnTable

\* The two things that a client does.
LEMMA ClientKinds ==
    ASSUME "noSend" \notin Faults, IndInv, OwnTable, NEW c \in Client, ClientStep(c)
    PROVE  \/ \E req \in RequestMsg : Asks(c, req)
           \/ ClientReceive(c) /\ Leaves(c)
<1>1. ASSUME NEW r1 \in Nonce1,
             Request(c, [cmdType |-> "NewOrUpdate", clientId |-> c, r1 |-> r1,
                         authCode |-> Mac(c, r1)])
      PROVE  \E req \in RequestMsg : Asks(c, req)
  <2> DEFINE req == [cmdType |-> "NewOrUpdate", clientId |-> c, r1 |-> r1,
                     authCode |-> Mac(c, r1)]
  <2>1. req \in AgreeRequest
    BY DEF AgreeRequest, AuthCode, Mac
  <2> QED
    BY <1>1, <2>1 DEF Asks, RequestMsg
<1>2. ASSUME NEW cmd \in {"Check", "Revoke"}, SendKey(c, cmd)
      PROVE  \E req \in RequestMsg : Asks(c, req)
  <2> DEFINE req == [cmdType |-> cmd, clientId |-> c, r1 |-> OwnKey(c).seckey,
                     authCode |-> Mac(c, OwnKey(c).seckey)]
  <2>1. OwnKey(c).status = 1 /\ Request(c, req)
    BY <1>2 DEF SendKey
  <2>2. OwnKey(c).seckey \in Key
    BY <2>1, OneSlotTable DEF IndInv, UsableOK
  <2>3. req \in KeyRequest
    BY <2>2 DEF KeyRequest, AuthCode, Mac
  <2> QED
    BY <2>1, <2>3 DEF Asks, RequestMsg
<1>3. ClientReceive(c) => Leaves(c)
  BY DEF ClientReceive, ReceiveAnswer, DecodeDies, ReceiveDies, ReceiveStale, Answered,
     NoAnswer, Leaves
<1> QED
  BY <1>1, <1>2, <1>3 DEF ClientStep, SecKeyAgree, SecKeyCheck, SecKeyRevoke, ConnectOnly

\* Between the acceptance of a request and its answer nobody touches the
\* connections.
LEMMA Inner ==
    ASSUME IndInv, NEW i \in Conn, WorkerStep(i), ~Receive(i), ~Send(i)
    PROVE  /\ conn' = conn /\ up = "up"
           /\ work[i].pc # "idle" /\ work'[i].pc # "idle"
           /\ work'[i].req = work[i].req /\ NameOf(i)' = NameOf(i)
           /\ \A j \in Conn \ {i} : work'[j] = work[j]
<1>1. conn' = conn
  BY DEF WorkerStep, QueryNode, CheckId, Check,
     AgreeStep, AgreeAccept, AgreeReject, SelectKey, DecideUpdate, DecideInsert, SelectMax,
     TakeId, UpdateRows, InsertRow, RevokeStep, RevokeAccept, RevokeReject, RevokeDb,
     ShmWriteStep, OwnSlot, FreeSlot, Copy
<1>2. \E from, to \in Pc \ {"idle"} : Moves(i, from, to)
  <2>1. CASE ShmWriteStep(i)
    BY <2>1, WriteCalls DEF ShmWriteStep, Pc
  <2>2. CASE ~ShmWriteStep(i)
    BY <2>2, OuterCalls, AgreeCalls, RevokeCalls, ZenonT(60)
       DEF WorkerStep, AgreeStep, RevokeStep, Pc
  <2> QED
    BY <2>1, <2>2
<1> QED
  BY <1>1, <1>2, Zenon DEF Moves

\* A worker gets what was sent.
LEMMA Accepted ==
    ASSUME IndInv, ConnOK, NEW i \in Conn, Receive(i)
    PROVE  /\ conn[i].st = "sent" /\ up = "up" /\ up' = "up"
           /\ conn' = [conn EXCEPT ![i] = [conn[i] EXCEPT !.st = "served", !.req = NoReq]]
           /\ work'[i].pc = "query" /\ work'[i].req = conn[i].req
           /\ \A j \in Conn \ {i} : work'[j] = work[j]
<1>1. conn[i].st = "sent" /\ conn[i].req \in RequestMsg
  BY DEF Receive, ConnOK
<1>2. conn[i].req # NoReq
  BY <1>1, WireAssumption DEF RequestMsg, AgreeRequest, KeyRequest, AuthCode
<1>3. PICK g \in Garbage :
        work' = [work EXCEPT ![i] = [pc |-> "query", req |-> conn[i].req, node |-> Zero,
                                     slot |-> 0, rsp |-> [rv |-> 0, r2 |-> Junk, seckeyid |-> g]]]
  BY <1>2 DEF Receive
<1>4. conn \in [Conn -> Connection]
  BY DEF IndInv, TypeOK
<1>5. conn' = [conn EXCEPT ![i] = [conn[i] EXCEPT !.st = "served", !.req = NoReq]]
  BY <1>4 DEF Receive, Connection
<1> QED
  BY <1>1, <1>3, <1>5, Busy DEF Receive, WorkType

-----------------------------------------------------------------------------
(* The connections stay wired.                                             *)

LEMMA Wires ==
    ASSUME IndInv
    PROVE  /\ conn \in [Conn -> Connection]
           /\ creq \in [Client -> RequestMsg \cup {NoReq}]
           /\ cur \in [Client -> Conn \cup {NoConn}]
           /\ NoReq \notin RequestMsg /\ NoRsp \notin RespondMsg
           /\ NoClient \notin Client /\ NoConn \notin Conn
<1>1. NoReq \notin RequestMsg
  BY WireAssumption DEF RequestMsg, AgreeRequest, KeyRequest, AuthCode
<1>2. NoRsp \notin RespondMsg
  BY WireAssumption DEF RespondMsg
<1>3. /\ conn \in [Conn -> Connection]
      /\ creq \in [Client -> RequestMsg \cup {NoReq}]
      /\ cur \in [Client -> Conn \cup {NoConn}]
  BY Zenon DEF IndInv, TypeOK, ClientTypeOK
<1> QED
  BY <1>1, <1>2, <1>3, Constants, Zenon

\* A worker does not change which client has which connection.
LEMMA WorkerWired ==
    ASSUME IndInv, Wired, NEW i \in Conn, WorkerStep(i), UNCHANGED clientVars
    PROVE  Wired'
<1>0. /\ ConnOK /\ CurOK /\ conn \in [Conn -> Connection]
      /\ UNCHANGED <<creq, cur, alone>>
      /\ NoClient \notin Client /\ NoConn \notin Conn
      /\ cur \in [Client -> Conn \cup {NoConn}]
  <2>1. UNCHANGED <<creq, cur, alone>>
    BY DEF clientVars
  <2> QED
    BY <2>1, Wires, Zenon DEF Wired
<1>1. CASE ~Receive(i) /\ ~Send(i)
  <2>1. /\ conn' = conn
        /\ \A j \in Conn : /\ work[j].pc = "idle" <=> work'[j].pc = "idle"
                           /\ work'[j].req = work[j].req
    BY <1>1, Inner
  <2>2. ConnOK'
    BY <1>0, <2>1 DEF ConnOK, NameOf
  <2> QED
    BY <1>0, <2>1, <2>2 DEF Wired, CurOK, AtMenu, ConnsOf
<1>2. CASE Receive(i)
  <2>1. /\ conn[i].st = "sent"
        /\ conn' = [conn EXCEPT ![i] = [conn[i] EXCEPT !.st = "served", !.req = NoReq]]
        /\ work'[i].pc = "query" /\ work'[i].req = conn[i].req
        /\ \A j \in Conn \ {i} : work'[j] = work[j]
    BY <1>0, <1>2, Accepted
  <2>2. /\ conn'[i].st = "served" /\ conn'[i].client = conn[i].client
        /\ conn'[i].open = conn[i].open
        /\ \A j \in Conn \ {i} : conn'[j] = conn[j]
    BY <1>0, <2>1 DEF Connection
  <2>3. ConnOK'
    BY <1>0, <2>1, <2>2 DEF ConnOK, NameOf
  <2>4. CurOK'
    BY <1>0, <2>2 DEF CurOK, AtMenu, ConnsOf
  <2> QED
    BY <2>3, <2>4 DEF Wired
<1>3. CASE Send(i)
  <2>1. /\ work[i].pc = "send" /\ work'[i].pc = "idle"
        /\ \A j \in Conn \ {i} : work'[j] = work[j]
    BY <1>3, OuterCalls
  <2>2. conn' = [conn EXCEPT ![i] =
                   IF conn[i].open
                   THEN [conn[i] EXCEPT !.st = "answered", !.rsp = work[i].rsp]
                   ELSE FreeConn]
    BY <1>3 DEF Send
  <2>3. conn[i].st = "served" /\ conn[i].client \in Client
    BY <1>0, <2>1 DEF ConnOK
  <2>4. \A j \in Conn \ {i} : conn'[j] = conn[j]
    BY <1>0, <2>2
  <2>5. CASE conn[i].open
    <3>1. /\ conn'[i].st = "answered" /\ conn'[i].client = conn[i].client
          /\ conn'[i].open = conn[i].open
      BY <1>0, <2>2, <2>5 DEF Connection
    <3>2. cur[conn[i].client] = i
      BY <1>0, <2>5 DEF ConnOK
    <3>3. ConnOK'
      <4>1. /\ conn'[i].client \in Client /\ conn'[i].open
            /\ cur'[conn'[i].client] = i /\ work'[i].pc = "idle"
        BY <1>0, <2>1, <2>3, <2>5, <3>1, <3>2
      <4>2. \A j \in Conn \ {i} : conn'[j] = conn[j] /\ work'[j] = work[j]
        BY <2>1, <2>4
      <4> QED
        BY <1>0, <3>1, <4>1, <4>2 DEF ConnOK, NameOf
    <3>4. CurOK'
      BY <1>0, <2>4, <3>1 DEF CurOK, AtMenu, ConnsOf
    <3> QED
      BY <3>3, <3>4 DEF Wired
  <2>6. CASE ~conn[i].open
    <3>1. /\ conn'[i].st = "free" /\ conn'[i].client = NoClient
          /\ ~ conn'[i].open
      BY <1>0, <2>2, <2>6 DEF FreeConn
    <3>2. ConnOK'
      BY <1>0, <2>1, <2>4, <3>1 DEF ConnOK, NameOf
    <3>3. CurOK'
      BY <1>0, <2>4, <2>6, <3>1 DEF CurOK, AtMenu, ConnsOf
    <3> QED
      BY <3>2, <3>3 DEF Wired
  <2> QED
    BY <2>5, <2>6
<1> QED
  BY <1>1, <1>2, <1>3

\* A crash frees what nobody waits for and resets the rest.
LEMMA CrashWired ==
    ASSUME IndInv, Wired, Crash, UNCHANGED clientVars
    PROVE  Wired'
<1>0. /\ ConnOK /\ CurOK /\ conn \in [Conn -> Connection]
      /\ UNCHANGED <<creq, cur, alone>>
      /\ NoClient \notin Client /\ NoConn \notin Conn
      /\ cur \in [Client -> Conn \cup {NoConn}]
  <2>1. UNCHANGED <<creq, cur, alone>>
    BY DEF clientVars
  <2> QED
    BY <2>1, Wires, Zenon DEF Wired
<1>1. \A i \in Conn : work'[i].pc = "idle"
  BY DEF Crash, Idle
<1>2. ASSUME NEW i \in Conn
      PROVE  /\ conn[i].st \in {"sent", "served"} /\ conn[i].open =>
                  /\ conn'[i].st = "lost" /\ conn'[i].open
                  /\ conn'[i].client = conn[i].client
             /\ conn[i].st \in {"sent", "served"} /\ ~conn[i].open =>
                  /\ conn'[i].st = "free" /\ ~conn'[i].open
                  /\ conn'[i].client = NoClient
             /\ conn[i].st \notin {"sent", "served"} => conn'[i] = conn[i]
  BY <1>0 DEF Crash, Connection, FreeConn
<1>3. ConnOK'
  <2> SUFFICES ASSUME NEW i \in Conn
               PROVE  /\ conn'[i].st = "free" => conn'[i].client = NoClient /\ ~conn'[i].open
                      /\ conn'[i].st # "free" => conn'[i].client \in Client
                      /\ conn'[i].st \notin {"sent", "served"}
                      /\ conn'[i].st \in {"answered", "lost"} => conn'[i].open
                      /\ conn'[i].open => cur'[conn'[i].client] = i
    BY <1>1 DEF ConnOK
  <2> QED
    BY <1>0, <1>2 DEF ConnOK, Connection
<1>4. CurOK'
  <2>1. \A c \in Client : cur[c] # NoConn => conn'[cur[c]].client = c /\ conn'[cur[c]].open
    BY <1>0, <1>2 DEF CurOK
  <2>2. \A c \in Client : ConnsOf(c)' \subseteq ConnsOf(c)
    BY <1>0, <1>2 DEF ConnsOf
  <2> QED
    BY <1>0, <2>1, <2>2 DEF CurOK, AtMenu
<1> QED
  BY <1>3, <1>4 DEF Wired

\* A nonce that changes on its way changes nothing else.
LEMMA Altered ==
    ASSUME IndInv, Alter
    PROVE  /\ UNCHANGED serverVars /\ UNCHANGED clientVars
           /\ \E i \in Conn : \E w \in AgreeRequest :
                /\ conn[i].st = "sent" /\ conn[i].req \in AgreeRequest
                /\ w.clientId = conn[i].req.clientId /\ w.authCode = conn[i].req.authCode
                /\ conn' = [conn EXCEPT ![i] = [conn[i] EXCEPT !.req = w]]
<1>1. PICK i \in Conn, r1 \in Nonce1 :
        /\ conn[i].st = "sent" /\ conn[i].req \in AgreeRequest
        /\ conn' = [conn EXCEPT ![i].req.r1 = r1]
  BY DEF Alter
<1> DEFINE w == [conn[i].req EXCEPT !.r1 = r1]
<1>2. /\ w \in AgreeRequest
      /\ w.clientId = conn[i].req.clientId /\ w.authCode = conn[i].req.authCode
  BY <1>1 DEF AgreeRequest
<1>3. conn' = [conn EXCEPT ![i] = [conn[i] EXCEPT !.req = w]]
  BY <1>1, Wires DEF Connection
<1>4. UNCHANGED serverVars /\ UNCHANGED clientVars
  BY DEF Alter
<1> HIDE DEF w
<1> QED
  BY <1>1, <1>2, <1>3, <1>4

LEMMA AlterWired ==
    ASSUME IndInv, Wired, Alter
    PROVE  Wired'
<1>0. /\ ConnOK /\ CurOK /\ conn \in [Conn -> Connection]
      /\ cur \in [Client -> Conn \cup {NoConn}]
  BY Wires DEF Wired
<1>1. UNCHANGED serverVars /\ UNCHANGED clientVars
  BY Altered
<1>2. UNCHANGED <<work, creq, cur, alone>>
  BY <1>1 DEF serverVars, clientVars
<1>3. PICK i \in Conn, w \in AgreeRequest :
        /\ conn[i].st = "sent" /\ w.clientId = conn[i].req.clientId
        /\ conn' = [conn EXCEPT ![i] = [conn[i] EXCEPT !.req = w]]
  BY Altered
<1>4. /\ conn'[i].st = "sent" /\ conn'[i].client = conn[i].client
      /\ conn'[i].open = conn[i].open /\ conn'[i].req = w
      /\ \A j \in Conn \ {i} : conn'[j] = conn[j]
  BY <1>0, <1>3 DEF Connection
<1>5. w \in RequestMsg
  BY DEF RequestMsg
<1>6. ConnOK'
  BY <1>0, <1>2, <1>3, <1>4, <1>5 DEF ConnOK, NameOf
<1>7. CurOK'
  BY <1>0, <1>2, <1>4 DEF CurOK, AtMenu, ConnsOf
<1> QED
  BY <1>6, <1>7 DEF Wired

\* What a request does to the connections: with a server that listens it takes
\* a free one, without it takes none.
LEMMA Requested ==
    ASSUME IndInv, ConnOK, NEW c \in Client, NEW req \in RequestMsg, Request(c, req)
    PROVE  /\ AtMenu(c) /\ creq' = [creq EXCEPT ![c] = req]
           /\ creq'[c] = req /\ ~AtMenu(c)' /\ UNCHANGED serverVars
           /\ UNCHANGED <<cshm, sure>>
           /\ alone' = IF ConnsOf(c) = {} THEN alone \cup {c} ELSE alone
           /\ \/ /\ up # "up" /\ UNCHANGED <<conn, cur>>
              \/ \E i \in Conn :
                    /\ conn[i].st = "free" /\ work[i].pc = "idle"
                    /\ cur' = [cur EXCEPT ![c] = i]
                    /\ conn' = [conn EXCEPT ![i] =
                                  [st |-> "sent", client |-> c, open |-> TRUE,
                                   req |-> req, rsp |-> NoRsp]]
<1>1. /\ AtMenu(c) /\ creq' = [creq EXCEPT ![c] = req] /\ UNCHANGED serverVars
      /\ UNCHANGED <<cshm, sure>>
      /\ alone' = IF ConnsOf(c) = {} THEN alone \cup {c} ELSE alone
  BY DEF Request
<1>2. creq'[c] = req /\ req # NoReq
  BY <1>1, Wires
<1>3. \/ up # "up" /\ UNCHANGED <<conn, cur>>
      \/ \E i \in Conn :
            /\ conn[i].st = "free"
            /\ cur' = [cur EXCEPT ![c] = i]
            /\ conn' = [conn EXCEPT ![i] =
                          [st |-> "sent", client |-> c, open |-> TRUE,
                           req |-> req, rsp |-> NoRsp]]
  BY DEF Request, FreeConns
<1>4. \A i \in Conn : conn[i].st = "free" => work[i].pc = "idle"
  BY DEF ConnOK
<1> QED
  BY <1>1, <1>2, <1>3, <1>4 DEF AtMenu

LEMMA RequestWired ==
    ASSUME IndInv, Wired, NEW c \in Client, NEW req \in RequestMsg, Asks(c, req)
    PROVE  Wired'
<1>0. /\ ConnOK /\ CurOK /\ conn \in [Conn -> Connection]
      /\ cur \in [Client -> Conn \cup {NoConn}]
      /\ creq \in [Client -> RequestMsg \cup {NoReq}]
      /\ NoClient \notin Client /\ NoConn \notin Conn
      /\ req.clientId = c
  BY Wires DEF Wired, Asks
<1>1. /\ AtMenu(c) /\ creq' = [creq EXCEPT ![c] = req] /\ ~AtMenu(c)'
      /\ alone' = IF ConnsOf(c) = {} THEN alone \cup {c} ELSE alone
  BY <1>0, Requested DEF Asks
<1>2. work' = work
  BY <1>0, Requested DEF Asks, serverVars
<1>3. cur[c] = NoConn /\ c \notin alone
  BY <1>0, <1>1 DEF CurOK
<1>4. \A d \in Client \ {c} : /\ AtMenu(d)' <=> AtMenu(d)
                              /\ d \in alone' <=> d \in alone
  BY <1>0, <1>1 DEF AtMenu
<1>5. CASE UNCHANGED <<conn, cur>>
  <2>1. ConnOK'
    BY <1>0, <1>2, <1>5 DEF ConnOK, NameOf
  <2>2. c \in alone' => ConnsOf(c) = {}
    BY <1>1, <1>3
  <2>3. CurOK'
    BY <1>0, <1>1, <1>3, <1>4, <1>5, <2>2 DEF CurOK, ConnsOf
  <2> QED
    BY <2>1, <2>3 DEF Wired
<1>6. ASSUME NEW i \in Conn, conn[i].st = "free", work[i].pc = "idle",
             cur' = [cur EXCEPT ![c] = i],
             conn' = [conn EXCEPT ![i] =
                        [st |-> "sent", client |-> c, open |-> TRUE,
                         req |-> req, rsp |-> NoRsp]]
      PROVE  Wired'
  <2>1. /\ conn'[i].st = "sent" /\ conn'[i].client = c /\ conn'[i].open
        /\ conn'[i].req = req /\ \A j \in Conn \ {i} : conn'[j] = conn[j]
    BY <1>0, <1>6
  <2>2. conn[i].client = NoClient /\ ~conn[i].open
    BY <1>0, <1>6 DEF ConnOK
  <2>3. cur'[c] = i /\ \A d \in Client \ {c} : cur'[d] = cur[d]
    BY <1>0, <1>6
  <2>4. ASSUME NEW j \in Conn, conn[j].open
        PROVE  conn[j].client # c
    BY <1>0, <1>3, <2>4 DEF ConnOK
  <2>5. ConnOK'
    <3>1. ASSUME NEW j \in Conn, conn'[j].open
          PROVE  cur'[conn'[j].client] = j
      <4>1. CASE j = i
        BY <2>1, <2>3, <4>1
      <4>2. CASE j # i
        <5>1. conn'[j] = conn[j] /\ conn[j].open /\ conn[j].client # c
          BY <2>1, <2>4, <3>1, <4>2
        <5>2. conn[j].client \in Client /\ cur[conn[j].client] = j
          BY <1>0, <5>1 DEF ConnOK
        <5> QED
          BY <2>3, <5>1, <5>2
      <4> QED
        BY <4>1, <4>2
    <3> QED
      BY <1>0, <1>2, <1>6, <2>1, <3>1 DEF ConnOK, NameOf
  <2>6. CurOK'
    <3>1. ASSUME NEW d \in Client, d # c
          PROVE  /\ cur'[d] # NoConn => conn'[cur'[d]].client = d /\ conn'[cur'[d]].open
                 /\ ConnsOf(d)' = ConnsOf(d)
      BY <1>0, <2>1, <2>2, <2>3, <3>1 DEF CurOK, ConnsOf
    <3>2. c \in alone' => ConnsOf(c)' \subseteq {i}
      BY <1>1, <1>3, <2>1 DEF ConnsOf
    <3>3. ASSUME NEW d \in Client, d # c
          PROVE  /\ AtMenu(d)' => cur'[d] = NoConn /\ d \notin alone'
                 /\ d \in alone' => ConnsOf(d)' \subseteq {cur'[d]}
      BY <1>0, <1>4, <2>3, <3>1, <3>3 DEF CurOK
    <3> QED
      BY <1>1, <2>1, <2>3, <3>1, <3>2, <3>3 DEF CurOK
  <2> QED
    BY <2>5, <2>6 DEF Wired
<1> QED
  BY <1>0, <1>5, <1>6, Requested DEF Asks

\* What a client's end does to the connections.
LEMMA Gone ==
    ASSUME IndInv, Wired, NEW c \in Client, Leaves(c)
    PROVE  /\ UNCHANGED serverVars
           /\ creq' = [creq EXCEPT ![c] = NoReq] /\ AtMenu(c)'
           /\ cur' = [cur EXCEPT ![c] = NoConn]
           /\ alone' = alone \ {c}
           /\ cur[c] = NoConn => conn' = conn
           /\ cur[c] # NoConn =>
                 /\ cur[c] \in Conn /\ conn[cur[c]].client = c /\ conn[cur[c]].open
                 /\ \A j \in Conn \ {cur[c]} : conn'[j] = conn[j]
                 /\ IF conn[cur[c]].st \in {"answered", "lost"}
                    THEN conn'[cur[c]] = FreeConn
                    ELSE /\ conn'[cur[c]].st = conn[cur[c]].st
                         /\ conn'[cur[c]].client = c
                         /\ conn'[cur[c]].req = conn[cur[c]].req
                         /\ ~conn'[cur[c]].open
<1>0. /\ ConnOK /\ CurOK /\ conn \in [Conn -> Connection]
      /\ cur \in [Client -> Conn \cup {NoConn}]
      /\ creq \in [Client -> RequestMsg \cup {NoReq}]
  BY Wires DEF Wired
<1>1. /\ UNCHANGED serverVars
      /\ creq' = [creq EXCEPT ![c] = NoReq] /\ AtMenu(c)'
      /\ cur' = [cur EXCEPT ![c] = NoConn] /\ alone' = alone \ {c}
      /\ conn' = Hangup(c)
  BY <1>0 DEF Leaves, BackToMenu, AtMenu
<1>2. cur[c] = NoConn => conn' = conn
  BY <1>1 DEF Hangup
<1>3. ASSUME cur[c] # NoConn
      PROVE  /\ cur[c] \in Conn /\ conn[cur[c]].client = c /\ conn[cur[c]].open
             /\ \A j \in Conn \ {cur[c]} : conn'[j] = conn[j]
             /\ IF conn[cur[c]].st \in {"answered", "lost"}
                THEN conn'[cur[c]] = FreeConn
                ELSE /\ conn'[cur[c]].st = conn[cur[c]].st
                     /\ conn'[cur[c]].client = c
                     /\ conn'[cur[c]].req = conn[cur[c]].req
                     /\ ~conn'[cur[c]].open
  <2>1. cur[c] \in Conn /\ conn[cur[c]].client = c /\ conn[cur[c]].open
    BY <1>0, <1>3 DEF CurOK
  <2>2. conn' = [conn EXCEPT ![cur[c]] =
                   IF conn[cur[c]].st \in {"answered", "lost"} THEN FreeConn
                   ELSE [conn[cur[c]] EXCEPT !.open = FALSE]]
    BY <1>1, <1>3 DEF Hangup
  <2> QED
    BY <1>0, <2>1, <2>2 DEF Connection
<1> QED
  BY <1>1, <1>2, <1>3

LEMMA LeavesWired ==
    ASSUME IndInv, Wired, NEW c \in Client, Leaves(c)
    PROVE  Wired'
<1>0. /\ ConnOK /\ CurOK /\ conn \in [Conn -> Connection]
      /\ cur \in [Client -> Conn \cup {NoConn}]
      /\ creq \in [Client -> RequestMsg \cup {NoReq}]
      /\ NoClient \notin Client /\ NoConn \notin Conn
  BY Wires DEF Wired
<1>1. /\ creq' = [creq EXCEPT ![c] = NoReq] /\ AtMenu(c)'
      /\ cur' = [cur EXCEPT ![c] = NoConn] /\ alone' = alone \ {c}
  BY Gone
<1>2. work' = work
  BY Gone DEF serverVars
<1>3. /\ cur'[c] = NoConn /\ c \notin alone'
      /\ \A d \in Client \ {c} : /\ AtMenu(d)' <=> AtMenu(d)
                                 /\ d \in alone' <=> d \in alone
                                 /\ cur'[d] = cur[d]
  BY <1>0, <1>1 DEF AtMenu
<1>4. CASE cur[c] = NoConn
  <2>1. conn' = conn /\ cur' = cur
    BY <1>0, <1>1, <1>4, Gone
  <2>2. ConnOK'
    BY <1>0, <1>2, <2>1 DEF ConnOK, NameOf
  <2>3. CurOK'
    BY <1>0, <1>1, <1>3, <2>1 DEF CurOK, ConnsOf
  <2> QED
    BY <2>2, <2>3 DEF Wired
<1>5. CASE cur[c] # NoConn
  <2> DEFINE i == cur[c]
  <2>1. /\ i \in Conn /\ conn[i].client = c /\ conn[i].open
        /\ \A j \in Conn \ {i} : conn'[j] = conn[j]
    BY <1>5, Gone
  <2>2. IF conn[i].st \in {"answered", "lost"}
        THEN conn'[i].st = "free" /\ conn'[i].client = NoClient /\ ~conn'[i].open
        ELSE /\ conn'[i].st = conn[i].st
             /\ conn'[i].client = c
             /\ conn'[i].req = conn[i].req
             /\ ~conn'[i].open
    BY <1>5, Gone DEF FreeConn
  <2> HIDE DEF i
  <2>3. \A j \in Conn \ {i} : conn[j].open => conn[j].client # c
    BY <1>0, <2>1 DEF ConnOK
  <2>4. ConnOK'
    <3>1. ASSUME NEW j \in Conn, conn'[j].open
          PROVE  cur'[conn'[j].client] = j
      BY <1>0, <1>3, <2>1, <2>2, <2>3, <3>1 DEF ConnOK
    <3> QED
      BY <1>0, <1>2, <2>1, <2>2, <3>1 DEF ConnOK, NameOf
  <2>5. CurOK'
    <3>1. ASSUME NEW d \in Client, d # c
          PROVE  /\ cur'[d] # NoConn => conn'[cur'[d]].client = d /\ conn'[cur'[d]].open
                 /\ ConnsOf(d)' \subseteq ConnsOf(d)
      <4>1. cur[d] # i
        BY <1>0, <2>1, <3>1 DEF CurOK
      <4> QED
        BY <1>0, <1>3, <2>1, <2>2, <3>1, <4>1 DEF CurOK, ConnsOf
    <3> QED
      BY <1>0, <1>1, <1>3, <3>1 DEF CurOK
  <2> QED
    BY <2>4, <2>5 DEF Wired
<1> QED
  BY <1>4, <1>5

LEMMA WiredNext ==
    ASSUME "noSend" \notin Faults, IndInv, Wired, OwnTable, [Next]_vars
    PROVE  Wired'
<1>1. CASE StartUp /\ UNCHANGED clientVars
  <2>1. UNCHANGED <<conn, work>>
    BY <1>1 DEF StartUp, Boot, LoadRow, Listen
  <2>2. UNCHANGED <<creq, cur, alone>>
    BY <1>1 DEF clientVars
  <2> QED
    BY <2>1, <2>2 DEF Wired, ConnOK, CurOK, NameOf, AtMenu, ConnsOf
<1>2. CASE UNCHANGED vars
  <2>1. UNCHANGED <<conn, work, creq, cur, alone>>
    BY <1>2 DEF vars, serverVars, clientVars
  <2> QED
    BY <2>1 DEF Wired, ConnOK, CurOK, NameOf, AtMenu, ConnsOf
<1>3. ASSUME NEW c \in Client, ClientStep(c)
      PROVE  Wired'
  BY <1>3, ClientKinds, RequestWired, LeavesWired
<1> QED
  BY <1>1, <1>2, <1>3, WorkerWired, CrashWired, AlterWired DEF Next, Server

LEMMA WiredInit == Init => Wired
<1> SUFFICES ASSUME Init PROVE Wired
  OBVIOUS
<1>1. /\ \A i \in Conn : work[i].pc = "idle" /\ conn[i].st = "free"
                         /\ conn[i].client = NoClient /\ ~conn[i].open
      /\ \A c \in Client : cur[c] = NoConn
      /\ alone = {}
  BY DEF Init, WireInit, ServerInit, ClientInit, Idle, FreeConn
<1> QED
  BY <1>1 DEF Wired, ConnOK, CurOK

-----------------------------------------------------------------------------
(* What is asked stays what was asked.                                     *)

Asked3 == AskedOK /\ OnlyChecks /\ OwnTable

\* What a client's table holds after an answer.
LEMMA Stored ==
    ASSUME IndInv, OwnTable, AskedOK, NEW c \in Client, ~AtMenu(c),
           NEW rsp \in RespondMsg
    PROVE  /\ creq[c].cmdType = "Check" => TableAfter(c, rsp) = cshm[c]
           /\ creq[c].cmdType = "NewOrUpdate" =>
                 IF rsp.rv \in {1, 2} THEN TableAfter(c, rsp) = cshm[c]
                 ELSE TableAfter(c, rsp)[1] = Agreed(c, rsp)
           /\ creq[c].cmdType = "Revoke" =>
                 IF rsp.rv = 1 THEN TableAfter(c, rsp) = cshm[c]
                 ELSE TableAfter(c, rsp)[1] = [OwnKey(c) EXCEPT !.status = 0]
           /\ creq[c].cmdType \in {"NewOrUpdate", "Check", "Revoke"}
           /\ TableAfter(c, rsp)[1] = Zero \/ TableAfter(c, rsp)[1].clientID = c
<1>1. /\ IsTable(cshm[c], 1) /\ OwnKey(c) = cshm[c][1] /\ OwnKey(c) \in NodeSHMInfo
      /\ NoClient \notin Client
      /\ cshm[c][1] = Zero \/ cshm[c][1].clientID = c
  BY OneSlotTable, Constants DEF OwnTable
<1>2. ASSUME NEW node, node.clientID = c
      PROVE  ShmWrite(cshm[c], node)[1] = node
  <2>1. DOMAIN cshm[c] = 1..1
    BY <1>1 DEF IsTable
  <2>2. WriteSlots(cshm[c], c) = {1}
    BY <1>1, <2>1 DEF WriteSlots, SlotsOf, FreeSlots, Zero
  <2>3. First({1}) = 1
    BY DEF First
  <2> QED
    BY <1>2, <2>1, <2>2, <2>3 DEF ShmWrite
<1>3. creq[c] \in RequestMsg
  BY Wires DEF AtMenu
<1>4. creq[c].cmdType \in {"NewOrUpdate", "Check", "Revoke"}
  BY <1>3 DEF RequestMsg, AgreeRequest, KeyRequest
<1>5. Agreed(c, rsp).clientID = c
  BY DEF Agreed
<1>6. creq[c].cmdType = "Revoke" => [OwnKey(c) EXCEPT !.status = 0].clientID = c
  <2>1. creq[c].cmdType = "Revoke" => OwnKey(c).status = 1
    BY DEF AskedOK
  <2>2. creq[c].cmdType = "Revoke" => OwnKey(c).clientID = c
    BY <1>1, <2>1 DEF Zero
  <2> QED
    BY <1>1, <2>2 DEF NodeSHMInfo
<1> QED
  BY <1>1, <1>2, <1>4, <1>5, <1>6 DEF TableAfter, AfterAgree, AfterRevoke

\* The ends of an operation: with the answer to it, or without.
LEMMA Ending ==
    ASSUME IndInv, NEW c \in Client, ClientReceive(c)
    PROVE  /\ Leaves(c)
           /\ \E rsp \in RespondMsg :
                 cshm' = cshm \/ cshm' = [cshm EXCEPT ![c] = TableAfter(c, rsp)]
           /\ \A d \in Client \ {c} : d \in sure' <=> d \in sure
           /\ \/ /\ Answered(c) /\ conn[cur[c]].rsp \in RespondMsg
                 /\ cshm' = [cshm EXCEPT ![c] = TableAfter(c, conn[cur[c]].rsp)]
                 /\ sure' = SureAfter(c, conn[cur[c]].rsp)
              \/ sure' = SureWithout(c)
<1>1. Answered(c) => conn[cur[c]].rsp \in RespondMsg
  BY DEF Answered, IndInv, AnswerOK
<1>2. cbuf[c] # NoRsp => cbuf[c] \in RespondMsg
  BY DEF IndInv, TypeOK, ClientTypeOK
<1>3. RespondMsg # {}
  <2>1. [rv |-> 0, r2 |-> Junk, seckeyid |-> 0] \in RespondMsg
    BY DEF RespondMsg, R2
  <2> QED
    BY <2>1
<1>4. CASE ReceiveAnswer(c)
  <2>1. /\ Answered(c)
        /\ cshm' = [cshm EXCEPT ![c] = TableAfter(c, conn[cur[c]].rsp)]
        /\ sure' = SureAfter(c, conn[cur[c]].rsp)
        /\ Leaves(c)
    BY <1>4 DEF ReceiveAnswer, Leaves, Answered
  <2> QED
    BY <1>1, <2>1 DEF SureAfter
<1>5. CASE DecodeDies(c) \/ ReceiveDies(c)
  <2>1. cshm' = cshm /\ sure' = SureWithout(c) /\ Leaves(c)
    BY <1>5 DEF DecodeDies, ReceiveDies, Leaves, Answered, NoAnswer
  <2> QED
    BY <1>3, <2>1 DEF SureWithout
<1>6. CASE ReceiveStale(c)
  <2>1. /\ cshm' = [cshm EXCEPT ![c] = TableAfter(c, cbuf[c])]
        /\ cbuf[c] # NoRsp /\ sure' = SureWithout(c) /\ Leaves(c)
    BY <1>6 DEF ReceiveStale, Leaves, NoAnswer
  <2> QED
    BY <1>2, <2>1 DEF SureWithout
<1> QED
  BY <1>4, <1>5, <1>6 DEF ClientReceive

\* A step that touches no client's own state, and after which every request on
\* its way is still the same request of the same client.
LEMMA AskedFrame ==
    ASSUME IndInv, Wired, Asked3, UNCHANGED clientVars,
           \A i \in Conn : conn'[i].st \in {"sent", "served"} =>
              /\ conn[i].st \in {"sent", "served"}
              /\ conn'[i].client = conn[i].client
              /\ Carried(i)'.cmdType = Carried(i).cmdType
              /\ Carried(i)'.authCode = Carried(i).authCode,
           IndInv', Wired'
    PROVE  Asked3'
<1>0. /\ UNCHANGED <<cshm, creq, cur, sure, alone>>
      /\ CurOK /\ AskedOK /\ OnlyChecks /\ OwnTable /\ ConnOK'
      /\ cur \in [Client -> Conn \cup {NoConn}]
      /\ sure \cup alone \subseteq Client
  <2>1. UNCHANGED <<cshm, creq, cur, sure, alone>>
    BY DEF clientVars
  <2>2. sure \cup alone \subseteq Client
    BY DEF IndInv, TypeOK, ClientTypeOK
  <2> QED
    BY <2>1, <2>2, Wires DEF Wired, Asked3
<1>1. AskedOK'
  BY <1>0 DEF AskedOK, AtMenu, OwnKey
<1>2. ASSUME NEW c \in sure \cup alone, NEW i \in Conn, conn'[i].client = c, i # cur[c]
      PROVE  Carried(i)'.cmdType = "Check"
  <2>1. conn'[i].st \in {"sent", "served"}
    <3>1. conn'[i].st # "free" /\ ~conn'[i].open
      BY <1>0, <1>2, Wires DEF ConnOK
    <3>2. conn'[i].st \in {"free", "sent", "served", "answered", "lost"}
      BY Wires DEF IndInv, TypeOK, Connection
    <3> QED
      BY <1>0, <3>1, <3>2 DEF ConnOK
  <2> QED
    BY <1>0, <1>2, <2>1 DEF OnlyChecks, ConnsOf
<1>3. OnlyChecks'
  BY <1>0, <1>2 DEF OnlyChecks, ConnsOf
<1>4. OwnTable'
  BY <1>0 DEF OwnTable
<1> QED
  BY <1>1, <1>3, <1>4 DEF Asked3

LEMMA WorkerAsked ==
    ASSUME IndInv, Wired, Asked3, NEW i \in Conn, WorkerStep(i), UNCHANGED clientVars,
           IndInv', Wired'
    PROVE  Asked3'
<1>0. ConnOK /\ conn \in [Conn -> Connection]
  BY Wires DEF Wired
<1>1. CASE ~Receive(i) /\ ~Send(i)
  <2>1. conn' = conn /\ \A j \in Conn : work'[j].req = work[j].req
    BY <1>1, Inner
  <2> QED
    BY <2>1, AskedFrame DEF Carried
<1>2. CASE Receive(i)
  <2>1. /\ conn[i].st = "sent"
        /\ conn' = [conn EXCEPT ![i] = [conn[i] EXCEPT !.st = "served", !.req = NoReq]]
        /\ work'[i].req = conn[i].req
        /\ \A j \in Conn \ {i} : work'[j] = work[j]
    BY <1>0, <1>2, Accepted
  <2>2. /\ conn'[i].st = "served" /\ conn'[i].client = conn[i].client
        /\ \A j \in Conn \ {i} : conn'[j] = conn[j]
    BY <1>0, <2>1 DEF Connection
  <2>3. Carried(i)' = Carried(i) /\ \A j \in Conn \ {i} : Carried(j)' = Carried(j)
    BY <2>1, <2>2 DEF Carried
  <2> QED
    BY <2>1, <2>2, <2>3, AskedFrame
<1>3. CASE Send(i)
  <2>1. /\ \A j \in Conn \ {i} : work'[j] = work[j] /\ conn'[j] = conn[j]
        /\ conn'[i].st \in {"answered", "free"}
    <3>1. conn' = [conn EXCEPT ![i] =
                     IF conn[i].open
                     THEN [conn[i] EXCEPT !.st = "answered", !.rsp = work[i].rsp]
                     ELSE FreeConn]
      BY <1>3 DEF Send
    <3>2. conn'[i].st \in {"answered", "free"}
      BY <1>0, <3>1 DEF Connection, FreeConn
    <3> QED
      BY <1>0, <1>3, <3>1, <3>2, OuterCalls
  <2> QED
    BY <2>1, AskedFrame DEF Carried
<1> QED
  BY <1>1, <1>2, <1>3

LEMMA CrashAsked ==
    ASSUME IndInv, Wired, Asked3, Crash, UNCHANGED clientVars, IndInv', Wired'
    PROVE  Asked3'
<1>1. \A i \in Conn : conn'[i].st \notin {"sent", "served"}
  BY Wires DEF Crash, Connection, FreeConn
<1> QED
  BY <1>1, AskedFrame

LEMMA AlterAsked ==
    ASSUME IndInv, Wired, Asked3, Alter, IndInv', Wired'
    PROVE  Asked3'
<1>0. conn \in [Conn -> Connection]
  BY Wires
<1>1. UNCHANGED serverVars /\ UNCHANGED clientVars
  BY Altered
<1>2. PICK i \in Conn, w \in AgreeRequest :
        /\ conn[i].st = "sent" /\ conn[i].req \in AgreeRequest
        /\ w.authCode = conn[i].req.authCode
        /\ conn' = [conn EXCEPT ![i] = [conn[i] EXCEPT !.req = w]]
  BY Altered
<1>3. /\ conn'[i].st = "sent" /\ conn'[i].client = conn[i].client
      /\ conn'[i].req = w
      /\ \A j \in Conn \ {i} : conn'[j] = conn[j]
  BY <1>0, <1>2 DEF Connection
<1>4. w.cmdType = conn[i].req.cmdType
  BY <1>2 DEF AgreeRequest
<1>5. work' = work
  BY <1>1 DEF serverVars
<1> QED
  BY <1>1, <1>2, <1>3, <1>4, <1>5, AskedFrame DEF Carried

LEMMA RequestAsked ==
    ASSUME IndInv, Wired, Asked3, NEW c \in Client, NEW req \in RequestMsg, Asks(c, req)
    PROVE  Asked3'
<1>0. /\ ConnOK /\ CurOK /\ AskedOK /\ OnlyChecks /\ OwnTable
      /\ conn \in [Conn -> Connection]
      /\ cur \in [Client -> Conn \cup {NoConn}]
      /\ creq \in [Client -> RequestMsg \cup {NoReq}]
      /\ NoClient \notin Client /\ NoConn \notin Conn
      /\ sure \cup alone \subseteq Client
  <2>1. sure \cup alone \subseteq Client
    BY DEF IndInv, TypeOK, ClientTypeOK
  <2> QED
    BY <2>1, Wires DEF Wired, Asked3
<1>1. /\ AtMenu(c) /\ creq' = [creq EXCEPT ![c] = req] /\ creq'[c] = req /\ ~AtMenu(c)'
      /\ UNCHANGED <<cshm, sure>>
      /\ alone' = IF ConnsOf(c) = {} THEN alone \cup {c} ELSE alone
  BY <1>0, Requested DEF Asks
<1>2. work' = work
  BY <1>0, Requested DEF Asks, serverVars
<1>3. cur[c] = NoConn /\ c \notin alone
  BY <1>0, <1>1 DEF CurOK
<1>4. \A d \in Client \ {c} : creq'[d] = creq[d] /\ (d \in alone' <=> d \in alone)
  BY <1>0, <1>1
<1>5. OwnTable' /\ \A d \in Client : OwnKey(d)' = OwnKey(d)
  BY <1>0, <1>1 DEF OwnTable, OwnKey
<1>6. /\ req.authCode = Mac(c, IF req.cmdType = "NewOrUpdate" THEN req.r1
                               ELSE OwnKey(c).seckey)
      /\ req.cmdType = "NewOrUpdate" => req.r1 \in Nonce1
      /\ req.cmdType # "NewOrUpdate" => OwnKey(c).status = 1
  BY DEF Asks
<1>7. c \in sure' \cup alone' => \A j \in ConnsOf(c) : Carried(j).cmdType = "Check"
  BY <1>0, <1>1, <1>3 DEF OnlyChecks, ConnsOf
<1>8. CASE UNCHANGED <<conn, cur>>
  <2>1. \A j \in Conn : Carried(j)' = Carried(j)
    BY <1>2, <1>8 DEF Carried
  <2>2. AskedOK'
    BY <1>0, <1>1, <1>3, <1>4, <1>5, <1>6, <1>8, <2>1 DEF AskedOK, AtMenu
  <2>3. OnlyChecks'
    BY <1>0, <1>1, <1>4, <1>7, <1>8, <2>1 DEF OnlyChecks, ConnsOf
  <2> QED
    BY <1>5, <2>2, <2>3 DEF Asked3
<1>9. ASSUME NEW i \in Conn, conn[i].st = "free",
             cur' = [cur EXCEPT ![c] = i],
             conn' = [conn EXCEPT ![i] =
                        [st |-> "sent", client |-> c, open |-> TRUE,
                         req |-> req, rsp |-> NoRsp]]
      PROVE  Asked3'
  <2>1. /\ conn'[i].st = "sent" /\ conn'[i].client = c
        /\ conn'[i].req = req /\ \A j \in Conn \ {i} : conn'[j] = conn[j]
    BY <1>0, <1>9
  <2>2. conn[i].client = NoClient
    BY <1>0, <1>9 DEF ConnOK
  <2>3. cur'[c] = i /\ \A d \in Client \ {c} : cur'[d] = cur[d] /\ cur[d] # i
    BY <1>0, <1>9, <2>2 DEF CurOK
  <2>4. Carried(i)' = req /\ \A j \in Conn \ {i} : Carried(j)' = Carried(j)
    BY <1>2, <2>1 DEF Carried
  <2>5. AskedOK'
    <3> DEFINE Now(j) == IF conn'[j].st = "sent" THEN conn'[j].req ELSE work'[j].req
    <3>0. Now(i) = req /\ \A j \in Conn \ {i} : Now(j) = Carried(j)
      BY <1>2, <2>1 DEF Carried
    <3>1. ASSUME NEW d \in Client, d # c, ~AtMenu(d)'
          PROVE  /\ creq'[d].authCode =
                       Mac(d, IF creq'[d].cmdType = "NewOrUpdate" THEN creq'[d].r1
                              ELSE OwnKey(d)'.seckey)
                 /\ creq'[d].cmdType = "NewOrUpdate" => creq'[d].r1 \in Nonce1
                 /\ creq'[d].cmdType # "NewOrUpdate" => OwnKey(d)'.status = 1
                 /\ cur'[d] # NoConn /\ conn'[cur'[d]].st \in {"sent", "served"} =>
                       /\ Now(cur'[d]).cmdType = creq'[d].cmdType
                       /\ Now(cur'[d]).authCode = creq'[d].authCode
      <4>1. ~AtMenu(d) /\ creq'[d] = creq[d] /\ OwnKey(d)' = OwnKey(d)
        BY <1>4, <1>5, <3>1 DEF AtMenu
      <4>2. cur'[d] = cur[d] /\ cur[d] # i
        BY <2>3, <3>1
      <4>3. cur[d] # NoConn => /\ conn'[cur[d]] = conn[cur[d]]
                               /\ Now(cur[d]) = Carried(cur[d])
        BY <1>0, <2>1, <3>0, <4>2
      <4> QED
        BY <1>0, <4>1, <4>2, <4>3 DEF AskedOK
    <3>2. /\ creq'[c].authCode =
                Mac(c, IF creq'[c].cmdType = "NewOrUpdate" THEN creq'[c].r1
                       ELSE OwnKey(c)'.seckey)
          /\ creq'[c].cmdType = "NewOrUpdate" => creq'[c].r1 \in Nonce1
          /\ creq'[c].cmdType # "NewOrUpdate" => OwnKey(c)'.status = 1
          /\ Now(cur'[c]).cmdType = creq'[c].cmdType
          /\ Now(cur'[c]).authCode = creq'[c].authCode
      BY <1>1, <1>5, <1>6, <2>3, <3>0
    <3> QED
      BY <3>1, <3>2 DEF AskedOK, Carried
  <2>6. OnlyChecks'
    <3>1. ASSUME NEW d \in sure' \cup alone', NEW j \in Conn, conn'[j].client = d,
                 j # cur'[d]
          PROVE  Carried(j)'.cmdType = "Check"
      <4>0. j # i /\ conn[j].client = d /\ d \in Client
        BY <1>0, <1>1, <2>1, <2>3, <3>1
      <4>1. CASE d = c
        BY <1>7, <2>4, <3>1, <4>0, <4>1 DEF ConnsOf
      <4>2. CASE d # c
        <5>1. d \in sure \cup alone /\ j # cur[d]
          BY <1>1, <1>4, <2>3, <3>1, <4>0, <4>2
        <5> QED
          BY <1>0, <2>4, <4>0, <5>1 DEF OnlyChecks, ConnsOf
      <4> QED
        BY <4>1, <4>2
    <3> QED
      BY <3>1 DEF OnlyChecks, ConnsOf
  <2> QED
    BY <1>5, <2>5, <2>6 DEF Asked3
<1> QED
  BY <1>0, <1>8, <1>9, Requested DEF Asks

\* A client that still knows where it stands when it left without the answer
\* left a check behind.
LEMMA ReceiveAsked ==
    ASSUME IndInv, Wired, Asked3, NEW c \in Client, ClientReceive(c)
    PROVE  Asked3'
<1>0. /\ ConnOK /\ CurOK /\ AskedOK /\ OnlyChecks /\ OwnTable
      /\ conn \in [Conn -> Connection]
      /\ cur \in [Client -> Conn \cup {NoConn}]
      /\ creq \in [Client -> RequestMsg \cup {NoReq}]
      /\ cshm \in [Client -> [1..1 -> NodeSHMInfo]]
      /\ NoClient \notin Client /\ NoConn \notin Conn
      /\ sure \cup alone \subseteq Client
  <2>1. sure \cup alone \subseteq Client /\ cshm \in [Client -> [1..1 -> NodeSHMInfo]]
    BY DEF IndInv, TypeOK, ClientTypeOK
  <2> QED
    BY <2>1, Wires DEF Wired, Asked3
<1>1. /\ Leaves(c) /\ ~AtMenu(c)
      /\ \A d \in Client \ {c} : d \in sure' <=> d \in sure
  BY Ending DEF Leaves
<1>2. /\ creq' = [creq EXCEPT ![c] = NoReq] /\ AtMenu(c)'
      /\ cur' = [cur EXCEPT ![c] = NoConn] /\ alone' = alone \ {c}
  BY <1>1, Gone DEF Wired
<1>3. work' = work
  BY <1>1, Gone DEF serverVars
<1>4. /\ cur'[c] = NoConn
      /\ \A d \in Client \ {c} : /\ creq'[d] = creq[d] /\ cur'[d] = cur[d]
                                 /\ d \in alone' <=> d \in alone
  BY <1>0, <1>2
<1>5. /\ \A d \in Client \ {c} : cshm'[d] = cshm[d]
      /\ cshm'[c][1] = Zero \/ cshm'[c][1].clientID = c
  <2>1. PICK rsp \in RespondMsg :
          cshm' = cshm \/ cshm' = [cshm EXCEPT ![c] = TableAfter(c, rsp)]
    BY Ending
  <2>2. TableAfter(c, rsp)[1] = Zero \/ TableAfter(c, rsp)[1].clientID = c
    BY <1>0, <1>1, Stored, ZenonT(60)
  <2> QED
    BY <1>0, <2>1, <2>2 DEF OwnTable
\* The client's other connections are left as they are, and its last one is
\* given up or waits for the server.
<1>6. \A j \in Conn : j # cur[c] => conn'[j] = conn[j] /\ Carried(j)' = Carried(j)
  BY <1>1, <1>3, Gone DEF Carried, Wired
<1>7. \A d \in Client \ {c} : cur[d] # NoConn => cur[d] # cur[c]
  BY <1>0 DEF CurOK
<1>8. cur[c] # NoConn =>
        /\ cur[c] \in Conn /\ conn[cur[c]].client = c
        /\ \/ /\ conn[cur[c]].st \in {"answered", "lost"}
              /\ conn'[cur[c]].client = NoClient
           \/ /\ conn[cur[c]].st \in {"sent", "served"}
              /\ conn'[cur[c]].client = c
              /\ IF conn'[cur[c]].st = "sent"
                 THEN conn'[cur[c]].req = Carried(cur[c])
                 ELSE work'[cur[c]].req = Carried(cur[c])
  <2> SUFFICES ASSUME cur[c] # NoConn
               PROVE  /\ cur[c] \in Conn /\ conn[cur[c]].client = c
                      /\ \/ /\ conn[cur[c]].st \in {"answered", "lost"}
                            /\ conn'[cur[c]].client = NoClient
                         \/ /\ conn[cur[c]].st \in {"sent", "served"}
                            /\ conn'[cur[c]].client = c
                            /\ IF conn'[cur[c]].st = "sent"
                               THEN conn'[cur[c]].req = Carried(cur[c])
                               ELSE work'[cur[c]].req = Carried(cur[c])
    OBVIOUS
  <2> DEFINE i == cur[c]
  <2>1. /\ i \in Conn /\ conn[i].client = c /\ conn[i].open
        /\ IF conn[i].st \in {"answered", "lost"}
           THEN conn'[i] = FreeConn
           ELSE /\ conn'[i].st = conn[i].st
                /\ conn'[i].client = c
                /\ conn'[i].req = conn[i].req
    BY <1>1, Gone DEF Wired
  <2> HIDE DEF i
  <2>2. conn[i].st \in {"sent", "served", "answered", "lost"}
    BY <1>0, <2>1 DEF ConnOK, Connection
  <2>3. /\ i \in Conn /\ conn[i].client = c
        /\ \/ conn[i].st \in {"answered", "lost"} /\ conn'[i].client = NoClient
           \/ /\ conn[i].st \in {"sent", "served"} /\ conn'[i].client = c
              /\ IF conn'[i].st = "sent" THEN conn'[i].req = Carried(i)
                 ELSE work'[i].req = Carried(i)
    BY <1>3, <2>1, <2>2 DEF FreeConn, Carried
  <2> QED
    BY <2>3 DEF i
<1>9. AskedOK'
  <2>1. ASSUME NEW d \in Client, ~AtMenu(d)'
        PROVE  /\ creq'[d].authCode =
                     Mac(d, IF creq'[d].cmdType = "NewOrUpdate" THEN creq'[d].r1
                            ELSE OwnKey(d)'.seckey)
               /\ creq'[d].cmdType = "NewOrUpdate" => creq'[d].r1 \in Nonce1
               /\ creq'[d].cmdType # "NewOrUpdate" => OwnKey(d)'.status = 1
               /\ cur'[d] # NoConn /\ conn'[cur'[d]].st \in {"sent", "served"} =>
                     LET req == IF conn'[cur'[d]].st = "sent" THEN conn'[cur'[d]].req
                                ELSE work'[cur'[d]].req
                     IN  req.cmdType = creq'[d].cmdType /\ req.authCode = creq'[d].authCode
    <3>1. d # c
      BY <1>2, <2>1
    <3>2. ~AtMenu(d) /\ creq'[d] = creq[d] /\ cur'[d] = cur[d] /\ OwnKey(d)' = OwnKey(d)
      BY <1>4, <1>5, <2>1, <3>1 DEF AtMenu, OwnKey
    <3>3. cur[d] # NoConn => conn'[cur[d]] = conn[cur[d]] /\ work'[cur[d]] = work[cur[d]]
      BY <1>0, <1>3, <1>6, <1>7, <3>1
    <3> QED
      BY <1>0, <3>2, <3>3 DEF AskedOK, Carried
  <2> QED
    BY <2>1 DEF AskedOK, Carried
<1>10. OnlyChecks'
  <2>1. ASSUME NEW d \in sure' \cup alone', NEW j \in Conn, conn'[j].client = d,
               j # cur'[d]
        PROVE  (IF conn'[j].st = "sent" THEN conn'[j].req ELSE work'[j].req).cmdType
                  = "Check"
    <3>0. d \in Client
      BY <1>0, <1>1, <1>2, <2>1, Ending DEF SureAfter, SureWithout
    <3>1. CASE d # c
      <4>1. d \in sure \cup alone /\ cur'[d] = cur[d]
        BY <1>1, <1>4, <2>1, <3>0, <3>1
      <4>2. j # cur[c]
        BY <1>0, <1>8, <2>1, <3>0, <3>1
      <4> QED
        BY <1>0, <1>6, <2>1, <4>1, <4>2 DEF OnlyChecks, ConnsOf, Carried
    <3>2. CASE d = c /\ j # cur[c]
      <4>1. c \in sure \cup alone
        BY <1>2, <2>1, <3>2, Ending DEF SureAfter, SureWithout
      <4> QED
        BY <1>0, <1>6, <2>1, <3>2, <4>1 DEF OnlyChecks, ConnsOf, Carried
    <3>3. CASE d = c /\ j = cur[c]
      <4>1. /\ conn[cur[c]].st \in {"sent", "served"}
            /\ IF conn'[cur[c]].st = "sent"
               THEN conn'[cur[c]].req = Carried(cur[c])
               ELSE work'[cur[c]].req = Carried(cur[c])
        BY <1>0, <1>8, <2>1, <3>0, <3>3
      <4>2. ~Answered(c)
        BY <4>1 DEF Answered
      <4>3. creq[c].cmdType = "Check"
        BY <1>2, <2>1, <3>3, <4>2, Ending DEF SureWithout
      <4>4. Carried(cur[c]).cmdType = "Check"
        BY <1>0, <1>1, <3>3, <4>1, <4>3 DEF AskedOK
      <4> QED
        BY <3>3, <4>1, <4>4
    <3> QED
      BY <3>1, <3>2, <3>3
  <2> QED
    BY <2>1 DEF OnlyChecks, ConnsOf, Carried
<1>11. OwnTable'
  BY <1>0, <1>5 DEF OwnTable
<1> QED
  BY <1>9, <1>10, <1>11 DEF Asked3

LEMMA AskedNext ==
    ASSUME "noSend" \notin Faults, IndInv, Wired, Asked3, [Next]_vars, IndInv', Wired'
    PROVE  Asked3'
<1>1. CASE StartUp /\ UNCHANGED clientVars
  <2>1. UNCHANGED <<conn, work>>
    BY <1>1 DEF StartUp, Boot, LoadRow, Listen
  <2> QED
    BY <1>1, <2>1, AskedFrame DEF Carried
<1>2. CASE UNCHANGED vars
  <2>1. UNCHANGED <<conn, work>> /\ UNCHANGED clientVars
    BY <1>2 DEF vars, serverVars
  <2> QED
    BY <2>1, AskedFrame DEF Carried
<1>3. ASSUME NEW c \in Client, ClientStep(c)
      PROVE  Asked3'
  BY <1>3, ClientKinds, ReceiveAsked, RequestAsked DEF Asked3
<1> QED
  BY <1>1, <1>2, <1>3, WorkerAsked, CrashAsked, AlterAsked DEF Next, Server

LEMMA AskedInit == Init => Asked3
<1> SUFFICES ASSUME Init PROVE Asked3
  OBVIOUS
<1>1. /\ \A c \in Client : creq[c] = NoReq /\ cshm[c] = ZeroTable(1)
      /\ \A i \in Conn : conn[i].client = NoClient
      /\ sure = Client /\ alone = {}
  BY DEF Init, WireInit, ClientInit, FreeConn
<1>2. AskedOK /\ OwnTable
  BY <1>1 DEF AskedOK, AtMenu, OwnTable, ZeroTable
<1>3. OnlyChecks
  BY <1>1, Constants DEF OnlyChecks, ConnsOf
<1> QED
  BY <1>2, <1>3 DEF Asked3

-----------------------------------------------------------------------------
(* The key and the id in the worker's hands.                               *)

\* What the calls of a worker do to its response.
LEMMA OuterRsp ==
    ASSUME IndInv, NEW i \in Conn
    PROVE  /\ QueryNode(i) => work'[i].rsp = work[i].rsp
           /\ CheckId(i) =>
                 \/ /\ work'[i].pc = "send" /\ work'[i].rsp.rv = 2
                    /\ \E rows \in Read(i) : rows <= 0
                 \/ /\ work'[i].rsp = work[i].rsp
                    /\ \/ work'[i].pc = "agree" /\ work[i].req.cmdType = "NewOrUpdate"
                       \/ work'[i].pc = "check" /\ work[i].req.cmdType = "Check"
                       \/ work'[i].pc = "revoke" /\ work[i].req.cmdType = "Revoke"
           /\ Check(i) => work'[i].pc = "send" /\ work'[i].rsp.rv \in {0, 1}
           /\ AgreeReject(i) \/ RevokeReject(i) =>
                 work'[i].pc = "send" /\ work'[i].rsp.rv = 1
           /\ RevokeAccept(i) => work'[i].rsp = work[i].rsp
           /\ ShmWriteStep(i) => work'[i].rsp = work[i].rsp
           /\ RevokeDb(i) => work'[i].pc = "send" /\ work'[i].rsp.rv = 0
           /\ SelectKey(i) => work'[i].rsp = work[i].rsp
           /\ DecideInsert(i) => work'[i].rsp = work[i].rsp
           /\ SelectMax(i) => work'[i].rsp = work[i].rsp
           /\ UpdateRows(i) \/ InsertRow(i) =>
                 /\ work'[i].pc = "send" /\ work'[i].rsp.rv = 0
                 /\ work'[i].rsp.r2 = work[i].rsp.r2
                 /\ work'[i].rsp.seckeyid = work[i].rsp.seckeyid
<1>1. ASSUME NEW pc \in Pc, Goto(i, pc)
      PROVE  work'[i].pc = pc /\ work'[i].rsp = work[i].rsp
  <2>1. work'[i] = [work[i] EXCEPT !.pc = pc] /\ work[i] \in Worker
    BY <1>1, Busy, GotoType
  <2> QED
    BY <2>1 DEF Worker
<1>2. ASSUME NEW rv \in {0, 1, 2}, Answer(i, rv), work[i].pc # "idle"
      PROVE  /\ work'[i].pc = "send" /\ work'[i].rsp.rv = rv
             /\ work'[i].rsp.r2 = work[i].rsp.r2
             /\ work'[i].rsp.seckeyid = work[i].rsp.seckeyid
  <2> DEFINE rsp == [work[i].rsp EXCEPT !.rv = rv]
             w == [work[i] EXCEPT !.pc = "send", !.rsp = rsp]
  <2>1. work' = [work EXCEPT ![i] = w] /\ work[i] \in Worker /\ work[i].rsp \in RespondMsg
    BY <1>2, Busy DEF Answer, WorkType, Worker
  <2>2. work'[i].pc = "send" /\ work'[i].rsp = rsp
    BY <2>1, Busy DEF Worker, WorkType
  <2>3. rsp.rv = rv /\ rsp.r2 = work[i].rsp.r2 /\ rsp.seckeyid = work[i].rsp.seckeyid
    BY <2>1 DEF RespondMsg
  <2> HIDE DEF rsp
  <2> QED
    BY <2>2, <2>3
<1>3. CheckId(i) =>
         \/ /\ work'[i].pc = "send" /\ work'[i].rsp.rv = 2
            /\ \E rows \in Read(i) : rows <= 0
         \/ /\ work'[i].rsp = work[i].rsp
            /\ \/ work'[i].pc = "agree" /\ work[i].req.cmdType = "NewOrUpdate"
               \/ work'[i].pc = "check" /\ work[i].req.cmdType = "Check"
               \/ work'[i].pc = "revoke" /\ work[i].req.cmdType = "Revoke"
  BY <1>1, <1>2 DEF CheckId, At, Pc
<1>4. QueryNode(i) => work'[i].rsp = work[i].rsp
  BY <1>1 DEF QueryNode, Pc
<1>5. /\ Check(i) => work'[i].pc = "send" /\ work'[i].rsp.rv \in {0, 1}
      /\ AgreeReject(i) \/ RevokeReject(i) => work'[i].pc = "send" /\ work'[i].rsp.rv = 1
      /\ RevokeDb(i) => work'[i].pc = "send" /\ work'[i].rsp.rv = 0
  BY <1>2 DEF Check, AgreeReject, RevokeReject, RevokeDb, At
<1>6. RevokeAccept(i) => work'[i].rsp = work[i].rsp
  <2> SUFFICES ASSUME RevokeAccept(i) PROVE work'[i].rsp = work[i].rsp
    OBVIOUS
  <2> DEFINE node == [ShmRead(shm, NameOf(i)) EXCEPT !.status = 0]
             w == [work[i] EXCEPT !.pc = "ownSlot", !.node = node]
  <2>1. work' = [work EXCEPT ![i] = w] /\ work[i] \in Worker
    BY Busy DEF RevokeAccept, WorkType, Worker, NameOf
  <2> QED
    BY <2>1, Busy DEF Worker, WorkType
<1>7. SelectKey(i) \/ DecideInsert(i) \/ SelectMax(i) => work'[i].rsp = work[i].rsp
  BY <1>1 DEF SelectKey, DecideInsert, SelectMax, Pc
<1>9. ShmWriteStep(i) => work'[i].rsp = work[i].rsp
  <2>1. ASSUME NEW pc, NEW slot, work' = [work EXCEPT ![i].pc = pc, ![i].slot = slot]
        PROVE  work'[i].rsp = work[i].rsp
    <3> DEFINE w == [work[i] EXCEPT !.pc = pc, !.slot = slot]
    <3>1. work' = [work EXCEPT ![i] = w] /\ work[i] \in Worker
      BY <2>1, Busy DEF WorkType, Worker
    <3> QED
      BY <3>1, Busy DEF Worker, WorkType
  <2> QED
    BY <2>1 DEF ShmWriteStep, OwnSlot, FreeSlot, Copy
<1>8. UpdateRows(i) \/ InsertRow(i) =>
         /\ work'[i].pc = "send" /\ work'[i].rsp.rv = 0
         /\ work'[i].rsp.r2 = work[i].rsp.r2
         /\ work'[i].rsp.seckeyid = work[i].rsp.seckeyid
  BY <1>2 DEF UpdateRows, InsertRow, At
<1> QED
  BY <1>3, <1>4, <1>5, <1>6, <1>7, <1>8, <1>9

\* The calls that put the key and its id together.
LEMMA KeyRsp ==
    ASSUME IndInv, NEW i \in Conn
    PROVE  /\ AgreeAccept(i) =>
                 /\ work[i].req.authCode = Mac(NameOf(i), work[i].req.r1)
                 /\ work'[i].node.seckey = <<work[i].req.r1, work'[i].rsp.r2>>
           /\ DecideUpdate(i) =>
                 /\ work'[i].rsp.r2 = work[i].rsp.r2
                 /\ work'[i].rsp.seckeyid \in Read(i)
           /\ TakeId(i) =>
                 /\ work'[i].rsp.r2 = work[i].rsp.r2
                 /\ \E m \in Read(i) : work'[i].rsp.seckeyid = m + 1
<1>1. ASSUME AgreeAccept(i)
      PROVE  /\ work[i].req.authCode = Mac(NameOf(i), work[i].req.r1)
             /\ work'[i].node.seckey = <<work[i].req.r1, work'[i].rsp.r2>>
  <2>1. PICK r2 \in Nonce2 :
          work' = [work EXCEPT ![i] =
                     [@ EXCEPT !.pc = "ownSlot", !.rsp.r2 = r2,
                               !.node = [status |-> 1, seckeyID |-> work[i].rsp.seckeyid,
                                         clientID |-> work[i].req.clientId,
                                         seckey |-> <<work[i].req.r1, r2>>]]]
    BY <1>1 DEF AgreeAccept
  <2> DEFINE node == [status |-> 1, seckeyID |-> work[i].rsp.seckeyid,
                      clientID |-> work[i].req.clientId,
                      seckey |-> <<work[i].req.r1, r2>>]
             rsp == [work[i].rsp EXCEPT !.r2 = r2]
             w == [work[i] EXCEPT !.pc = "ownSlot", !.rsp = rsp, !.node = node]
  <2>2. /\ work[i] \in Worker /\ i \in DOMAIN work /\ work[i].rsp \in RespondMsg
    BY <1>1, Busy DEF WorkType, AgreeAccept, At
  <2>5. work' = [work EXCEPT ![i] = w]
    BY <2>1, <2>2 DEF Worker
  <2>3. work'[i].node = node /\ work'[i].rsp = rsp
    BY <2>2, <2>5, Busy DEF Worker, WorkType
  <2>4. rsp.r2 = r2 /\ node.seckey = <<work[i].req.r1, r2>>
    BY <2>2 DEF RespondMsg
  <2> HIDE DEF rsp, node
  <2> QED
    BY <1>1, <2>3, <2>4 DEF AgreeAccept, NameOf
<1>2. ASSUME NEW pc, NEW id, work[i].rsp \in RespondMsg,
             work' = [work EXCEPT ![i].pc = pc, ![i].rsp.seckeyid = id]
      PROVE  work'[i].rsp.r2 = work[i].rsp.r2 /\ work'[i].rsp.seckeyid = id
  <2> DEFINE rsp == [work[i].rsp EXCEPT !.seckeyid = id]
             w == [work[i] EXCEPT !.pc = pc, !.rsp = rsp]
  <2>1. work' = [work EXCEPT ![i] = w] /\ work[i] \in Worker
    BY <1>2, Busy DEF WorkType, Worker
  <2>2. work'[i].rsp = rsp
    BY <2>1, Busy DEF Worker, WorkType
  <2>3. rsp.r2 = work[i].rsp.r2 /\ rsp.seckeyid = id
    BY <1>2 DEF RespondMsg
  <2> HIDE DEF rsp
  <2> QED
    BY <2>2, <2>3
<1>3. DecideUpdate(i) \/ TakeId(i) => work[i].rsp \in RespondMsg
  BY Busy DEF DecideUpdate, TakeId, At
<1>4. DecideUpdate(i) => /\ work'[i].rsp.r2 = work[i].rsp.r2
                         /\ work'[i].rsp.seckeyid \in Read(i)
  BY <1>2, <1>3 DEF DecideUpdate
<1>5. TakeId(i) => /\ work'[i].rsp.r2 = work[i].rsp.r2
                   /\ \E m \in Read(i) : work'[i].rsp.seckeyid = m + 1
  BY <1>2, <1>3 DEF TakeId
<1> QED
  BY <1>1, <1>4, <1>5

Fits == Dispatched /\ KeyFits

\* A worker stays in the operation it was dispatched to, with the key it made.
LEMMA WorkerFits ==
    ASSUME IndInv, Fits, NEW i \in Conn, WorkerStep(i)
    PROVE  Fits'
<1>0. /\ Dispatched /\ KeyFits
      /\ \A j \in Conn \ {i} : work'[j] = work[j]
  <2>1. \A j \in Conn \ {i} : work'[j] = work[j]
    BY OneMoves
  <2> QED
    BY <2>1 DEF Fits
<1>1. ASSUME work'[i].pc = "check" => work'[i].req.cmdType = "Check",
             work'[i].pc \in {"revoke", "revokeDb"} => work'[i].req.cmdType = "Revoke",
             work'[i].pc \in WritePc /\ work'[i].req.cmdType # "NewOrUpdate" =>
                work'[i].req.cmdType = "Revoke",
             \/ work'[i].pc \in AgreePc \ {"agree"}
             \/ work'[i].pc \in WritePc /\ work'[i].req.cmdType = "NewOrUpdate"
             => /\ work'[i].req.authCode = Mac(NameOf(i)', work'[i].req.r1)
                /\ work'[i].node.seckey = <<work'[i].req.r1, work'[i].rsp.r2>>
                /\ work'[i].node.status = 1
      PROVE  Fits'
  BY <1>0, <1>1 DEF Fits, Dispatched, KeyFits, Keyed, Agrees, NameOf
<1>2. CASE Receive(i) \/ Send(i) \/ QueryNode(i)
  <2>1. work'[i].pc \in {"query", "checkId", "idle"}
    BY <1>2, ReceiveCall, OuterCalls DEF Moves
  <2> QED
    BY <1>1, <2>1 DEF AgreePc, WritePc
<1>3. CASE CheckId(i)
  <2>1. work'[i].req = work[i].req
    BY <1>3, OuterCalls DEF Moves
  <2> QED
    BY <1>1, <1>3, <2>1, OuterRsp DEF AgreePc, WritePc
<1>4. CASE Check(i) \/ AgreeReject(i) \/ RevokeReject(i) \/ RevokeDb(i) \/ UpdateRows(i)
           \/ InsertRow(i)
  <2>1. work'[i].pc = "send"
    BY <1>4, OuterRsp
  <2> QED
    BY <1>1, <2>1 DEF AgreePc, WritePc
<1>5. CASE RevokeAccept(i)
  <2>1. /\ work[i].pc = "revoke" /\ work'[i].pc = "ownSlot" /\ work'[i].req = work[i].req
    BY <1>5, RevokeCalls DEF Moves
  <2>2. work[i].req.cmdType = "Revoke"
    BY <1>0, <2>1 DEF Dispatched
  <2> QED
    BY <1>1, <2>1, <2>2 DEF AgreePc
<1>6. CASE AgreeAccept(i)
  <2>1. /\ work'[i].pc = "ownSlot" /\ work'[i].req = work[i].req /\ NameOf(i)' = NameOf(i)
        /\ work[i].req.cmdType = "NewOrUpdate" /\ work'[i].node.status = 1
    BY <1>6, AgreeCalls DEF Moves
  <2> QED
    BY <1>1, <1>6, <2>1, KeyRsp
<1>7. CASE SelectKey(i) \/ DecideUpdate(i) \/ DecideInsert(i) \/ SelectMax(i) \/ TakeId(i)
  <2>1. /\ work[i].pc \in AgreePc \ {"agree"} /\ work'[i].pc \in AgreePc \ {"agree"}
        /\ work'[i].req = work[i].req /\ NameOf(i)' = NameOf(i)
        /\ work'[i].node = work[i].node
    BY <1>7, AgreeCalls DEF Moves, AgreePc
  <2>2. work'[i].rsp.r2 = work[i].rsp.r2
    BY <1>7, OuterRsp, KeyRsp
  <2>3. work'[i].pc \notin {"check", "revoke", "revokeDb"} \cup WritePc
    BY <2>1 DEF AgreePc, WritePc
  <2> QED
    BY <1>0, <1>1, <2>1, <2>2, <2>3 DEF KeyFits, Keyed
<1>8. CASE ShmWriteStep(i)
  <2>1. /\ work[i].pc \in WritePc /\ work'[i].req = work[i].req /\ NameOf(i)' = NameOf(i)
        /\ work'[i].node = work[i].node
        /\ work'[i].pc \in WritePc \cup {IF Agrees(i) THEN "select" ELSE "revokeDb"}
    BY <1>8, WriteCalls DEF ShmWriteStep, Moves, WritePc
  <2>2. work'[i].rsp = work[i].rsp
    BY <1>8, OuterRsp
  <2> QED
    BY <1>0, <1>1, <2>1, <2>2 DEF Dispatched, KeyFits, Keyed, Agrees, AgreePc, WritePc
<1> QED
  BY <1>2, <1>3, <1>4, <1>5, <1>6, <1>7, <1>8 DEF WorkerStep, AgreeStep, RevokeStep

LEMMA FitsNext ==
    ASSUME IndInv, Fits, [Next]_vars
    PROVE  Fits'
<1>1. CASE UNCHANGED work
  BY <1>1 DEF Fits, Dispatched, KeyFits, Keyed, Agrees, NameOf
<1>2. CASE Crash
  <2>1. \A i \in Conn : work'[i].pc = "idle"
    BY <1>2 DEF Crash, Idle
  <2> QED
    BY <2>1 DEF Fits, Dispatched, KeyFits, Keyed, AgreePc, WritePc
<1>3. (StartUp \/ UNCHANGED serverVars) => UNCHANGED work
  BY DEF StartUp, Boot, LoadRow, Listen, serverVars
<1> QED
  BY <1>1, <1>2, <1>3, Kinds, WorkerFits

LEMMA FitsInit == Init => Fits
<1>1. Init => \A i \in Conn : work[i].pc = "idle"
  BY DEF Init, ServerInit, Idle
<1> QED
  BY <1>1 DEF Fits, Dispatched, KeyFits, Keyed, AgreePc, WritePc

Ids == IdFits /\ LastId

\* MAX(keyid) + 1 is what AUTO_INCREMENT will give.
LEMMA MaxIdNext ==
    ASSUME IndInv, LastId
    PROVE  MaxId + 1 = nextId
<1>1. db \subseteq Row /\ IdsBelow /\ nextId \in Nat \ {0}
  BY DEF IndInv, TypeOK, ServerTypeOK
<1>2. \A r \in db : r.keyid \in Nat \ {0} /\ r.keyid < nextId
  BY <1>1 DEF Row, IdsBelow
<1>3. CASE db = {}
  BY <1>3 DEF MaxId, LastId
<1>4. CASE db # {}
  <2> DEFINE ids == {r.keyid : r \in db}
  <2>1. PICK r \in db : r.keyid + 1 = nextId
    BY <1>1, <1>2, <1>4 DEF LastId
  <2>2. r.keyid \in ids /\ \A q \in db : q.keyid <= r.keyid
    BY <1>1, <1>2, <2>1
  <2>3. \A m \in ids : (\A q \in db : q.keyid <= m) => m = r.keyid
    BY <1>2, <2>2
  <2>4. MaxId = CHOOSE m \in ids : \A q \in db : q.keyid <= m
    BY <1>4 DEF MaxId
  <2>5. MaxId = r.keyid
    BY <2>2, <2>3, <2>4
  <2> QED
    BY <2>1, <2>5
<1> QED
  BY <1>3, <1>4

\* The calls that leave every row its id, and the counter where it is.
LEMMA SameIds ==
    ASSUME Enough, AloneSafe, LastId, NEW i \in Conn, WorkerStep(i), ~InsertRow(i)
    PROVE  LastId'
<1>0. IndInv /\ db \subseteq Row
  BY Facts
<1>1. CASE UpdateRows(i) \/ RevokeDb(i)
  <2>1. nextId' = nextId
    BY <1>0, <1>1, AgreeCalls, RevokeCalls
  <2>2. \A r \in db : \E q \in db' : q.keyid = r.keyid
    <3>1. CASE UpdateRows(i)
      <4> DEFINE after(r) == IF r.clientid = work[i].req.clientId
                             THEN [r EXCEPT !.state = 1, !.seckey = work[i].node.seckey]
                             ELSE r
      <4>1. db' = {after(r) : r \in db}
        BY <3>1 DEF UpdateRows, DbFails, Enough
      <4>2. \A r \in db : after(r).keyid = r.keyid
        BY <1>0 DEF Row
      <4> HIDE DEF after
      <4> QED
        BY <4>1, <4>2
    <3>2. CASE RevokeDb(i)
      <4> DEFINE after(r) == IF r.clientid = work[i].req.clientId
                             THEN [r EXCEPT !.state = 0] ELSE r
      <4>1. db' = {after(r) : r \in db}
        BY <3>2 DEF RevokeDb, DbFails, Enough
      <4>2. \A r \in db : after(r).keyid = r.keyid
        BY <1>0 DEF Row
      <4> HIDE DEF after
      <4> QED
        BY <4>1, <4>2
    <3> QED
      BY <1>1, <3>1, <3>2
  <2> QED
    BY <2>1, <2>2 DEF LastId
<1>2. CASE ~(UpdateRows(i) \/ RevokeDb(i))
  <2>1. UNCHANGED <<db, nextId>>
    BY <1>0, <1>2, ReceiveCall, OuterCalls, AgreeCalls, RevokeCalls, WriteCalls
       DEF WorkerStep, AgreeStep, RevokeStep, ShmWriteStep, Quiet
  <2> QED
    BY <2>1 DEF LastId
<1> QED
  BY <1>1, <1>2

\* From the select of the client's row to the answer the id is the right one.
LEMMA WorkerIds ==
    ASSUME Enough, AloneSafe, BothOK, Ids, NEW i \in Conn, WorkerStep(i)
    PROVE  Ids'
<1>0. /\ IndInv /\ Halfway /\ OneRow /\ IdFits /\ LastId
      /\ \A j \in Conn \ {i} : work'[j].pc = "idle"
      /\ db \subseteq Row /\ nextId \in Nat \ {0}
  <2>1. nextId \in Nat \ {0}
    BY Facts DEF IndInv, TypeOK, ServerTypeOK
  <2> QED
    BY <2>1, Facts, Turn DEF Enough, BothOK, Ids
<1>1. ASSUME work'[i].pc = "decide" =>
                \A r \in RowsOf(NameOf(i))' : res'.val = r.keyid,
             work'[i].pc = "update" =>
                \A r \in RowsOf(NameOf(i))' : work'[i].rsp.seckeyid = r.keyid,
             work'[i].pc = "takeId" => res'.by = i /\ res'.val + 1 = nextId',
             work'[i].pc = "insert" => work'[i].rsp.seckeyid = nextId'
      PROVE  IdFits'
  BY <1>0, <1>1 DEF IdFits, NameOf, RowsOf
<1>2. ASSUME ~InsertRow(i)
      PROVE  LastId'
  BY <1>2, <1>0, SameIds
<1>3. CASE SelectKey(i)
  <2> DEFINE c == NameOf(i)
             ids == KeyIdsOf(c)
  <2>1. /\ work'[i].pc = "decide" /\ NameOf(i)' = c /\ db' = db
        /\ work[i].pc = "select" /\ ~InsertRow(i)
    BY <1>0, <1>3, AgreeCalls DEF Moves, Quiet, InsertRow, At
  <2>2. res' = [by |-> i, val |-> IF ids = {} THEN 0 ELSE First(ids)]
    BY <1>3 DEF SelectKey, NameOf
  <2>3. RowsOf(NameOf(i))' = RowsOf(c)
    BY <2>1 DEF RowsOf
  <2>4. ASSUME NEW r \in RowsOf(c)
        PROVE  res'.val = r.keyid
    <3>1. ids = {r.keyid} /\ r.keyid \in Nat
      BY <1>0, <2>4 DEF KeyIdsOf, RowsOf, OneRow, Row
    <3>2. First({r.keyid}) = r.keyid
      BY <3>1 DEF First
    <3> QED
      BY <2>2, <3>1, <3>2
  <2> HIDE DEF c, ids
  <2> QED
    BY <1>1, <1>2, <2>1, <2>3, <2>4 DEF Ids
<1>4. CASE DecideUpdate(i)
  <2>1. /\ work[i].pc = "decide" /\ work'[i].pc = "update"
        /\ NameOf(i)' = NameOf(i) /\ db' = db /\ ~InsertRow(i)
        /\ work'[i].rsp.seckeyid \in Read(i)
    BY <1>0, <1>4, AgreeCalls, KeyRsp DEF Moves, Quiet, InsertRow, At
  <2>2. Read(i) = {res.val}
    BY <1>0, <2>1 DEF Halfway, Read
  <2>3. RowsOf(NameOf(i))' = RowsOf(NameOf(i))
    BY <2>1 DEF RowsOf
  <2> QED
    BY <1>0, <1>1, <1>2, <2>1, <2>2, <2>3 DEF IdFits, Ids
<1>5. CASE SelectMax(i)
  <2>1. /\ work'[i].pc = "takeId" /\ nextId' = nextId /\ ~InsertRow(i)
    BY <1>0, <1>5, AgreeCalls DEF Moves, Quiet, InsertRow, At
  <2>2. res'.by = i /\ res'.val = MaxId
    BY <1>5 DEF SelectMax
  <2> QED
    BY <1>0, <1>1, <1>2, <2>1, <2>2, MaxIdNext DEF Ids
<1>6. CASE TakeId(i)
  <2>1. /\ work[i].pc = "takeId" /\ work'[i].pc = "insert" /\ nextId' = nextId
        /\ ~InsertRow(i)
    BY <1>0, <1>6, AgreeCalls DEF Moves, Quiet, InsertRow, At
  <2>2. res.by = i /\ res.val + 1 = nextId
    BY <1>0, <2>1 DEF IdFits
  <2>3. PICK m \in Read(i) : work'[i].rsp.seckeyid = m + 1
    BY <1>0, <1>6, KeyRsp
  <2>4. m = res.val
    BY <2>2, <2>3 DEF Read
  <2> QED
    BY <1>1, <1>2, <2>1, <2>2, <2>3, <2>4 DEF Ids
<1>7. CASE InsertRow(i)
  <2>1. work'[i].pc = "send"
    BY <1>0, <1>7, AgreeCalls DEF Moves
  <2> DEFINE row == [clientid |-> NameOf(i), keyid |-> nextId, state |-> 1,
                     seckey |-> work[i].node.seckey]
  <2>2. db' = db \cup {row} /\ nextId' = nextId + 1
    BY <1>7, Inserted
  <2>3. row.keyid = nextId /\ row \in db'
    BY <2>2
  <2> HIDE DEF row
  <2>4. LastId'
    BY <2>2, <2>3 DEF LastId
  <2> QED
    BY <1>1, <2>1, <2>4 DEF Ids
<1>8. CASE ~(SelectKey(i) \/ DecideUpdate(i) \/ SelectMax(i) \/ TakeId(i) \/ InsertRow(i))
  <2>1. work'[i].pc \notin {"decide", "update", "takeId", "insert"}
    <3>1. CASE ShmWriteStep(i)
      BY <1>0, <3>1, WriteCalls DEF ShmWriteStep, Moves
    <3>2. CASE ~ShmWriteStep(i)
      BY <1>0, <1>8, <3>2, ReceiveCall, OuterCalls, AgreeCalls, RevokeCalls, ZenonT(60)
         DEF WorkerStep, AgreeStep, RevokeStep, Moves
    <3> QED
      BY <3>1, <3>2
  <2> QED
    BY <1>1, <1>2, <1>8, <2>1 DEF Ids
<1> QED
  BY <1>3, <1>4, <1>5, <1>6, <1>7, <1>8

LEMMA IdsNext ==
    ASSUME Enough, AloneSafe, BothOK, Ids, [Next]_vars
    PROVE  Ids'
<1>1. CASE StartUp
  <2>1. UNCHANGED <<db, nextId, work>> /\ \A i \in Conn : work[i].pc = "idle"
    BY <1>1 DEF StartUp, Boot, LoadRow, Listen, AloneSafe, AloneOK, OnlyUp, Serving
  <2> QED
    BY <2>1 DEF Ids, IdFits, LastId
<1>2. CASE Crash
  <2>1. UNCHANGED <<db, nextId>> /\ \A i \in Conn : work'[i].pc = "idle"
    BY <1>2 DEF Crash, Idle
  <2> QED
    BY <2>1 DEF Ids, IdFits, LastId
<1>3. CASE UNCHANGED serverVars
  BY <1>3 DEF serverVars, Ids, IdFits, LastId, RowsOf, NameOf
<1> QED
  BY <1>1, <1>2, <1>3, Kinds, WorkerIds

LEMMA IdsInit == Init => Ids
<1>1. Init => nextId = 1 /\ \A i \in Conn : work[i].pc = "idle"
  BY DEF Init, ServerInit, Idle
<1> QED
  BY <1>1 DEF Ids, IdFits, LastId

\* A sent answer: what the worker had, to the client that is still there.
LEMMA Sent ==
    ASSUME IndInv, ConnOK, NEW i \in Conn, Send(i)
    PROVE  /\ up = "up" /\ work[i].pc = "send" /\ work'[i].pc = "idle"
           /\ conn[i].client = NameOf(i) /\ conn[i].st = "served"
           /\ \A j \in Conn \ {i} : conn'[j] = conn[j] /\ work'[j] = work[j]
           /\ conn[i].open =>
                 /\ conn'[i].st = "answered" /\ conn'[i].rsp = work[i].rsp
                 /\ conn'[i].client = conn[i].client /\ conn'[i].open
           /\ ~conn[i].open => conn'[i] = FreeConn
<1>1. conn \in [Conn -> Connection]
  BY Wires
<1>2. conn' = [conn EXCEPT ![i] =
                 IF conn[i].open
                 THEN [conn[i] EXCEPT !.st = "answered", !.rsp = work[i].rsp]
                 ELSE FreeConn]
  BY DEF Send
<1>3. /\ up = "up" /\ work[i].pc = "send" /\ work'[i].pc = "idle"
      /\ \A j \in Conn \ {i} : work'[j] = work[j]
  BY OuterCalls
<1> QED
  BY <1>1, <1>2, <1>3 DEF ConnOK, Connection

\* Where an answer comes from.
LEMMA AnswerFrom ==
    ASSUME "noSend" \notin Faults, IndInv, Wired, OwnTable, [Next]_vars,
           NEW j \in Conn, conn'[j].st = "answered"
    PROVE  \/ conn[j].st = "answered" /\ conn'[j] = conn[j]
           \/ /\ Send(j) /\ work[j].pc = "send"
              /\ conn'[j].client = NameOf(j) /\ conn'[j].rsp = work[j].rsp
<1>0. ConnOK /\ conn \in [Conn -> Connection]
  BY Wires DEF Wired
<1>1. ASSUME NEW i \in Conn, WorkerStep(i), ~Receive(i), ~Send(i)
      PROVE  conn'[j] = conn[j]
  BY <1>1, Inner
<1>2. ASSUME NEW i \in Conn, Receive(i)
      PROVE  conn'[j] = conn[j]
  <2>1. conn' = [conn EXCEPT ![i] = [conn[i] EXCEPT !.st = "served", !.req = NoReq]]
    BY <1>0, <1>2, Accepted
  <2>2. i # j
    <3>1. i = j => conn'[j].st = "served"
      BY <1>0, <2>1 DEF Connection
    <3> QED
      BY <3>1
  <2> QED
    BY <1>0, <2>1, <2>2
<1>3. ASSUME NEW i \in Conn, Send(i)
      PROVE  \/ conn'[j] = conn[j]
             \/ /\ Send(j) /\ work[j].pc = "send"
                /\ conn'[j].client = NameOf(j) /\ conn'[j].rsp = work[j].rsp
  BY <1>0, <1>3, Sent DEF FreeConn
<1>4. CASE Crash
  BY <1>0, <1>4 DEF Crash, Connection, FreeConn
<1>5. CASE Alter
  BY <1>0, <1>5, Altered DEF Connection
<1>6. ASSUME NEW c \in Client, ClientStep(c)
      PROVE  conn'[j] = conn[j]
  <2>1. CASE \E req \in RequestMsg : Asks(c, req)
    BY <1>0, <2>1, Requested DEF Asks
  <2>2. CASE Leaves(c)
    <3>1. cur[c] # j => conn'[j] = conn[j]
      BY <2>2, Gone
    <3>2. cur[c] = j => conn'[j] = FreeConn \/ conn'[j].st = conn[j].st
      BY <2>2, Gone, Wires
    <3>3. cur[c] = j => conn'[j].st # "answered"
      BY <2>2, <3>2, Gone, Wires DEF FreeConn
    <3> QED
      BY <3>1, <3>3
  <2> QED
    BY <1>6, <2>1, <2>2, ClientKinds
<1>7. CASE StartUp \/ UNCHANGED vars
  BY <1>7 DEF StartUp, Boot, LoadRow, Listen, vars
<1> QED
  BY <1>1, <1>2, <1>3, <1>4, <1>5, <1>6, <1>7 DEF Next, Server

\* The refusal of a client that is not in secnode goes to no other.
LEMMA RefusedNext ==
    ASSUME MaxWorkers = 1, "noSend" \notin Faults, AloneSafe, Wired, OwnTable, Refused,
           [Next]_vars
    PROVE  Refused'
<1>0. IndInv /\ Asked
  BY DEF AloneSafe, AloneOK
<1>1. ASSUME NEW i \in Conn, work'[i].pc = "send", work'[i].rsp.rv = 2
      PROVE  NameOf(i)' \notin Registered
  <2>1. CASE work'[i] = work[i]
    BY <1>1, <2>1 DEF Refused, NameOf
  <2>2. CASE WorkerStep(i)
    <3>1. CASE CheckId(i)
      <4>1. /\ work[i].pc = "checkId" /\ NameOf(i)' = NameOf(i)
            /\ \E rows \in Read(i) : rows <= 0
        <5>1. work'[i].pc \notin {"agree", "check", "revoke"}
          BY <1>1
        <5> QED
          BY <1>0, <3>1, <5>1, OuterCalls, OuterRsp DEF Moves
      <4> QED
        BY <1>0, <4>1 DEF Asked, Read
    <3>2. CASE \/ Check(i) \/ AgreeReject(i) \/ RevokeReject(i) \/ RevokeDb(i)
               \/ UpdateRows(i) \/ InsertRow(i)
      <4>1. work'[i].rsp.rv \in {0, 1}
        BY <1>0, <3>2, OuterRsp
      <4> QED
        BY <1>1, <4>1
    <3>3. CASE Receive(i) \/ QueryNode(i) \/ Send(i)
      <4>1. work'[i].pc # "send"
        BY <1>0, <3>3, ReceiveCall, OuterCalls DEF Moves
      <4> QED
        BY <1>1, <4>1
    <3>4. CASE \/ AgreeAccept(i) \/ SelectKey(i) \/ DecideUpdate(i) \/ DecideInsert(i)
               \/ SelectMax(i) \/ TakeId(i) \/ RevokeAccept(i) \/ ShmWriteStep(i)
      <4>1. work'[i].pc # "send"
        BY <1>0, <3>4, AgreeCalls, RevokeCalls, WriteCalls DEF Moves, ShmWriteStep
      <4> QED
        BY <1>1, <4>1
    <3> QED
      BY <2>2, <3>1, <3>2, <3>3, <3>4 DEF WorkerStep, AgreeStep, RevokeStep
  <2>3. CASE \E j \in Conn : j # i /\ WorkerStep(j)
    <3>1. work'[i] = work[i]
      BY <1>0, <2>3, ReceiveCall, OuterCalls, Inner
    <3> QED
      BY <2>1, <3>1
  <2>4. CASE Crash
    BY <1>1, <2>4 DEF Crash, Idle
  <2>5. CASE StartUp \/ UNCHANGED serverVars
    BY <2>1, <2>5 DEF StartUp, Boot, LoadRow, Listen, serverVars
  <2> QED
    BY <2>2, <2>3, <2>4, <2>5, Kinds
<1>2. ASSUME NEW j \in Conn, conn'[j].st = "answered", conn'[j].rsp.rv = 2
      PROVE  conn'[j].client \notin Registered
  BY <1>0, <1>2, AnswerFrom DEF Refused
<1> QED
  BY <1>1, <1>2 DEF Refused

LEMMA RefusedInit == Init => Refused
<1>1. Init => \A i \in Conn : work[i].pc = "idle" /\ conn[i].st = "free"
  BY DEF Init, ServerInit, Idle, WireInit, FreeConn
<1> QED
  BY <1>1 DEF Refused

-----------------------------------------------------------------------------
(* Both ends hold the same.                                                *)

\* A step that leaves a client, its rows and the response to it alone.
LEMMA EndsFrame ==
    ASSUME NEW d \in Client, Ends(d),
           RowsOf(d)' = RowsOf(d), creq'[d] = creq[d], OwnKey(d)' = OwnKey(d),
           d \in sure' <=> d \in sure, d \in alone' <=> d \in alone,
           ResponseTo(d)' = ResponseTo(d), Missed(d) => Missed(d)'
    PROVE  Ends(d)'
BY DEF Ends, Did, Holds, Agreed, AtMenu

\* The same, of a step that no client makes.
LEMMA EndsKept ==
    ASSUME NEW d \in Client, Ends(d), UNCHANGED clientVars, RowsOf(d)' = RowsOf(d),
           cur[d] # NoConn =>
              /\ conn[cur[d]].st = "lost" => conn'[cur[d]].st = "lost"
              /\ (IF conn'[cur[d]].st = "answered" THEN conn'[cur[d]].rsp
                  ELSE IF work'[cur[d]].pc = "send" THEN work'[cur[d]].rsp ELSE NoRsp)
                 = (IF conn[cur[d]].st = "answered" THEN conn[cur[d]].rsp
                    ELSE IF work[cur[d]].pc = "send" THEN work[cur[d]].rsp ELSE NoRsp)
    PROVE  Ends(d)'
<1>1. UNCHANGED <<cshm, creq, cur, sure, alone>>
  BY DEF clientVars
<1>2. OwnKey(d)' = OwnKey(d)
  BY <1>1 DEF OwnKey
<1>3. ResponseTo(d)' = ResponseTo(d)
  BY <1>1 DEF ResponseTo, AtMenu
<1>4. Missed(d) => Missed(d)'
  BY <1>1 DEF Missed, AtMenu
<1> QED
  BY <1>1, <1>2, <1>3, <1>4, EndsFrame

\* What the statement of an agreement leaves: the one row of the client, with
\* the key and the id of the response.
LEMMA AgreeWrites ==
    ASSUME Enough, AloneSafe, BothOK, Fits, Ids, NEW i \in Conn,
           UpdateRows(i) \/ InsertRow(i)
    PROVE  \E r : /\ {q \in db' : q.clientid = NameOf(i)} = {r}
                  /\ r.seckey = <<work[i].req.r1, work[i].rsp.r2>>
                  /\ r.state = 1
                  /\ r.keyid = work[i].rsp.seckeyid
<1> DEFINE c == NameOf(i)
           key == work[i].node.seckey
<1>0. /\ IndInv /\ OneRow /\ Halfway /\ KeyFits /\ IdFits
      /\ db \subseteq Row /\ "dbError" \notin Faults
  BY Facts DEF Enough, BothOK, Fits, Ids
<1>1. work[i].pc \in {"update", "insert"}
  BY ZenonT(60) DEF UpdateRows, InsertRow, At
<1>2. key = <<work[i].req.r1, work[i].rsp.r2>>
  BY <1>0, <1>1, Zenon DEF KeyFits, Keyed, AgreePc
<1>3. CASE UpdateRows(i)
  <2> DEFINE after(r) == IF r.clientid = c THEN [r EXCEPT !.state = 1, !.seckey = key]
                         ELSE r
  <2>1. work[i].pc = "update" /\ db' = {after(r) : r \in db}
    BY <1>0, <1>3 DEF UpdateRows, At, DbFails, NameOf
  <2>2. PICK r \in db : r.clientid = c
    BY <1>0, <2>1 DEF Halfway, RowsOf
  <2>3. \A q \in db : q.clientid = c => q = r
    BY <1>0, <2>2 DEF OneRow
  <2>4. \A q \in db : after(q).clientid = q.clientid
    BY <1>0 DEF Row
  <2>5. after(r).state = 1 /\ after(r).seckey = key /\ after(r).keyid = r.keyid
    BY <1>0, <2>2 DEF Row
  <2>6. r.keyid = work[i].rsp.seckeyid
    <3> HIDE DEF after, key
    <3>1. r \in RowsOf(NameOf(i))
      BY <2>2 DEF RowsOf, NameOf
    <3> QED
      BY <1>0, <2>1, <3>1 DEF IdFits
  <2> HIDE DEF after, key, c
  <2>7. {q \in db' : q.clientid = c} = {after(r)}
    BY <2>1, <2>2, <2>3, <2>4
  <2> QED
    BY <1>2, <2>5, <2>6, <2>7, Zenon DEF c
<1>4. CASE InsertRow(i)
  <2> DEFINE row == [clientid |-> c, keyid |-> nextId, state |-> 1, seckey |-> key]
  <2>1. work[i].pc = "insert"
    BY <1>4 DEF InsertRow, At
  <2>2. db' = db \cup {row} /\ \A q \in db : q.clientid # c
    BY <1>4, Inserted DEF RowsOf
  <2>3. work[i].rsp.seckeyid = nextId
    BY <1>0, <2>1 DEF IdFits
  <2>4. /\ row.clientid = c /\ row.seckey = key /\ row.state = 1
        /\ row.keyid = nextId
    OBVIOUS
  <2> HIDE DEF row, key, c
  <2>5. {q \in db' : q.clientid = c} = {row}
    BY <2>2, <2>4
  <2> QED
    BY <1>2, <2>3, <2>4, <2>5 DEF c
<1> QED
  BY <1>3, <1>4

\* What the statement of a revocation leaves of the client's row.
LEMMA RevokeWrites ==
    ASSUME Enough, AloneSafe, NEW i \in Conn, RevokeDb(i),
           NEW r, RowsOf(NameOf(i)) = {r}
    PROVE  \E q : /\ {p \in db' : p.clientid = NameOf(i)} = {q}
                  /\ q.seckey = r.seckey /\ q.state = 0 /\ q.keyid = r.keyid
<1> DEFINE c == NameOf(i)
           after(p) == IF p.clientid = c THEN [p EXCEPT !.state = 0] ELSE p
<1>1. db \subseteq Row /\ db' = {after(p) : p \in db}
  BY Facts DEF RevokeDb, DbFails, NameOf, Enough
<1>2. r \in db /\ r.clientid = c /\ \A p \in db : p.clientid = c => p = r
  BY DEF RowsOf
<1>3. \A p \in db : after(p).clientid = p.clientid
  BY <1>1 DEF Row
<1>4. after(r).state = 0 /\ after(r).seckey = r.seckey /\ after(r).keyid = r.keyid
  BY <1>1, <1>2 DEF Row
<1> HIDE DEF after, c
<1>5. {p \in db' : p.clientid = c} = {after(r)}
  BY <1>1, <1>2, <1>3
<1> QED
  BY <1>4, <1>5 DEF c

\* What the layers below say, together.
Base ==
    /\ AloneSafe /\ RevokedOK /\ BothOK
    /\ Wired /\ Asked3 /\ Fits /\ Ids /\ Refused

\* The facts that the cases below start from.
LEMMA BaseFacts ==
    ASSUME Base
    PROVE  /\ IndInv /\ ConnOK /\ CurOK /\ AskedOK /\ OnlyChecks /\ OwnTable /\ Dispatched
           /\ conn \in [Conn -> Connection]
           /\ cur \in [Client -> Conn \cup {NoConn}]
           /\ creq \in [Client -> RequestMsg \cup {NoReq}]
           /\ NoReq \notin RequestMsg /\ NoRsp \notin RespondMsg
           /\ NoClient \notin Client /\ NoConn \notin Conn
<1>1. IndInv
  BY DEF Base, AloneSafe
<1> QED
  BY <1>1, Wires DEF Base, Wired, Asked3, Fits

\* A worker behind the socket of a client carries the request that the client
\* waits for.
LEMMA Behind ==
    ASSUME Base, NEW d \in Client, NEW i \in Conn, cur[d] = i, work[i].pc # "idle"
    PROVE  /\ NameOf(i) = d /\ conn[i].st = "served" /\ conn[i].open
           /\ ~AtMenu(d) /\ ~Missed(d)
           /\ work[i].req.cmdType = creq[d].cmdType
           /\ work[i].req.authCode = creq[d].authCode
           /\ ResponseTo(d) = IF work[i].pc = "send" THEN work[i].rsp ELSE NoRsp
<1>0. cur[d] # NoConn /\ ConnOK /\ CurOK /\ AskedOK
  BY BaseFacts
<1>1. conn[i].client = d /\ conn[i].open /\ ~AtMenu(d)
  BY <1>0 DEF CurOK
<1>2. NameOf(i) = d /\ conn[i].st = "served"
  BY <1>0, <1>1 DEF ConnOK
<1>3. Carried(i) = work[i].req
  BY <1>2 DEF Carried
<1>4. /\ work[i].req.cmdType = creq[d].cmdType
      /\ work[i].req.authCode = creq[d].authCode
  BY <1>0, <1>1, <1>2, <1>3 DEF AskedOK
<1>5. ~Missed(d)
  BY <1>0, <1>2 DEF Missed
<1>6. ResponseTo(d) = IF work[i].pc = "send" THEN work[i].rsp ELSE NoRsp
  BY <1>0, <1>1, <1>2 DEF ResponseTo
<1> QED
  BY <1>1, <1>2, <1>4, <1>5, <1>6

\* The rows of a client change in three calls, and only if it is served.
LEMMA RowsKept ==
    ASSUME IndInv, NEW i \in Conn, WorkerStep(i), NEW d \in Client,
           \/ d # NameOf(i)
           \/ ~UpdateRows(i) /\ ~InsertRow(i) /\ ~RevokeDb(i)
    PROVE  RowsOf(d)' = RowsOf(d)
<1>1. CASE UpdateRows(i) \/ InsertRow(i) \/ RevokeDb(i)
  BY <1>1, OtherRows
<1>2. CASE ~(UpdateRows(i) \/ InsertRow(i) \/ RevokeDb(i))
  <2>1. db' = db
    BY <1>2, ReceiveCall, OuterCalls, AgreeCalls, RevokeCalls, WriteCalls
       DEF WorkerStep, AgreeStep, RevokeStep, ShmWriteStep, Quiet
  <2> QED
    BY <2>1 DEF RowsOf
<1> QED
  BY <1>1, <1>2

\* A call on behalf of another client, or of a request that the client left
\* behind.
LEMMA ElsewhereEnds ==
    ASSUME Base, NEW i \in Conn, WorkerStep(i), ~Receive(i), ~Send(i),
           UNCHANGED clientVars, NEW d \in Client, Ends(d), cur[d] # i
    PROVE  Ends(d)'
<1>0. /\ IndInv /\ OnlyChecks /\ Dispatched /\ ConnOK /\ cur[d] \in Conn \cup {NoConn}
      /\ conn' = conn /\ \A j \in Conn \ {i} : work'[j] = work[j]
      /\ work[i].pc # "idle"
  BY BaseFacts, Inner
<1>1. CASE RowsOf(d)' = RowsOf(d)
  BY <1>0, <1>1, EndsKept
<1>2. CASE RowsOf(d)' # RowsOf(d)
  <2>1. NameOf(i) = d /\ (UpdateRows(i) \/ InsertRow(i) \/ RevokeDb(i))
    BY <1>0, <1>2, RowsKept
  <2>2. work[i].req.cmdType # "Check"
    <3>1. RevokeDb(i) => work[i].req.cmdType = "Revoke"
      BY <1>0 DEF RevokeDb, At, Dispatched
    <3>2. UpdateRows(i) \/ InsertRow(i) => work[i].req \in AgreeRequest
      BY <1>0, Busy DEF UpdateRows, InsertRow, At, AgreePc
    <3> QED
      BY <2>1, <3>1, <3>2 DEF AgreeRequest
  <2>3. conn[i].client = d /\ conn[i].st = "served"
    BY <1>0, <2>1 DEF ConnOK
  <2>4. d \notin sure \cup alone
    BY <1>0, <2>2, <2>3 DEF OnlyChecks, ConnsOf, Carried
  <2>5. sure' = sure /\ alone' = alone
    BY DEF clientVars
  <2> QED
    BY <2>4, <2>5 DEF Ends
<1> QED
  BY <1>1, <1>2

\* A call of the worker that the client waits for.
LEMMA OwnEnds ==
    ASSUME Enough, Base, NEW i \in Conn, WorkerStep(i), ~Receive(i), ~Send(i),
           UNCHANGED clientVars, NEW d \in Client, Ends(d), cur[d] = i, IndInv'
    PROVE  Ends(d)'
<1>0. /\ IndInv /\ Dispatched /\ OwnTable /\ AskedOK
      /\ AloneSafe /\ BothOK /\ Fits /\ Ids
      /\ conn' = conn /\ work[i].pc # "idle" /\ work'[i].pc # "idle"
      /\ NoRsp \notin RespondMsg /\ i # NoConn
  BY BaseFacts, Inner DEF Base
<1>1. /\ NameOf(i) = d /\ conn[i].st = "served"
      /\ ~AtMenu(d) /\ ~Missed(d)
      /\ work[i].req.cmdType = creq[d].cmdType
      /\ work[i].req.authCode = creq[d].authCode
      /\ ResponseTo(d) = IF work[i].pc = "send" THEN work[i].rsp ELSE NoRsp
  BY <1>0, Behind
<1>2. work[i].pc # "send"
  BY <1>0, OuterCalls, AgreeCalls, RevokeCalls, WriteCalls
     DEF WorkerStep, AgreeStep, RevokeStep, ShmWriteStep, Moves
<1>3. /\ UNCHANGED <<cshm, creq, cur, sure, alone>>
  BY DEF clientVars
<1>4. /\ creq'[d] = creq[d] /\ OwnKey(d)' = OwnKey(d) /\ Missed(d)' = FALSE
      /\ AtMenu(d)' = FALSE
      /\ ResponseTo(d)' = IF work'[i].pc = "send" THEN work'[i].rsp ELSE NoRsp
  BY <1>0, <1>1, <1>3 DEF OwnKey, Missed, AtMenu, ResponseTo
<1>5. ResponseTo(d) = NoRsp /\ ~Did(d, "NewOrUpdate") /\ ~Did(d, "Revoke")
  BY <1>1, <1>2 DEF Did
<1>6. d \in sure => Holds(d, OwnKey(d))
  BY <1>1, <1>5 DEF Ends
\* Nothing is written, and if the worker is done it does not say that it was.
<1>7. ASSUME RowsOf(d)' = RowsOf(d),
             work'[i].pc = "send" => work'[i].rsp.rv # 0 \/ creq[d].cmdType = "Check"
      PROVE  Ends(d)'
  <2>1. Did(d, "NewOrUpdate")' = FALSE /\ Did(d, "Revoke")' = FALSE
    BY <1>4, <1>7 DEF Did
  <2>2. d \in sure' => Holds(d, OwnKey(d))'
    BY <1>3, <1>4, <1>6, <1>7 DEF Holds
  <2> QED
    BY <2>1, <2>2 DEF Ends
<1>8. CASE UpdateRows(i) \/ InsertRow(i)
  <2>1. PICK r : /\ {q \in db' : q.clientid = NameOf(i)} = {r}
                 /\ r.seckey = <<work[i].req.r1, work[i].rsp.r2>>
                 /\ r.state = 1
                 /\ r.keyid = work[i].rsp.seckeyid
    BY <1>0, <1>8, AgreeWrites
  <2>2. /\ work'[i].pc = "send"
        /\ work'[i].rsp.r2 = work[i].rsp.r2
        /\ work'[i].rsp.seckeyid = work[i].rsp.seckeyid
    BY <1>0, <1>8, OuterRsp
  <2>3. work[i].pc \in AgreePc \ {"agree"}
    BY <1>8 DEF UpdateRows, InsertRow, At, AgreePc
  <2>4. work[i].req \in AgreeRequest
    BY <1>0, <2>3, Busy DEF AgreePc
  <2>5. creq[d].cmdType = "NewOrUpdate"
    BY <1>1, <2>4 DEF AgreeRequest
  <2>6. work[i].req.r1 = creq[d].r1
    <3>1. work[i].req.authCode = Mac(d, work[i].req.r1)
      BY <1>0, <1>1, <2>3 DEF Fits, KeyFits, Keyed
    <3>2. creq[d].authCode = Mac(d, creq[d].r1)
      BY <1>0, <1>1, <2>5 DEF AskedOK
    <3>3. Mac(d, work[i].req.r1)[2] = Mac(d, creq[d].r1)[2]
      BY <1>1, <3>1, <3>2
    <3> QED
      BY <3>3 DEF Mac
  <2>7. Did(d, "NewOrUpdate")' /\ ~Did(d, "Revoke")'
    <3>1. work'[i].rsp # NoRsp /\ work'[i].rsp.rv = 0
      <4>1. work'[i].rsp.rv = 0
        BY <1>0, <1>8, OuterRsp
      <4>2. work'[i].rsp \in RespondMsg
        BY <1>0 DEF IndInv, WorkOK
      <4> QED
        BY <1>0, <4>1, <4>2
    <3> QED
      BY <1>4, <2>2, <2>5, <3>1 DEF Did
  <2>8. Holds(d, Agreed(d, ResponseTo(d)))'
    <3> DEFINE node == [status |-> 1, seckeyID |-> work[i].rsp.seckeyid, clientID |-> d,
                        seckey |-> <<creq[d].r1, work[i].rsp.r2>>]
    <3>1. Agreed(d, ResponseTo(d))' = node
      BY <1>3, <1>4, <2>2 DEF Agreed
    <3>2. /\ node.status = 1 /\ node.seckeyID = work[i].rsp.seckeyid
          /\ node.seckey = <<creq[d].r1, work[i].rsp.r2>> /\ node # Zero
      BY DEF Zero
    <3>3. RowsOf(d)' = {r}
      BY <1>1, <2>1 DEF RowsOf
    <3> HIDE DEF node
    <3> QED
      BY <2>1, <2>6, <3>1, <3>2, <3>3 DEF Holds
  <2> QED
    BY <2>7, <2>8 DEF Ends
<1>9. CASE RevokeDb(i)
  <2>1. creq[d].cmdType = "Revoke" /\ OwnKey(d).status = 1
    <3>1. work[i].req.cmdType = "Revoke"
      BY <1>0, <1>9 DEF RevokeDb, At, Dispatched
    <3> QED
      BY <1>0, <1>1, <3>1 DEF AskedOK
  <2>2. work'[i].pc = "send" /\ work'[i].rsp.rv = 0
    BY <1>0, <1>9, OuterRsp
  <2>3. Did(d, "NewOrUpdate")' = FALSE
    BY <1>4, <2>1 DEF Did
  <2>4. Did(d, "Revoke")'
    <3>1. work'[i].rsp \in RespondMsg
      BY <1>0 DEF IndInv, WorkOK
    <3>2. work'[i].rsp # NoRsp
      BY <1>0, <3>1
    <3> QED
      BY <1>4, <2>1, <2>2, <3>2 DEF Did
  <2>5. ASSUME d \in sure
        PROVE  Holds(d, [OwnKey(d) EXCEPT !.status = 0])'
    <3> DEFINE own == OwnKey(d)
               node == [own EXCEPT !.status = 0]
    <3>0. own \in NodeSHMInfo /\ own # Zero
      BY <1>0, <2>1, OneSlotTable DEF Zero
    <3>1. PICK r \in RowsOf(d) : /\ RowsOf(d) = {r} /\ r.seckey = own.seckey
                                 /\ r.keyid = own.seckeyID
      BY <1>6, <2>5, <3>0 DEF Holds
    <3>2. PICK q : /\ {p \in db' : p.clientid = NameOf(i)} = {q}
                   /\ q.seckey = r.seckey /\ q.state = 0 /\ q.keyid = r.keyid
      BY <1>0, <1>1, <1>9, <3>1, RevokeWrites
    <3>3. RowsOf(d)' = {q}
      BY <1>1, <3>2 DEF RowsOf
    <3>4. node.status = 0 /\ node.seckey = own.seckey /\ node.seckeyID = own.seckeyID
      BY <3>0 DEF NodeSHMInfo
    <3>5. node # Zero
      <4>1. node.clientID = d
        BY <1>0, <3>0, OneSlotTable DEF OwnTable, NodeSHMInfo
      <4> QED
        BY <4>1, Constants DEF Zero
    <3>6. [OwnKey(d) EXCEPT !.status = 0]' = node
      BY <1>4
    <3> HIDE DEF node, own
    <3> QED
      BY <3>1, <3>2, <3>3, <3>4, <3>5, <3>6 DEF Holds
  <2> QED
    BY <1>3, <2>3, <2>4, <2>5 DEF Ends
<1>10. CASE ~(UpdateRows(i) \/ InsertRow(i) \/ RevokeDb(i))
  <2>1. RowsOf(d)' = RowsOf(d)
    BY <1>0, <1>10, RowsKept
  <2>2. ASSUME work'[i].pc = "send"
        PROVE  work'[i].rsp.rv # 0 \/ creq[d].cmdType = "Check"
    <3>1. CASE CheckId(i)
      <4>1. work'[i].rsp.rv = 2
        BY <1>0, <2>2, <3>1, OuterRsp
      <4> QED
        BY <4>1
    <3>2. CASE AgreeReject(i) \/ RevokeReject(i)
      <4>1. work'[i].rsp.rv = 1
        BY <1>0, <3>2, OuterRsp
      <4> QED
        BY <4>1
    <3>3. CASE Check(i)
      BY <1>0, <1>1, <3>3 DEF Check, At, Dispatched
    <3>4. CASE \/ QueryNode(i) \/ AgreeAccept(i) \/ SelectKey(i) \/ DecideUpdate(i)
               \/ DecideInsert(i) \/ SelectMax(i) \/ TakeId(i) \/ RevokeAccept(i)
               \/ ShmWriteStep(i)
      BY <1>0, <2>2, <3>4, OuterCalls, AgreeCalls, RevokeCalls, WriteCalls
         DEF Moves, ShmWriteStep
    <3> QED
      BY <1>10, <3>1, <3>2, <3>3, <3>4 DEF WorkerStep, AgreeStep, RevokeStep
  <2> QED
    BY <1>7, <2>1, <2>2
<1> QED
  BY <1>8, <1>9, <1>10

LEMMA WorkerEnds ==
    ASSUME Enough, Base, EndsOK, NEW i \in Conn, WorkerStep(i), UNCHANGED clientVars,
           IndInv'
    PROVE  EndsOK'
<1>0. /\ IndInv /\ ConnOK /\ CurOK /\ conn \in [Conn -> Connection]
      /\ cur \in [Client -> Conn \cup {NoConn}]
  BY BaseFacts
<1>1. SUFFICES ASSUME NEW d \in Client PROVE Ends(d)'
  BY DEF EndsOK
<1>2. Ends(d)
  BY DEF EndsOK
<1>3. CASE ~Receive(i) /\ ~Send(i)
  BY <1>2, <1>3, ElsewhereEnds, OwnEnds
<1>4. RowsOf(d)' = RowsOf(d) \/ (~Receive(i) /\ ~Send(i))
  <2>1. Receive(i) \/ Send(i) => db' = db
    BY <1>0, ReceiveCall, OuterCalls DEF Quiet
  <2> QED
    BY <2>1 DEF RowsOf
<1>5. CASE Receive(i)
  <2>1. /\ conn[i].st = "sent" /\ conn'[i].st = "served"
        /\ work[i].pc = "idle" /\ work'[i].pc = "query"
        /\ \A j \in Conn \ {i} : conn'[j] = conn[j] /\ work'[j] = work[j]
    <3>1. /\ conn[i].st = "sent" /\ work'[i].pc = "query"
          /\ conn' = [conn EXCEPT ![i] = [conn[i] EXCEPT !.st = "served", !.req = NoReq]]
          /\ \A j \in Conn \ {i} : work'[j] = work[j]
      BY <1>0, <1>5, Accepted
    <3>2. work[i].pc = "idle"
      BY <1>0, <3>1 DEF ConnOK
    <3> QED
      BY <1>0, <3>1, <3>2 DEF Connection
  <2>2. RowsOf(d)' = RowsOf(d)
    BY <1>4, <1>5
  <2> QED
    BY <1>0, <1>2, <2>1, <2>2, EndsKept
<1>6. CASE Send(i)
  <2>1. /\ work[i].pc = "send" /\ conn[i].st = "served"
        /\ \A j \in Conn \ {i} : conn'[j] = conn[j] /\ work'[j] = work[j]
        /\ conn[i].open => conn'[i].st = "answered" /\ conn'[i].rsp = work[i].rsp
    BY <1>0, <1>6, Sent
  <2>2. RowsOf(d)' = RowsOf(d)
    BY <1>4, <1>6
  <2>3. cur[d] # NoConn => cur[d] \in Conn /\ conn[cur[d]].open
    BY <1>0 DEF CurOK
  <2> QED
    BY <1>2, <2>1, <2>2, <2>3, EndsKept
<1> QED
  BY <1>3, <1>5, <1>6

\* A crash takes what was not answered yet; what was carried out and not
\* answered leaves a client that does not know.
LEMMA CrashEnds ==
    ASSUME Base, EndsOK, Crash, UNCHANGED clientVars
    PROVE  EndsOK'
<1>0. /\ ConnOK /\ CurOK /\ conn \in [Conn -> Connection]
      /\ cur \in [Client -> Conn \cup {NoConn}] /\ NoConn \notin Conn
  BY BaseFacts
<1>1. SUFFICES ASSUME NEW d \in Client PROVE Ends(d)'
  BY DEF EndsOK
<1>2. /\ Ends(d) /\ RowsOf(d)' = RowsOf(d)
      /\ UNCHANGED <<cshm, creq, cur, sure, alone>>
  BY DEF EndsOK, Crash, RowsOf, clientVars
<1>3. \A i \in Conn : work'[i].pc = "idle"
  BY DEF Crash, Idle
<1>4. CASE cur[d] = NoConn
  BY <1>2, <1>4, EndsKept
<1>5. CASE cur[d] # NoConn
  <2> DEFINE i == cur[d]
  <2>1. i \in Conn /\ conn[i].open
    BY <1>0, <1>5 DEF CurOK
  <2>2. /\ conn[i].st \in {"sent", "served"} => conn'[i].st = "lost"
        /\ conn[i].st \notin {"sent", "served"} => conn'[i] = conn[i]
    BY <1>0, <2>1 DEF Crash, Connection
  <2> HIDE DEF i
  <2>3. CASE conn[i].st \notin {"sent", "served"}
    <3>1. work[i].pc = "idle"
      BY <1>0, <2>1, <2>3 DEF ConnOK
    <3>2. conn'[i] = conn[i] /\ work'[i].pc = "idle"
      BY <1>3, <2>1, <2>2, <2>3
    <3> QED
      BY <1>2, <3>1, <3>2, EndsKept DEF i
  <2>4. CASE conn[i].st \in {"sent", "served"}
    <3>1. conn'[i].st = "lost" /\ work'[i].pc = "idle"
      BY <1>3, <2>1, <2>2, <2>4
    <3>2. ResponseTo(d)' = NoRsp
      BY <1>2, <3>1 DEF ResponseTo, AtMenu, i
    <3>3. Did(d, "NewOrUpdate")' = FALSE /\ Did(d, "Revoke")' = FALSE
      BY <3>2 DEF Did
    <3>4. CASE creq[d].cmdType # "Check"
      <4>1. Missed(d)'
        <5>1. ~AtMenu(d)
          BY <1>0, <1>5 DEF CurOK
        <5> QED
          BY <1>2, <3>1, <3>4, <5>1 DEF Missed, AtMenu, i
      <4> QED
        BY <3>3, <4>1 DEF Ends
    <3>5. CASE creq[d].cmdType = "Check"
      <4>1. ~Missed(d) /\ ~Did(d, "NewOrUpdate") /\ ~Did(d, "Revoke")
        BY <3>5 DEF Missed, Did
      <4>2. d \in sure => Holds(d, OwnKey(d))
        BY <1>2, <4>1 DEF Ends
      <4>3. d \in sure' => Holds(d, OwnKey(d))'
        BY <1>2, <4>2 DEF Holds, OwnKey
      <4> QED
        BY <3>3, <4>3 DEF Ends
    <3> QED
      BY <3>4, <3>5
  <2> QED
    BY <2>3, <2>4
<1> QED
  BY <1>4, <1>5

\* Neither start-up nor what happens to a request on its way is news.
LEMMA QuietEnds ==
    ASSUME Base, EndsOK, (StartUp /\ UNCHANGED clientVars) \/ Alter \/ UNCHANGED vars
    PROVE  EndsOK'
<1>0. IndInv /\ conn \in [Conn -> Connection] /\ cur \in [Client -> Conn \cup {NoConn}]
  BY BaseFacts
<1>1. SUFFICES ASSUME NEW d \in Client PROVE Ends(d)'
  BY DEF EndsOK
<1>2. /\ UNCHANGED clientVars /\ UNCHANGED <<db, work>>
      /\ \A i \in Conn : conn'[i].st = conn[i].st /\ conn'[i].rsp = conn[i].rsp
  <2>1. CASE Alter
    <3>1. /\ UNCHANGED clientVars /\ UNCHANGED <<db, work>>
      BY <1>0, <2>1, Altered DEF serverVars
    <3>2. PICK i \in Conn, w \in AgreeRequest :
            conn' = [conn EXCEPT ![i] = [conn[i] EXCEPT !.req = w]]
      BY <1>0, <2>1, Altered
    <3>3. \A j \in Conn : conn'[j].st = conn[j].st /\ conn'[j].rsp = conn[j].rsp
      BY <1>0, <3>2 DEF Connection
    <3> QED
      BY <3>1, <3>3
  <2>2. CASE StartUp /\ UNCHANGED clientVars
    BY <2>2 DEF StartUp, Boot, LoadRow, Listen
  <2>3. CASE UNCHANGED vars
    <3>1. conn' = conn /\ UNCHANGED serverVars /\ UNCHANGED clientVars
      BY <2>3 DEF vars
    <3> QED
      BY <3>1 DEF serverVars
  <2> QED
    BY <2>1, <2>2, <2>3
<1>3. Ends(d) /\ RowsOf(d)' = RowsOf(d)
  BY <1>2 DEF EndsOK, RowsOf
<1> QED
  BY <1>0, <1>2, <1>3, EndsKept

\* A request is sent: nothing of it was carried out yet.
LEMMA RequestEnds ==
    ASSUME Base, EndsOK, NEW c \in Client, NEW req \in RequestMsg, Asks(c, req)
    PROVE  EndsOK'
<1>0. /\ IndInv /\ ConnOK /\ CurOK /\ conn \in [Conn -> Connection]
      /\ cur \in [Client -> Conn \cup {NoConn}]
      /\ creq \in [Client -> RequestMsg \cup {NoReq}]
      /\ NoClient \notin Client /\ NoConn \notin Conn
  BY BaseFacts
<1>1. /\ AtMenu(c) /\ creq' = [creq EXCEPT ![c] = req] /\ ~AtMenu(c)'
      /\ UNCHANGED <<cshm, sure>> /\ UNCHANGED serverVars
      /\ alone' = IF ConnsOf(c) = {} THEN alone \cup {c} ELSE alone
      /\ \/ UNCHANGED <<conn, cur>>
         \/ \E i \in Conn :
               /\ conn[i].st = "free" /\ work[i].pc = "idle"
               /\ cur' = [cur EXCEPT ![c] = i]
               /\ conn' = [conn EXCEPT ![i] =
                             [st |-> "sent", client |-> c, open |-> TRUE,
                              req |-> req, rsp |-> NoRsp]]
  BY <1>0, Requested DEF Asks
<1>2. SUFFICES ASSUME NEW d \in Client PROVE Ends(d)'
  BY DEF EndsOK
<1>3. /\ Ends(d) /\ RowsOf(d)' = RowsOf(d) /\ OwnKey(d)' = OwnKey(d) /\ work' = work
  BY <1>1 DEF EndsOK, RowsOf, OwnKey, serverVars
<1>4. CASE d # c
  <2>1. creq'[d] = creq[d] /\ (d \in sure' <=> d \in sure) /\ (d \in alone' <=> d \in alone)
    BY <1>0, <1>1, <1>4
  <2>2. cur'[d] = cur[d] /\ (cur[d] # NoConn => conn'[cur[d]] = conn[cur[d]])
    <3>1. \A i \in Conn : conn[i].st = "free" => cur[d] # i
      BY <1>0 DEF CurOK, ConnOK
    <3> QED
      BY <1>0, <1>1, <1>4, <3>1
  <2>3. ResponseTo(d)' = ResponseTo(d) /\ (Missed(d) => Missed(d)')
    BY <1>3, <2>1, <2>2 DEF ResponseTo, Missed, AtMenu
  <2> QED
    BY <1>3, <2>1, <2>3, EndsFrame
<1>5. CASE d = c
  <2>1. ~Missed(c) /\ ~Did(c, "NewOrUpdate") /\ ~Did(c, "Revoke")
    BY <1>1 DEF Missed, Did
  <2>2. d \in sure' => Holds(d, OwnKey(d))'
    BY <1>1, <1>3, <1>5, <2>1 DEF Ends, Holds
  <2>3. ResponseTo(c)' = NoRsp
    <3>1. CASE UNCHANGED <<conn, cur>>
      <4>1. cur'[c] = NoConn
        BY <1>0, <1>1, <3>1 DEF CurOK
      <4> QED
        BY <4>1 DEF ResponseTo
    <3>2. ASSUME NEW i \in Conn, work[i].pc = "idle",
                 cur' = [cur EXCEPT ![c] = i],
                 conn' = [conn EXCEPT ![i] =
                            [st |-> "sent", client |-> c, open |-> TRUE,
                             req |-> req, rsp |-> NoRsp]]
          PROVE  ResponseTo(c)' = NoRsp
      <4>1. cur'[c] = i /\ conn'[i].st = "sent" /\ work'[i].pc = "idle"
        BY <1>0, <1>3, <3>2
      <4> QED
        BY <4>1 DEF ResponseTo
    <3> QED
      BY <1>1, <3>1, <3>2
  <2>4. Did(d, "NewOrUpdate")' = FALSE /\ Did(d, "Revoke")' = FALSE
    BY <1>5, <2>3 DEF Did
  <2> QED
    BY <2>2, <2>4 DEF Ends
<1> QED
  BY <1>4, <1>5

\* What a client reads of its one slot.
LEMMA ReadOneSlot ==
    ASSUME NEW t \in [1..1 -> NodeSHMInfo], NEW c \in Client,
           t[1] = Zero \/ t[1].clientID = c
    PROVE  ShmRead(t, c) = t[1]
<1>1. CASE t[1].clientID = c
  <2>1. SlotsOf(t, c) = {1}
    BY <1>1 DEF SlotsOf
  <2>2. First({1}) = 1
    BY DEF First
  <2> QED
    BY <2>1, <2>2 DEF ShmRead
<1>2. CASE t[1] = Zero
  <2>1. SlotsOf(t, c) = {}
    BY <1>2, Constants DEF SlotsOf, Zero
  <2> QED
    BY <1>2, <2>1 DEF ShmRead
<1> QED
  BY <1>1, <1>2

\* With the answer to what it asked a client holds what the server holds.
LEMMA AnswerEnds ==
    ASSUME Base, NEW c \in Client, Ends(c), Answered(c),
           NEW rsp \in RespondMsg, rsp = conn[cur[c]].rsp, c \in SureAfter(c, rsp)
    PROVE  Holds(c, TableAfter(c, rsp)[1])
<1>0. /\ IndInv /\ ConnOK /\ CurOK /\ AskedOK /\ OwnTable /\ NoRsp \notin RespondMsg
      /\ NoConn \notin Conn /\ NoClient \notin Client
  BY BaseFacts
<1>1. /\ ~AtMenu(c) /\ cur[c] \in Conn /\ conn[cur[c]].st = "answered"
      /\ ~Missed(c) /\ ResponseTo(c) = rsp /\ rsp # NoRsp
  BY <1>0 DEF Answered, Missed, ResponseTo
<1>2. OwnKey(c) = cshm[c][1] /\ OwnKey(c) \in NodeSHMInfo
  BY <1>0, OneSlotTable
<1>3. ASSUME c \in sure, rsp.rv # 0 \/ creq[c].cmdType = "Check"
      PROVE  Holds(c, OwnKey(c))
  <2>1. ~Did(c, "NewOrUpdate") /\ ~Did(c, "Revoke")
    BY <1>1, <1>3 DEF Did
  <2> QED
    BY <1>1, <1>3, <2>1 DEF Ends
<1>4. rsp.rv \in {0, 1, 2}
  BY DEF RespondMsg
<1>5. CASE creq[c].cmdType = "Check"
  <2>1. TableAfter(c, rsp) = cshm[c] /\ c \in sure
    BY <1>0, <1>1, <1>5, Stored DEF SureAfter
  <2> QED
    BY <1>2, <1>3, <1>5, <2>1
<1>6. CASE creq[c].cmdType = "NewOrUpdate"
  <2>1. CASE rsp.rv = 0
    <3>0. rsp.rv \notin {1, 2}
      BY <2>1
    <3>1. TableAfter(c, rsp)[1] = Agreed(c, rsp)
      BY <1>0, <1>1, <1>6, <3>0, Stored
    <3>2. c \in sure \cup alone
      BY DEF SureAfter
    <3>3. Did(c, "NewOrUpdate")
      BY <1>1, <1>6, <2>1 DEF Did
    <3>4. Holds(c, Agreed(c, ResponseTo(c)))
      BY <3>2, <3>3 DEF Ends
    <3> QED
      BY <1>1, <3>1, <3>4
  <2>2. CASE rsp.rv # 0
    <3>1. TableAfter(c, rsp) = cshm[c] /\ c \in sure
      BY <1>0, <1>1, <1>4, <1>6, <2>2, Stored DEF SureAfter
    <3> QED
      BY <1>2, <1>3, <2>2, <3>1
  <2> QED
    BY <2>1, <2>2
<1>7. CASE creq[c].cmdType = "Revoke"
  <2>1. c \in sure
    BY <1>7 DEF SureAfter
  <2>2. CASE rsp.rv = 0
    <3>1. TableAfter(c, rsp)[1] = [OwnKey(c) EXCEPT !.status = 0]
      BY <1>0, <1>1, <1>7, <2>2, Stored
    <3>2. Did(c, "Revoke")
      BY <1>1, <1>7, <2>2 DEF Did
    <3> QED
      BY <2>1, <3>1, <3>2 DEF Ends
  <2>3. CASE rsp.rv = 1
    <3>1. TableAfter(c, rsp) = cshm[c]
      BY <1>0, <1>1, <1>7, <2>3, Stored
    <3> QED
      BY <1>2, <1>3, <2>1, <2>3, <3>1
\* A client with a usable key has a row, so it is in secnode.
  <2>4. CASE rsp.rv = 2
    <3>1. c \notin Registered
      <4>1. conn[cur[c]].client = c
        BY <1>0, <1>1 DEF CurOK
      <4> QED
        BY <1>1, <2>4, <4>1 DEF Base, Refused
    <3>2. Holds(c, OwnKey(c)) /\ OwnKey(c).status = 1
      BY <1>0, <1>1, <1>3, <1>7, <2>1, <2>4 DEF AskedOK
    <3>3. RowsOf(c) # {}
      BY <3>2 DEF Holds, Zero
    <3> QED
      BY <3>1, <3>3 DEF Base, AloneSafe, AloneOK, RowNames, RowsOf
  <2> QED
    BY <1>4, <2>2, <2>3, <2>4
<1> QED
  BY <1>0, <1>1, <1>5, <1>6, <1>7, Stored

LEMMA ReceiveEnds ==
    ASSUME Base, EndsOK, NEW c \in Client, ClientReceive(c), IndInv', OwnTable'
    PROVE  EndsOK'
<1>0. /\ IndInv /\ ConnOK /\ CurOK /\ AskedOK /\ OwnTable /\ Wired
      /\ cur \in [Client -> Conn \cup {NoConn}]
      /\ creq \in [Client -> RequestMsg \cup {NoReq}]
      /\ cshm \in [Client -> [1..1 -> NodeSHMInfo]]
      /\ cshm' \in [Client -> [1..1 -> NodeSHMInfo]]
  <2>1. cshm \in [Client -> [1..1 -> NodeSHMInfo]]
    BY BaseFacts DEF IndInv, TypeOK, ClientTypeOK
  <2>2. cshm' \in [Client -> [1..1 -> NodeSHMInfo]]
    BY DEF IndInv, TypeOK, ClientTypeOK
  <2> QED
    BY <2>1, <2>2, BaseFacts DEF Base
<1>1. /\ Leaves(c)
      /\ \A d \in Client \ {c} : d \in sure' <=> d \in sure
  BY <1>0, Ending
<1>2. /\ UNCHANGED serverVars
      /\ creq' = [creq EXCEPT ![c] = NoReq] /\ AtMenu(c)' /\ ~AtMenu(c)
      /\ cur' = [cur EXCEPT ![c] = NoConn]
      /\ alone' = alone \ {c}
      /\ \A j \in Conn : j # cur[c] => conn'[j] = conn[j]
  BY <1>0, <1>1, Gone DEF Leaves
<1>3. SUFFICES ASSUME NEW d \in Client PROVE Ends(d)'
  BY DEF EndsOK
<1>4. Ends(d) /\ RowsOf(d)' = RowsOf(d) /\ work' = work
  BY <1>2 DEF EndsOK, RowsOf, serverVars
<1>5. CASE d # c
  <2>1. /\ creq'[d] = creq[d] /\ cur'[d] = cur[d]
        /\ d \in sure' <=> d \in sure
        /\ d \in alone' <=> d \in alone
    BY <1>0, <1>1, <1>2, <1>5
  <2>2. cur[d] # NoConn => cur[d] \in Conn /\ conn'[cur[d]] = conn[cur[d]]
    <3>1. cur[d] # NoConn => cur[d] # cur[c]
      BY <1>0, <1>5 DEF CurOK
    <3> QED
      BY <1>0, <1>2, <3>1
  <2>3. ResponseTo(d)' = ResponseTo(d) /\ (Missed(d) => Missed(d)')
    BY <1>4, <2>1, <2>2 DEF ResponseTo, Missed, AtMenu
  <2>4. OwnKey(d)' = OwnKey(d)
    <3>1. cshm'[d] = cshm[d]
      BY <1>0, <1>5, Ending
    <3> QED
      BY <3>1 DEF OwnKey
  <2> QED
    BY <1>4, <2>1, <2>3, <2>4, EndsFrame
<1>6. CASE d = c
  <2>1. Did(d, "NewOrUpdate")' = FALSE /\ Did(d, "Revoke")' = FALSE
    BY <1>2, <1>6 DEF Did
  <2>2. OwnKey(c)' = cshm'[c][1]
    <3>1. cshm'[c] \in [1..1 -> NodeSHMInfo] /\ (cshm'[c][1] = Zero \/ cshm'[c][1].clientID = c)
      BY <1>0 DEF OwnTable
    <3>2. ShmRead(cshm'[c], c) = cshm'[c][1]
      BY <3>1, ReadOneSlot
    <3> QED
      BY <3>2 DEF OwnKey
  <2>3. ASSUME c \in sure'
        PROVE  Holds(c, cshm'[c][1])
    <3>1. CASE /\ Answered(c) /\ conn[cur[c]].rsp \in RespondMsg
               /\ cshm' = [cshm EXCEPT ![c] = TableAfter(c, conn[cur[c]].rsp)]
               /\ sure' = SureAfter(c, conn[cur[c]].rsp)
      <4>1. Holds(c, TableAfter(c, conn[cur[c]].rsp)[1])
        BY <1>4, <1>6, <2>3, <3>1, AnswerEnds
      <4> QED
        BY <1>0, <3>1, <4>1
    <3>2. CASE sure' = SureWithout(c)
      <4>1. c \in sure /\ creq[c].cmdType = "Check"
        BY <2>3, <3>2 DEF SureWithout
      <4>2. cshm'[c] = cshm[c]
        <5>1. PICK rsp \in RespondMsg :
                cshm' = cshm \/ cshm' = [cshm EXCEPT ![c] = TableAfter(c, rsp)]
          BY <1>0, Ending
        <5>2. TableAfter(c, rsp) = cshm[c]
          BY <1>0, <1>2, <4>1, Stored
        <5> QED
          BY <1>0, <5>1, <5>2
      <4>3. ~Missed(c) /\ ~Did(c, "NewOrUpdate") /\ ~Did(c, "Revoke")
        BY <4>1 DEF Missed, Did
      <4>4. Holds(c, OwnKey(c))
        BY <1>4, <1>6, <4>1, <4>3 DEF Ends
      <4>5. OwnKey(c) = cshm[c][1]
        BY <1>0, OneSlotTable
      <4> QED
        BY <4>2, <4>4, <4>5
    <3> QED
      BY <1>0, <3>1, <3>2, Ending
  <2>4. d \in sure' => Holds(d, OwnKey(d))'
    BY <1>4, <1>6, <2>2, <2>3 DEF Holds
  <2> QED
    BY <2>1, <2>4 DEF Ends
<1> QED
  BY <1>5, <1>6

LEMMA EndsNext ==
    ASSUME Enough, "noSend" \notin Faults, Base, EndsOK, [Next]_vars, IndInv', OwnTable'
    PROVE  EndsOK'
<1>1. ASSUME NEW c \in Client, ClientStep(c)
      PROVE  EndsOK'
  BY <1>1, BaseFacts, ClientKinds, RequestEnds, ReceiveEnds
<1> QED
  BY <1>1, WorkerEnds, CrashEnds, QuietEnds DEF Next, Server

LEMMA EndsInit == Init => EndsOK
<1> SUFFICES ASSUME Init, NEW c \in Client PROVE Ends(c)
  BY DEF EndsOK
<1>1. AtMenu(c) /\ cshm[c] = ZeroTable(1) /\ db = {}
  BY DEF Init, ServerInit, ClientInit, AtMenu
<1>2. OwnKey(c) = Zero
  <2>1. cshm[c] \in [1..1 -> NodeSHMInfo] /\ cshm[c][1] = Zero
    BY <1>1 DEF ZeroTable, Zero, NodeSHMInfo
  <2> QED
    BY <2>1, ReadOneSlot DEF OwnKey
<1> QED
  BY <1>1, <1>2 DEF Ends, Did, Holds, RowsOf

-----------------------------------------------------------------------------
(* The theorems.                                                           *)

\* Everything that the argument rests on, from the first state on.
LEMMA AlwaysBase ==
    ASSUME Enough, "noSend" \notin Faults
    PROVE  Spec => [](Base /\ EndsOK)
<1>1. Init => /\ RevokedOK /\ BothOK /\ Wired /\ Asked3 /\ Fits /\ Ids /\ Refused
              /\ EndsOK
  <2>1. Init => RevokedOK
    BY DEF Init, ServerInit, Idle, RevokedOK, TodoOK, LastChange, AgreePc,
       WritePc, RevokedStaysRevoked
  <2> QED
    BY <2>1, BothInit, WiredInit, AskedInit, FitsInit, IdsInit, RefusedInit, EndsInit
<1>2. ASSUME AloneSafe, AloneSafe', Base, EndsOK, [Next]_vars
      PROVE  /\ RevokedOK' /\ BothOK' /\ Wired' /\ Asked3' /\ Fits' /\ Ids' /\ Refused'
             /\ EndsOK'
  <2>1. /\ IndInv /\ RevokedOK /\ BothOK /\ Wired /\ Asked3 /\ OwnTable /\ Fits /\ Ids
        /\ Refused /\ MaxWorkers = 1 /\ "dbError" \notin Faults
    BY <1>2 DEF Base, AloneSafe, Asked3, Enough
  <2>2. IndInv'
    BY <1>2 DEF AloneSafe
  <2>3. Wired'
    BY <1>2, <2>1, WiredNext
  <2>4. Asked3'
    BY <1>2, <2>1, <2>2, <2>3, AskedNext
  <2>5. OwnTable'
    BY <2>4 DEF Asked3
  <2>6. RevokedOK' /\ BothOK'
    BY <1>2, <2>1, RevokedNext, BothNext
  <2>7. Fits' /\ Ids'
    BY <1>2, <2>1, FitsNext, IdsNext
  <2>8. Refused'
    BY <1>2, <2>1, RefusedNext
  <2>9. EndsOK'
    BY <1>2, <2>2, <2>5, EndsNext
  <2> QED
    BY <2>3, <2>4, <2>6, <2>7, <2>8, <2>9
<1> DEFINE Layers == RevokedOK /\ BothOK /\ Wired /\ Asked3 /\ Fits /\ Ids /\ Refused
                     /\ EndsOK
<1>3. Init => Layers
  BY <1>1
<1>4. AloneSafe /\ AloneSafe' /\ Layers /\ [Next]_vars => Layers'
  BY <1>2 DEF Base
<1>5. AloneSafe /\ Layers => Base /\ EndsOK
  BY DEF Base
<1>6. Spec => []AloneSafe
  BY AlwaysAlone DEF Enough
<1> HIDE DEF Layers
<1> QED
  BY <1>3, <1>4, <1>5, <1>6, PTL DEF Spec

\* A client of which nothing is on its way is not served, so its slot and its
\* row are the same.
LEMMA NobodyServes ==
    ASSUME Base, up = "up", NEW c \in Client,
           \A i \in ConnsOf(c) : conn[i].st # "served"
    PROVE  Told(c)
<1>1. ~Changing(c)
  <2>1. ASSUME NEW i \in Serving, work[i].req.clientId = c
        PROVE  FALSE
    <3>1. conn[i].client = c /\ conn[i].st = "served" /\ i \in Conn
      BY <2>1, BaseFacts DEF Serving, ConnOK, NameOf
    <3> QED
      BY <3>1 DEF ConnsOf
  <2> QED
    BY <2>1 DEF Changing
<1> QED
  BY <1>1, AgreeIsTold DEF Base, BothOK

\* Requests that do not overlap, statements that do not fail, a slot and an id
\* for every registered client, and clients that do not die between connect
\* and send: whenever a client knows the outcome of all it has asked and
\* nothing of it is on its way, the slot that the server reads holds the key
\* of the client's own table, and both agree on whether it may be used;
\* across crashes, lost and stale answers and nonces that change in transit.
THEOREM EndsMeet ==
    ASSUME MaxWorkers = 1, "dbError" \notin Faults, "noSend" \notin Faults,
           IsFiniteSet(Registered),
           Cardinality(Registered) <= MaxNode, Cardinality(Registered) <= MaxKeyId
    PROVE  Spec => []EndsAgree
<1>1. Enough
  BY DEF Enough
<1>2. ASSUME Base, EndsOK, up = "up", NEW c \in sure, AtMenu(c), ConnsOf(c) = {}
      PROVE  /\ OwnKey(c).seckey = ShmRead(shm, c).seckey
             /\ OwnKey(c).status = ShmRead(shm, c).status
  <2>1. c \in Client
    BY <1>2, BaseFacts DEF IndInv, TypeOK, ClientTypeOK
  <2>2. Holds(c, OwnKey(c))
    BY <1>2, <2>1 DEF EndsOK, Ends, Missed, Did
  <2>3. Told(c)
    BY <1>2, <2>1, NobodyServes
  <2>4. CASE OwnKey(c) = Zero
    <3>1. ShmRead(shm, c) = Zero
      BY <2>2, <2>3, <2>4 DEF Holds, Told, Same
    <3> QED
      BY <2>4, <3>1
  <2>5. CASE OwnKey(c) # Zero
    BY <2>2, <2>3, <2>5 DEF Holds, Told, Same
  <2> QED
    BY <2>4, <2>5
<1>3. Base /\ EndsOK => EndsAgree
  BY <1>2 DEF EndsAgree
<1> QED
  BY <1>1, <1>3, AlwaysBase, PTL

\* Under the same conditions the id that such a client keeps is the keyid of
\* its row: MAX(keyid) + 1, which the server computes for the response, is what
\* AUTO_INCREMENT gives to the row.
THEOREM IdsMeet ==
    ASSUME MaxWorkers = 1, "dbError" \notin Faults, "noSend" \notin Faults,
           IsFiniteSet(Registered),
           Cardinality(Registered) <= MaxNode, Cardinality(Registered) <= MaxKeyId
    PROVE  Spec => []ClientIdIsRowId
<1>1. Enough
  BY DEF Enough
<1>2. ASSUME Base, EndsOK, NEW c \in sure, AtMenu(c), OwnKey(c) # Zero, NEW r \in RowsOf(c)
      PROVE  r.keyid = OwnKey(c).seckeyID
  <2>1. c \in Client
    BY <1>2, BaseFacts DEF IndInv, TypeOK, ClientTypeOK
  <2>2. Holds(c, OwnKey(c))
    BY <1>2, <2>1 DEF EndsOK, Ends, Missed, Did
  <2> QED
    BY <1>2, <2>2 DEF Holds
<1>3. Base /\ EndsOK => ClientIdIsRowId
  BY <1>2 DEF ClientIdIsRowId
<1> QED
  BY <1>1, <1>3, AlwaysBase, PTL

\* Under the same conditions the slot of a client whose agreement was answered
\* holds the key that the client is about to compute from its own r1 and the
\* r2 of the response: the comparison of the codes lets no changed r1 through,
\* and r2 is the one that the key was derived from.
THEOREM AnswersFit ==
    ASSUME MaxWorkers = 1, "dbError" \notin Faults, "noSend" \notin Faults,
           IsFiniteSet(Registered),
           Cardinality(Registered) <= MaxNode, Cardinality(Registered) <= MaxKeyId
    PROVE  Spec => []AnswerFits
<1>1. Enough
  BY DEF Enough
<1>2. ASSUME Base, EndsOK, up = "up", NEW c \in Client, Answered(c), c \in alone,
             creq[c].cmdType = "NewOrUpdate", conn[cur[c]].rsp.rv = 0
      PROVE  ShmRead(shm, c).seckey = <<creq[c].r1, conn[cur[c]].rsp.r2>>
  <2> DEFINE rsp == conn[cur[c]].rsp
             node == Agreed(c, rsp)
  <2>1. /\ ~AtMenu(c) /\ cur[c] \in Conn /\ conn[cur[c]].st = "answered"
        /\ rsp \in RespondMsg
    BY <1>2, BaseFacts DEF Answered, IndInv, AnswerOK
  <2>2. ResponseTo(c) = rsp /\ rsp # NoRsp
    BY <1>2, <2>1, BaseFacts DEF ResponseTo
  <2>3. Did(c, "NewOrUpdate")
    BY <1>2, <2>1, <2>2 DEF Did
  <2>4. Holds(c, node)
    BY <1>2, <2>2, <2>3 DEF EndsOK, Ends
  <2>5. node # Zero /\ node.seckey = <<creq[c].r1, rsp.r2>>
    BY Constants DEF Agreed, Zero
  <2>6. Told(c)
    <3>1. ConnsOf(c) \subseteq {cur[c]}
      BY <1>2, BaseFacts DEF CurOK
    <3> QED
      BY <1>2, <2>1, <3>1, NobodyServes
  <2> HIDE DEF rsp, node
  <2>7. ShmRead(shm, c).seckey = <<creq[c].r1, rsp.r2>>
    BY <2>4, <2>5, <2>6 DEF Holds, Told, Same
  <2> QED
    BY <2>7 DEF rsp
<1>3. Base /\ EndsOK => AnswerFits
  BY <1>2 DEF AnswerFits
<1> QED
  BY <1>1, <1>3, AlwaysBase, PTL

-----------------------------------------------------------------------------
(* Workers that overlap: whatever they do to the rows, a client that asked *)
(* when nothing of it was on its way is given the key of its slot, as long *)
(* as no call on the table ran during a shmWrite.                          *)

\* The key that the client will derive is in the slot when worker i has it.
Made(i) ==
    work[i].pc \in AgreePc \ {"agree"} \/ (work[i].pc = "send" /\ work[i].rsp.rv = 0)

\* Such a client waits for the outcome of an agreement.
Agreeing(c) ==
    /\ c \in alone /\ ~AtMenu(c) /\ cur[c] # NoConn
    /\ creq[c].cmdType = "NewOrUpdate"

SlotFits ==
    \A c \in Client : Agreeing(c) =>
        /\ Made(cur[c]) =>
              ShmRead(shm, c).seckey = <<creq[c].r1, work[cur[c]].rsp.r2>>
        /\ conn[cur[c]].st = "answered" /\ conn[cur[c]].rsp.rv = 0 =>
              ShmRead(shm, c).seckey = <<creq[c].r1, conn[cur[c]].rsp.r2>>

\* Before the server listens nobody serves and nothing was answered.
Fresh == up # "up" => \A i \in Conn : work[i].pc = "idle" /\ conn[i].st # "answered"

\* What goes into the table has the name of its client or is all zeroes.
NodeOrZero ==
    \A i \in Conn : work[i].pc \in WritePc =>
        work[i].node = Zero \/ work[i].node.clientID # NoClient

Slots == Tidy /\ NodeOrZero /\ Fresh /\ (~met => SlotFits)

\* A slot for every client, whether registered or not.
Roomy == IsFiniteSet(Client) /\ Cardinality(Client) <= MaxNode

\* What a client wrote into the table is what it reads.
LEMMA RoomyWrite ==
    ASSUME Roomy, IndInv, OneSlotPerClient, ~met, Tidy, NEW node \in NodeSHMInfo,
           node.clientID \in Client
    PROVE  ShmRead(ShmWrite(shm, node), node.clientID) = node
<1>1. /\ IsTable(shm, MaxNode) /\ OneSlotEach(shm) /\ MaxNode \in Nat
      /\ shm \in [1..MaxNode -> NodeSHMInfo]
  BY Constants DEF OneSlotPerClient, IndInv, TypeOK, ServerTypeOK, IsTable
<1>2. \A k \in 1..MaxNode : /\ shm[k].clientID \in Client \cup {NoClient}
                            /\ shm[k].clientID = NoClient => shm[k] = Zero
  BY <1>1 DEF Tidy, NodeSHMInfo
<1>3. WriteSlots(shm, node.clientID) # {}
  BY <1>1, <1>2, RoomForAll DEF Roomy
<1> QED
  BY <1>1, <1>3, ShmReadAfterWrite

\* Nothing that the table promises depends on who else works on it.
LEMMA TidyNext ==
    ASSUME IndInv, Tidy, NodeOrZero, [Next]_vars
    PROVE  Tidy'
<1>0. IsTable(shm, MaxNode) /\ NoClient \notin Client /\ db \subseteq Row
      /\ todo \subseteq Row
  BY Constants DEF IndInv, TypeOK, ServerTypeOK, IsTable
<1>1. CASE shm' = shm
  BY <1>1 DEF Tidy
<1>2. CASE Boot
  BY <1>2 DEF Boot, ZeroTable, Tidy
<1>3. CASE LoadRow
  <2>1. PICK r \in todo :
          shm' = ShmWrite(shm, [status |-> r.state, seckeyID |-> r.keyid,
                                clientID |-> r.clientid, seckey |-> r.seckey])
    BY <1>3 DEF LoadRow
  <2>2. r.clientid # NoClient
    BY <1>0 DEF Row
  <2> QED
    BY <1>0, <2>1, <2>2, WriteTidy
<1>4. ASSUME NEW i \in Conn, Copy(i)
      PROVE  Tidy'
  <2>1. /\ work[i].node = Zero \/ work[i].node.clientID # NoClient
        /\ shm' = [k \in 1..MaxNode |-> IF k = work[i].slot THEN work[i].node ELSE shm[k]]
    BY <1>4 DEF Copy, At, NodeOrZero, WritePc
  <2> QED
    BY <1>0, <2>1 DEF Tidy, IsTable
<1> QED
  BY <1>1, <1>2, <1>3, <1>4, WhoWrites DEF StartUp, Listen

LEMMA NodeOrZeroNext ==
    ASSUME IndInv, NodeOrZero, [Next]_vars
    PROVE  NodeOrZero'
<1>1. CASE UNCHANGED work
  BY <1>1 DEF NodeOrZero
<1>2. CASE Crash
  BY <1>2 DEF Crash, Idle, NodeOrZero
<1>3. ASSUME NEW i \in Conn, WorkerStep(i)
      PROVE  NodeOrZero'
  <2>1. \A j \in Conn \ {i} : work'[j] = work[j]
    BY <1>3, OneMoves
  <2>2. CASE RevokeAccept(i)
    <3> DEFINE slot == ShmRead(shm, NameOf(i))
    <3>1. work'[i].node = [slot EXCEPT !.status = 0] /\ work[i].pc = "revoke"
      BY <2>2, RevokeCalls DEF Moves
    <3>2. NameOf(i) \in Client /\ IsTable(shm, MaxNode) /\ MaxNode \in Nat
          /\ NoClient \notin Client
      BY <3>1, Busy, Constants DEF NameOf
    <3>3. slot = Zero \/ slot.clientID = NameOf(i)
      BY <3>2, ReadOwn
    <3>4. slot \in NodeSHMInfo
      BY <3>2, ShmReadType
    <3>5. CASE slot = Zero
      <4>1. work'[i].node = Zero
        BY <3>1, <3>5 DEF Zero
      <4> QED
        BY <2>1, <4>1 DEF NodeOrZero
    <3>6. CASE slot.clientID = NameOf(i)
      <4>1. work'[i].node.clientID # NoClient
        BY <3>1, <3>2, <3>4, <3>6 DEF NodeSHMInfo
      <4> QED
        BY <2>1, <4>1 DEF NodeOrZero
    <3> QED
      BY <3>3, <3>5, <3>6
  <2>3. CASE AgreeAccept(i)
    <3>1. work'[i].node.clientID = NameOf(i) /\ work[i].pc = "agree"
      BY <2>3, AgreeCalls DEF Moves
    <3>2. NameOf(i) # NoClient
      BY <3>1, Busy, Constants DEF NameOf
    <3> QED
      BY <2>1, <3>1, <3>2 DEF NodeOrZero
  <2>4. CASE ShmWriteStep(i)
    <3>1. work[i].pc \in WritePc /\ work'[i].node = work[i].node
      BY <2>4, WriteCalls DEF ShmWriteStep, Moves, WritePc
    <3> QED
      BY <2>1, <3>1 DEF NodeOrZero
  <2>5. CASE ~RevokeAccept(i) /\ ~AgreeAccept(i) /\ ~ShmWriteStep(i)
    <3>1. work'[i].pc \notin WritePc
      BY <1>3, <2>5, ReceiveCall, OuterCalls, AgreeCalls, RevokeCalls
         DEF WorkerStep, AgreeStep, RevokeStep, Moves, WritePc
    <3> QED
      BY <2>1, <3>1 DEF NodeOrZero
  <2> QED
    BY <2>2, <2>3, <2>4, <2>5
<1>4. (StartUp \/ UNCHANGED serverVars) => UNCHANGED work
  BY DEF StartUp, Boot, LoadRow, Listen, serverVars
<1> QED
  BY <1>1, <1>2, <1>3, <1>4, Kinds

\* What clients and the network do: nobody but a worker answers, and a client
\* that waits for an agreement has waited for it before or has just asked.
Outside ==
    /\ UNCHANGED serverVars
    /\ \A i \in Conn : conn'[i].st = "answered" =>
          conn[i].st = "answered" /\ conn'[i].rsp = conn[i].rsp
    /\ \A d \in Client : Agreeing(d)' =>
          \/ Agreeing(d) /\ cur'[d] = cur[d] /\ creq'[d] = creq[d]
          \/ work[cur'[d]].pc = "idle" /\ conn'[cur'[d]].st = "sent"

LEMMA AskOutside ==
    ASSUME IndInv, Wired, NEW c \in Client, NEW req \in RequestMsg, Asks(c, req)
    PROVE  Outside
<1>0. /\ ConnOK /\ CurOK /\ conn \in [Conn -> Connection]
      /\ cur \in [Client -> Conn \cup {NoConn}]
      /\ creq \in [Client -> RequestMsg \cup {NoReq}]
      /\ NoConn \notin Conn
  BY Wires DEF Wired
<1>1. /\ AtMenu(c) /\ creq' = [creq EXCEPT ![c] = req] /\ UNCHANGED serverVars
      /\ alone' = IF ConnsOf(c) = {} THEN alone \cup {c} ELSE alone
  BY <1>0, Requested DEF Asks
<1>2. cur[c] = NoConn
  BY <1>0, <1>1 DEF CurOK
<1>3. CASE UNCHANGED <<conn, cur>>
  <2>1. \A d \in Client : Agreeing(d)' =>
           Agreeing(d) /\ cur'[d] = cur[d] /\ creq'[d] = creq[d]
    BY <1>0, <1>1, <1>2, <1>3 DEF Agreeing, AtMenu
  <2> QED
    BY <1>1, <1>3, <2>1 DEF Outside
<1>4. ASSUME NEW i \in Conn, conn[i].st = "free", work[i].pc = "idle",
             cur' = [cur EXCEPT ![c] = i],
             conn' = [conn EXCEPT ![i] = [st |-> "sent", client |-> c, open |-> TRUE,
                                          req |-> req, rsp |-> NoRsp]]
      PROVE  Outside
  <2>1. /\ conn'[i].st = "sent" /\ cur'[c] = i
        /\ \A j \in Conn \ {i} : conn'[j] = conn[j]
        /\ \A d \in Client \ {c} : /\ cur'[d] = cur[d] /\ creq'[d] = creq[d]
                                   /\ d \in alone' => d \in alone
    BY <1>0, <1>1, <1>4
  <2>2. \A d \in Client \ {c} : Agreeing(d)' => Agreeing(d)
    BY <2>1 DEF Agreeing, AtMenu
  <2> QED
    BY <1>1, <1>4, <2>1, <2>2 DEF Outside
<1> QED
  BY <1>0, <1>3, <1>4, Requested DEF Asks

LEMMA LeaveOutside ==
    ASSUME IndInv, Wired, NEW c \in Client, Leaves(c)
    PROVE  Outside
<1>0. /\ conn \in [Conn -> Connection] /\ cur \in [Client -> Conn \cup {NoConn}]
      /\ creq \in [Client -> RequestMsg \cup {NoReq}]
  BY Wires
<1>1. /\ UNCHANGED serverVars /\ AtMenu(c)' /\ creq' = [creq EXCEPT ![c] = NoReq]
      /\ cur' = [cur EXCEPT ![c] = NoConn] /\ alone' = alone \ {c}
  BY Gone
<1>2. ASSUME NEW i \in Conn, conn'[i].st = "answered"
      PROVE  conn'[i] = conn[i]
  <2>1. CASE cur[c] = NoConn \/ i # cur[c]
    BY <2>1, Gone
  <2>2. CASE cur[c] # NoConn /\ i = cur[c]
    BY <1>2, <2>2, Gone DEF FreeConn
  <2> QED
    BY <2>1, <2>2
<1>3. \A d \in Client \ {c} : Agreeing(d)' =>
         Agreeing(d) /\ cur'[d] = cur[d] /\ creq'[d] = creq[d]
  BY <1>0, <1>1 DEF Agreeing, AtMenu
<1>4. ~Agreeing(c)'
  BY <1>1 DEF Agreeing
<1>5. \A i \in Conn : conn'[i].st = "answered" =>
         conn[i].st = "answered" /\ conn'[i].rsp = conn[i].rsp
  BY <1>2
<1> QED
  BY <1>1, <1>3, <1>4, <1>5 DEF Outside

LEMMA OutsideStep ==
    ASSUME "noSend" \notin Faults, IndInv, Wired, OwnTable, [Next]_vars
    PROVE  \/ Outside
           \/ StartUp /\ UNCHANGED conn /\ UNCHANGED clientVars
           \/ Crash
           \/ (\E i \in Conn : WorkerStep(i)) /\ UNCHANGED clientVars
<1>1. ASSUME NEW c \in Client, ClientStep(c)
      PROVE  Outside
  BY <1>1, ClientKinds, AskOutside, LeaveOutside
<1>2. CASE Alter
  <2>1. /\ UNCHANGED serverVars /\ UNCHANGED clientVars /\ conn \in [Conn -> Connection]
        /\ \E i \in Conn : \E w \in AgreeRequest :
              conn[i].st = "sent" /\ conn' = [conn EXCEPT ![i] = [conn[i] EXCEPT !.req = w]]
    BY <1>2, Altered, Wires
  <2>2. \A i \in Conn : conn'[i].st = conn[i].st /\ conn'[i].rsp = conn[i].rsp
    BY <2>1 DEF Connection
  <2> QED
    BY <2>1, <2>2 DEF Outside, Agreeing, AtMenu, clientVars
<1>3. CASE UNCHANGED vars
  BY <1>3 DEF vars, Outside, Agreeing, AtMenu, clientVars
<1>4. CASE StartUp /\ UNCHANGED clientVars
  BY <1>4 DEF StartUp, Boot, LoadRow, Listen
<1> QED
  BY <1>1, <1>2, <1>3, <1>4 DEF Next, Server

\* A server that runs goes on: every request arrives whole.
LEMMA NoCrash ==
    ASSUME "crash" \notin Faults, IndInv, ConnOK
    PROVE  ~Crash
<1>1. ASSUME NEW i \in Conn, conn[i].st = "sent", conn[i].req = NoReq
      PROVE  FALSE
  BY <1>1, Wires DEF ConnOK
<1> QED
  BY <1>1 DEF Crash

LEMMA FreshNext ==
    ASSUME "crash" \notin Faults, "noSend" \notin Faults, IndInv, Wired, OwnTable, Fresh,
           [Next]_vars
    PROVE  Fresh'
<1>1. CASE Outside
  BY <1>1, Zenon DEF Outside, Fresh, serverVars
<1>2. CASE StartUp /\ UNCHANGED conn
  BY <1>2, Zenon DEF StartUp, Boot, LoadRow, Listen, Fresh
<1>3. ASSUME NEW i \in Conn, WorkerStep(i)
      PROVE  Fresh'
  <2>1. up' = "up"
    BY <1>3, OneMoves
  <2> QED
    BY <2>1, Zenon DEF Fresh
<1> QED
  BY <1>1, <1>2, <1>3, OutsideStep, NoCrash DEF Wired

\* The worker behind a client's request serves that client and no other does.
LEMMA OnlyWorker ==
    ASSUME IndInv, Wired, NEW i \in Conn, work[i].pc # "idle"
    PROVE  /\ NameOf(i) \in Client /\ conn[i].client = NameOf(i) /\ conn[i].st = "served"
           /\ \A c \in Client \ {NameOf(i)} : Agreeing(c) => cur[c] # i
           /\ Agreeing(NameOf(i)) => cur[NameOf(i)] = i
<1>1. /\ NameOf(i) \in Client /\ conn[i].client = NameOf(i) /\ conn[i].st = "served"
  BY Busy DEF NameOf, Wired, ConnOK
<1> QED
  BY <1>1 DEF Wired, CurOK, Agreeing, ConnsOf

LEMMA WorkerSlotFits ==
    ASSUME Roomy, IndInv, WriteOK, OneSlotPerClient, ~met, Tidy, Wired, AskedOK, Fits,
           SlotFits, NEW i \in Conn, WorkerStep(i), UNCHANGED clientVars
    PROVE  SlotFits'
<1>0. /\ UNCHANGED <<creq, cur, alone>>
      /\ \A c \in Client : Agreeing(c)' <=> Agreeing(c)
      /\ cur \in [Client -> Conn \cup {NoConn}]
      /\ \A c \in Client : Agreeing(c) => cur[c] \in Conn
  <2>1. UNCHANGED <<creq, cur, alone>>
    BY DEF clientVars
  <2> QED
    BY <2>1, Wires DEF Agreeing, AtMenu
<1>1. \A j \in Conn \ {i} : work'[j] = work[j]
  BY OneMoves
<1>2. \A j \in Conn \ {i} : conn'[j] = conn[j]
  <2>1. CASE Receive(i) \/ Send(i)
    BY <2>1, Wires DEF Receive, Send
  <2> QED
    BY <2>1, Inner
\* The others keep what they have.
<1>3. ASSUME NEW c \in Client, Agreeing(c), cur[c] # i, ShmRead(shm', c) = ShmRead(shm, c)
      PROVE  /\ Made(cur[c])' =>
                   ShmRead(shm', c).seckey = <<creq'[c].r1, work'[cur'[c]].rsp.r2>>
             /\ conn'[cur'[c]].st = "answered" /\ conn'[cur'[c]].rsp.rv = 0 =>
                   ShmRead(shm', c).seckey = <<creq'[c].r1, conn'[cur'[c]].rsp.r2>>
  BY <1>0, <1>1, <1>2, <1>3 DEF SlotFits, Made
<1>4. CASE Receive(i)
  <2>1. /\ shm' = shm /\ work'[i].pc = "query"
    BY <1>4, ReceiveCall DEF Quiet
  <2>2. conn'[i].st = "served"
    <3>1. conn' = [conn EXCEPT ![i] = [conn[i] EXCEPT !.st = "served", !.req = NoReq]]
      BY <1>4, Accepted DEF Wired
    <3> QED
      BY <3>1, Wires DEF Connection
  <2>3. ~Made(i)'
    BY <2>1 DEF Made, AgreePc
  <2>4. \A c \in Client : Agreeing(c) /\ cur[c] = i =>
           ~Made(cur[c])' /\ conn'[cur'[c]].st # "answered"
    BY <1>0, <2>2, <2>3 DEF Made
  <2> QED
    BY <1>0, <1>3, <2>1, <2>4 DEF SlotFits
<1>5. CASE Send(i)
  <2>1. shm' = shm /\ work[i].pc = "send" /\ work'[i].pc = "idle"
    BY <1>5, OuterCalls DEF Quiet
  <2>2. conn[i].open => conn'[i].rsp = work[i].rsp
    BY <1>5, Wires DEF Send, Connection
  <2>3. ~Made(i)' /\ (work[i].rsp.rv = 0 => Made(i))
    BY <2>1 DEF Made, AgreePc
  <2>4. ASSUME NEW c \in Client, Agreeing(c), cur[c] = i
        PROVE  /\ ~Made(cur[c])'
               /\ conn'[cur'[c]].st = "answered" /\ conn'[cur'[c]].rsp.rv = 0 =>
                     ShmRead(shm', c).seckey = <<creq'[c].r1, conn'[cur'[c]].rsp.r2>>
    <3>1. conn[i].open
      BY <2>4 DEF Wired, CurOK, Agreeing
    <3>2. work[i].rsp.rv = 0 =>
             ShmRead(shm, c).seckey = <<creq[c].r1, work[i].rsp.r2>>
      BY <2>3, <2>4 DEF SlotFits
    <3>3. ~Made(cur[c])'
      BY <1>0, <2>3, <2>4 DEF Made
    <3> QED
      BY <1>0, <2>1, <2>2, <2>4, <3>1, <3>2, <3>3
  <2> QED
    BY <1>0, <1>3, <2>1, <2>4 DEF SlotFits
<1>6. CASE ~Receive(i) /\ ~Send(i)
  <2> DEFINE d == NameOf(i)
  <2>1. /\ conn' = conn /\ work[i].pc # "idle" /\ work'[i].req = work[i].req
        /\ d \in Client /\ conn[i].client = d /\ conn[i].st = "served"
        /\ \A c \in Client \ {d} : Agreeing(c) => cur[c] # i
        /\ Agreeing(d) => cur[d] = i
    BY <1>6, Inner, OnlyWorker
  <2> HIDE DEF d
  <2>2. ASSUME \A c \in Client \ {d} : ShmRead(shm', c) = ShmRead(shm, c),
                        Agreeing(d) /\ Made(i)' =>
                           ShmRead(shm', d).seckey = <<creq[d].r1, work'[i].rsp.r2>>
                 PROVE  SlotFits'
    <3>1. \A c \in Client : Agreeing(c) /\ cur[c] = i =>
             c = d /\ Made(cur[c])' = Made(i)' /\ conn'[cur'[c]].st # "answered"
      BY <1>0, <2>1 DEF Made
    <3>2. \A c \in Client : Agreeing(c) /\ cur[c] # i => c # d
      BY <2>1
    <3> QED
      BY <1>0, <1>3, <2>2, <3>1, <3>2 DEF SlotFits
  <2>3. ASSUME Agreeing(d)
        PROVE  /\ work[i].req.cmdType = "NewOrUpdate"
               /\ work[i].req.authCode = Mac(d, creq[d].r1)
    <3>1. Carried(i) = work[i].req /\ cur[d] = i /\ cur[d] # NoConn /\ ~AtMenu(d)
          /\ creq[d].cmdType = "NewOrUpdate"
      BY <2>1, <2>3 DEF Carried, Agreeing
    <3> QED
      BY <2>1, <3>1 DEF AskedOK
  <2>4. CASE Copy(i) /\ Agrees(i)
    <3> DEFINE node == work[i].node
    <3>1. /\ node \in NodeSHMInfo /\ node.clientID = d /\ shm' = ShmWrite(shm, node)
      BY <2>4, CopyWrites DEF d
    <3>2. /\ work[i].req.authCode = Mac(d, work[i].req.r1)
          /\ node.seckey = <<work[i].req.r1, work'[i].rsp.r2>>
      <4>1. Keyed(i)
        BY <2>4 DEF Copy, At, Keyed, WritePc
      <4>2. work'[i].rsp = work[i].rsp
        BY <2>4, OuterRsp DEF ShmWriteStep
      <4> QED
        BY <4>1, <4>2 DEF Fits, KeyFits, d
    <3>3. ShmRead(shm', d) = node
      BY <2>1, <3>1, RoomyWrite
    <3>4. \A c \in Client \ {d} : ShmRead(shm', c) = ShmRead(shm, c)
      BY <3>1, ShmWriteOthers, Busy, Constants
    <3>5. Agreeing(d) => work[i].req.r1 = creq[d].r1
      BY <2>3, <3>2 DEF Mac
    <3> QED
      BY <2>2, <3>2, <3>3, <3>4, <3>5
  <2>5. CASE Copy(i) /\ ~Agrees(i)
    <3> DEFINE node == work[i].node
    <3>1. work'[i].pc = "revokeDb"
      BY <2>5, WriteCalls DEF Moves
    <3>2. /\ node \in NodeSHMInfo /\ node.clientID \in {d, NoClient}
          /\ shm' = ShmWrite(shm, node)
      BY <2>5, CopyWrites DEF d
    <3>3. \A c \in Client \ {d} : c # node.clientID
      BY <3>2, Constants
    <3>4. \A c \in Client \ {d} : ShmRead(shm', c) = ShmRead(shm, c)
      BY <3>2, <3>3, ShmWriteOthers, Busy, Constants
    <3>5. ~Made(i)'
      BY <3>1 DEF Made, AgreePc
    <3> QED
      BY <2>2, <3>4, <3>5
  <2>6. CASE QueryNode(i) \/ CheckId(i) \/ AgreeReject(i) \/ RevokeReject(i)
             \/ AgreeAccept(i) \/ RevokeAccept(i) \/ OwnSlot(i) \/ FreeSlot(i)
    <3>1. shm' = shm
      BY <2>6, OuterCalls, AgreeCalls, RevokeCalls, WriteCalls DEF Quiet
    <3>2. ~Made(i)'
      <4>1. CASE QueryNode(i) \/ AgreeAccept(i) \/ RevokeAccept(i) \/ OwnSlot(i)
                 \/ FreeSlot(i)
        BY <4>1, OuterCalls, AgreeCalls, RevokeCalls, WriteCalls DEF Moves, Made, AgreePc
      <4>2. CASE CheckId(i) \/ AgreeReject(i) \/ RevokeReject(i)
        BY <4>2, OuterRsp DEF Made, AgreePc
      <4> QED
        BY <2>6, <4>1, <4>2
    <3> QED
      BY <2>2, <3>1, <3>2
  <2>7. CASE Check(i) \/ RevokeDb(i)
    <3>1. shm' = shm /\ work[i].pc \in {"check", "revokeDb"}
      BY <2>7, RevokeCalls DEF Quiet, Moves
    <3>2. work[i].req.cmdType # "NewOrUpdate"
      BY <3>1 DEF Fits, Dispatched
    <3> QED
      BY <2>2, <2>3, <3>1, <3>2
  <2>8. CASE SelectKey(i) \/ DecideUpdate(i) \/ DecideInsert(i) \/ SelectMax(i)
             \/ TakeId(i) \/ UpdateRows(i) \/ InsertRow(i)
    <3>1. shm' = shm /\ work[i].pc \in AgreePc \ {"agree"}
      BY <2>8, AgreeCalls DEF Quiet, Moves, AgreePc
    <3>2. work'[i].rsp.r2 = work[i].rsp.r2
      BY <2>8, OuterRsp, KeyRsp
    <3>3. Agreeing(d) => ShmRead(shm, d).seckey = <<creq[d].r1, work[i].rsp.r2>>
      BY <2>1, <3>1 DEF SlotFits, Made
    <3> QED
      BY <2>2, <3>1, <3>2, <3>3
  <2> QED
    BY <1>6, <2>4, <2>5, <2>6, <2>7, <2>8
       DEF WorkerStep, AgreeStep, RevokeStep, ShmWriteStep
<1> QED
  BY <1>4, <1>5, <1>6

LEMMA SlotFitsNext ==
    ASSUME Roomy, "crash" \notin Faults, "noSend" \notin Faults, ~met',
           IndInv, WriteOK, OneSlotPerClient, Wired, Asked3, Fits, Slots, [Next]_vars
    PROVE  SlotFits'
<1>0. /\ Tidy /\ Fresh /\ (~met => SlotFits) /\ ConnOK /\ AskedOK /\ OwnTable
      /\ cur \in [Client -> Conn \cup {NoConn}]
  BY Wires DEF Slots, Wired, Asked3
<1>1. CASE Outside
  <2>1. UNCHANGED <<shm, work>> /\ SlotFits
    BY <1>0, <1>1 DEF Outside, serverVars
  <2>2. ASSUME NEW c \in Client, Agreeing(c)'
        PROVE  /\ Made(cur[c])' =>
                     ShmRead(shm', c).seckey = <<creq'[c].r1, work'[cur'[c]].rsp.r2>>
               /\ conn'[cur'[c]].st = "answered" /\ conn'[cur'[c]].rsp.rv = 0 =>
                     ShmRead(shm', c).seckey = <<creq'[c].r1, conn'[cur'[c]].rsp.r2>>
    <3>1. CASE work[cur'[c]].pc = "idle" /\ conn'[cur'[c]].st = "sent"
      BY <2>1, <3>1 DEF Made, AgreePc
    <3>2. CASE Agreeing(c) /\ cur'[c] = cur[c] /\ creq'[c] = creq[c]
      <4>1. cur[c] \in Conn
        BY <1>0, <3>2 DEF Agreeing
      <4> QED
        BY <1>0, <1>1, <2>1, <3>2, <4>1 DEF Outside, SlotFits, Made
    <3> QED
      BY <1>1, <2>2, <3>1, <3>2 DEF Outside
  <2> QED
    BY <2>2 DEF SlotFits
<1>2. CASE StartUp /\ UNCHANGED conn /\ UNCHANGED clientVars
  <2>1. up # "up" /\ UNCHANGED <<work, conn, cur, creq, alone>>
    BY <1>2 DEF StartUp, Boot, LoadRow, Listen, clientVars
  <2>2. \A c \in Client : Agreeing(c)' => cur'[c] \in Conn
    BY <1>0, <2>1 DEF Agreeing
  <2> QED
    BY <1>0, <2>1, <2>2 DEF SlotFits, Fresh, Made, AgreePc
<1>3. ASSUME NEW i \in Conn, WorkerStep(i)
      PROVE  ~met
  <2>1. up = "up"
    BY <1>3, OneMoves
  <2> QED
    BY <2>1, WhoWrites DEF Boot
<1> QED
  BY <1>0, <1>1, <1>2, <1>3, OutsideStep, NoCrash, WorkerSlotFits

\* What the answers of overlapping workers rest on, from the first state on.
LEMMA AlwaysSlots ==
    ASSUME Roomy, "crash" \notin Faults, "noSend" \notin Faults
    PROVE  Spec => [](IndInv /\ WriteOK /\ OneSlotPerClient /\ Wired /\ Asked3 /\ Fits
                      /\ Slots)
<1> DEFINE Layers == Wired /\ Asked3 /\ Fits /\ Slots
<1>1. Init => Layers
  <2>1. Init => Tidy /\ NodeOrZero /\ Fresh /\ SlotFits
    BY DEF Init, WireInit, ServerInit, ClientInit, ZeroTable, Idle, FreeConn, Tidy,
       NodeOrZero, Fresh, SlotFits, Agreeing
  <2> QED
    BY <2>1, WiredInit, AskedInit, FitsInit DEF Slots
<1>2. ASSUME IndInv, IndInv', WriteOK, OneSlotPerClient, Layers, [Next]_vars
      PROVE  Layers'
  <2>1. Wired' /\ Fits'
    BY <1>2, WiredNext, FitsNext DEF Asked3
  <2>2. Asked3'
    BY <1>2, <2>1, AskedNext
  <2>3. Tidy' /\ NodeOrZero' /\ Fresh'
    BY <1>2, TidyNext, NodeOrZeroNext, FreshNext DEF Slots, Asked3
  <2>4. ~met' => SlotFits'
    BY <1>2, SlotFitsNext
  <2> QED
    BY <2>1, <2>2, <2>3, <2>4 DEF Slots
<1>3. IndInv /\ IndInv' /\ WriteOK /\ OneSlotPerClient /\ Layers /\ [Next]_vars => Layers'
  BY <1>2
<1>4. IndInv /\ WriteOK /\ OneSlotPerClient /\ Layers =>
        IndInv /\ WriteOK /\ OneSlotPerClient /\ Wired /\ Asked3 /\ Fits /\ Slots
  OBVIOUS
<1> HIDE DEF Layers
<1> QED
  BY <1>1, <1>3, <1>4, Invariance, WriteInvariance, OneSlot, PTL DEF Spec

\* A slot for every client, a server that does not crash, and clients that do
\* not die between connect and send: for any number of workers that overlap, as
\* long as no call on the table ran during a shmWrite, the slot of a client whose
\* agreement was answered holds the key that the client is about to compute,
\* whether or not the statements of the database fail, whatever a worker reads of
\* another's result, and however many clients leave early, are deceived by an old
\* buffer or have r1 changed on its way.
THEOREM OverlapFits ==
    ASSUME IsFiniteSet(Client), Cardinality(Client) <= MaxNode,
           "crash" \notin Faults, "noSend" \notin Faults
    PROVE  Spec => []AnswerFits
<1>1. IndInv /\ Slots => AnswerFits
  BY Constants DEF Slots, SlotFits, AnswerFits, Agreeing, Answered
<1>2. Roomy
  BY DEF Roomy
<1> QED
  BY <1>1, <1>2, AlwaysSlots, PTL

-----------------------------------------------------------------------------
(* What a client that knows where it stands may then use.                  *)

\* What c asked for is in its slot, and c did not hear of it yet.
Changed(c, cmd) ==
    /\ ~AtMenu(c) /\ cur[c] # NoConn /\ creq[c].cmdType = cmd
    /\ \/ Made(cur[c]) \/ work[cur[c]].pc = "revokeDb"
       \/ conn[cur[c]].st = "answered" /\ conn[cur[c]].rsp.rv = 0

\* The response to c, given or in the making.
Response(c) ==
    IF conn[cur[c]].st = "answered" THEN conn[cur[c]].rsp ELSE work[cur[c]].rsp

\* The worker of c writes back what a revocation leaves of the slot.
Revoking(c) == cur[c] # NoConn /\ work[cur[c]].pc \in WritePc /\ ~Agrees(cur[c])

\* What a revocation will write back is the client's key.
NodeFits(c) ==
    ~AtMenu(c) /\ Revoking(c) =>
        /\ work[cur[c]].node.clientID = c
        /\ work[cur[c]].node.seckey = OwnKey(c).seckey

KeyIsSlot(c) ==
    c \in sure /\ ~Changed(c, "NewOrUpdate") =>
        /\ OwnKey(c).seckey = ShmRead(shm, c).seckey
        /\ ~Changed(c, "Revoke") /\ OwnKey(c).status = 1 => ShmRead(shm, c).status = 1

NewsIsSlot(c) ==
    c \in sure \cup alone /\ Changed(c, "NewOrUpdate") =>
        /\ ShmRead(shm, c).seckey = <<creq[c].r1, Response(c).r2>>
        /\ ShmRead(shm, c).status = 1

Fitting(c) == NodeFits(c) /\ KeyIsSlot(c) /\ NewsIsSlot(c)

AllFit == \A c \in Client : Fitting(c)

\* Without a crash the server starts once, on an empty table.
Blank == up # "up" => ~met /\ shm = ZeroTable(MaxNode) /\ db = {} /\ todo = {}

LEMMA FittingKept ==
    ASSUME NEW d \in Client, Fitting(d), ShmRead(shm', d) = ShmRead(shm, d),
           creq'[d] = creq[d], cur'[d] = cur[d], OwnKey(d)' = OwnKey(d),
           d \in sure' <=> d \in sure, d \in alone' <=> d \in alone,
           Changed(d, "NewOrUpdate")' <=> Changed(d, "NewOrUpdate"),
           Changed(d, "Revoke")' <=> Changed(d, "Revoke"),
           Changed(d, "NewOrUpdate") => Response(d)'.r2 = Response(d).r2,
           Revoking(d)' => Revoking(d) /\ work'[cur[d]].node = work[cur[d]].node
    PROVE  Fitting(d)'
<1>1. NodeFits(d)'
  BY DEF Fitting, NodeFits, AtMenu
<1>2. KeyIsSlot(d)'
  BY DEF Fitting, KeyIsSlot
<1>3. NewsIsSlot(d)'
  BY DEF Fitting, NewsIsSlot
<1> QED
  BY <1>1, <1>2, <1>3 DEF Fitting

\* A step that does not touch a client, its connection and its slot.
LEMMA FittingFrame ==
    ASSUME NEW d \in Client, Fitting(d), ShmRead(shm', d) = ShmRead(shm, d),
           creq'[d] = creq[d], cur'[d] = cur[d], OwnKey(d)' = OwnKey(d),
           d \in sure' <=> d \in sure, d \in alone' <=> d \in alone,
           cur[d] # NoConn => /\ conn'[cur[d]].st = conn[cur[d]].st
                              /\ conn'[cur[d]].rsp = conn[cur[d]].rsp
                              /\ work'[cur[d]] = work[cur[d]]
    PROVE  Fitting(d)'
<1>1. /\ Changed(d, "NewOrUpdate")' <=> Changed(d, "NewOrUpdate")
      /\ Changed(d, "Revoke")' <=> Changed(d, "Revoke")
  BY DEF Changed, AtMenu, Made
<1>2. Changed(d, "NewOrUpdate") => Response(d)'.r2 = Response(d).r2
  BY DEF Changed, Response
<1>3. Revoking(d)' => Revoking(d) /\ work'[cur[d]].node = work[cur[d]].node
  BY DEF Revoking, Agrees
<1> QED
  BY <1>1, <1>2, <1>3, FittingKept

\* The client whose request a worker has in its hands, if it still waits.
LEMMA OwnWorker ==
    ASSUME IndInv, Wired, Asked3, NEW i \in Conn, work[i].pc # "idle"
    PROVE  /\ NameOf(i) \in Client /\ conn[i].st = "served"
           /\ \A c \in Client : cur[c] = i =>
                 /\ c = NameOf(i) /\ ~AtMenu(c) /\ cur[c] # NoConn
                 /\ creq[c].cmdType = work[i].req.cmdType
                 /\ creq[c].authCode = work[i].req.authCode
           /\ \A c \in sure \cup alone :
                 c = NameOf(i) /\ work[i].req.cmdType # "Check" => cur[c] = i
<1>1. /\ NameOf(i) \in Client /\ conn[i].client = NameOf(i) /\ conn[i].st = "served"
      /\ ConnOK /\ CurOK /\ AskedOK /\ OnlyChecks /\ NoConn \notin Conn
  BY Busy, Wires DEF NameOf, Wired, ConnOK, Asked3
<1>2. Carried(i) = work[i].req
  BY <1>1 DEF Carried
<1>3. ASSUME NEW c \in Client, cur[c] = i
      PROVE  /\ c = NameOf(i) /\ ~AtMenu(c) /\ cur[c] # NoConn
             /\ creq[c].cmdType = work[i].req.cmdType
             /\ creq[c].authCode = work[i].req.authCode
  <2>1. c = NameOf(i) /\ ~AtMenu(c) /\ cur[c] # NoConn
    BY <1>1, <1>3 DEF CurOK
  <2> QED
    BY <1>1, <1>2, <1>3, <2>1 DEF AskedOK
<1>4. ASSUME NEW c \in sure \cup alone, c = NameOf(i), work[i].req.cmdType # "Check"
      PROVE  cur[c] = i
  BY <1>1, <1>2, <1>4 DEF OnlyChecks, ConnsOf
<1> QED
  BY <1>1, <1>3, <1>4

\* The calls of a worker that change what its client is told, and those that
\* do not: before the key is made and after it.
LEMMA OwnChanged ==
    ASSUME IndInv, Wired, Asked3, Fits, NEW i \in Conn, WorkerStep(i), UNCHANGED clientVars,
           ~Copy(i), NEW d \in Client, cur[d] = i
    PROVE  /\ Changed(d, "NewOrUpdate")' <=> Changed(d, "NewOrUpdate")
           /\ Changed(d, "Revoke")' <=> Changed(d, "Revoke")
           /\ Changed(d, "NewOrUpdate") => Response(d)'.r2 = Response(d).r2
<1>0. /\ UNCHANGED <<creq, cur>> /\ ConnOK /\ CurOK /\ conn \in [Conn -> Connection]
      /\ NoConn \notin Conn
  <2>1. UNCHANGED <<creq, cur>>
    BY DEF clientVars
  <2> QED
    BY <2>1, Wires DEF Wired
<1>1. ASSUME ~Made(i), work[i].pc # "revokeDb", conn[i].st # "answered",
             ~Made(i)', work'[i].pc # "revokeDb", conn'[i].st # "answered"
      PROVE  /\ Changed(d, "NewOrUpdate")' = FALSE /\ Changed(d, "NewOrUpdate") = FALSE
             /\ Changed(d, "Revoke")' = FALSE /\ Changed(d, "Revoke") = FALSE
  BY <1>0, <1>1 DEF Changed, Made
<1>2. CASE Receive(i)
  <2>1. /\ conn[i].st = "sent" /\ work'[i].pc = "query"
        /\ conn' = [conn EXCEPT ![i] = [conn[i] EXCEPT !.st = "served", !.req = NoReq]]
    BY <1>0, <1>2, Accepted
  <2>2. conn'[i].st = "served" /\ work[i].pc = "idle"
    BY <1>0, <2>1 DEF Connection, ConnOK
  <2>3. ~Made(i) /\ ~Made(i)'
    BY <2>1, <2>2 DEF Made, AgreePc
  <2> QED
    BY <1>1, <2>1, <2>2, <2>3
<1>3. CASE Send(i)
  <2>1. work[i].pc = "send" /\ work'[i].pc = "idle" /\ conn[i].st = "served" /\ conn[i].open
    BY <1>0, <1>3, OuterCalls, OwnWorker DEF CurOK
  <2>2. conn'[i].st = "answered" /\ conn'[i].rsp = work[i].rsp
    BY <1>0, <1>3, <2>1 DEF Send, Connection
  <2>3. ~Made(i)' /\ (Made(i) <=> work[i].rsp.rv = 0)
    BY <2>1 DEF Made, AgreePc
  <2>4. Response(d)' = Response(d)
    BY <1>0, <2>1, <2>2 DEF Response
  <2>5. \A cmd : Changed(d, cmd)' <=> Changed(d, cmd)
    BY <1>0, <2>1, <2>2, <2>3 DEF Changed, AtMenu, Made
  <2> QED
    BY <2>4, <2>5
<1>4. CASE ~Receive(i) /\ ~Send(i)
  <2>1. /\ conn' = conn /\ work[i].pc # "idle" /\ conn[i].st = "served"
        /\ creq[d].cmdType = work[i].req.cmdType
    BY <1>4, Inner, OwnWorker
  <2>2. CASE QueryNode(i) \/ CheckId(i) \/ AgreeReject(i) \/ RevokeReject(i)
             \/ AgreeAccept(i) \/ RevokeAccept(i) \/ OwnSlot(i) \/ FreeSlot(i)
    <3>1. /\ work[i].pc \in {"query", "checkId", "agree", "revoke", "ownSlot", "freeSlot"}
          /\ work'[i].pc # "revokeDb"
      BY <2>2, OuterCalls, AgreeCalls, RevokeCalls, WriteCalls DEF Moves
    <3>2. ~Made(i)'
      <4>1. CASE QueryNode(i) \/ AgreeAccept(i) \/ RevokeAccept(i) \/ OwnSlot(i)
                 \/ FreeSlot(i)
        BY <4>1, OuterCalls, AgreeCalls, RevokeCalls, WriteCalls DEF Moves, Made, AgreePc
      <4>2. CASE CheckId(i) \/ AgreeReject(i) \/ RevokeReject(i)
        BY <4>2, OuterRsp DEF Made, AgreePc
      <4> QED
        BY <2>2, <4>1, <4>2
    <3>3. ~Made(i)
      BY <3>1 DEF Made, AgreePc
    <3> QED
      BY <1>1, <2>1, <3>1, <3>2, <3>3
  <2>3. CASE Check(i)
    <3>1. work[i].pc = "check"
      BY <2>3, RevokeCalls DEF Moves
    <3>2. creq[d].cmdType = "Check"
      BY <2>1, <3>1 DEF Fits, Dispatched
    <3> QED
      BY <1>0, <3>2 DEF Changed
  <2>4. CASE RevokeDb(i)
    <3>1. work[i].pc = "revokeDb" /\ work'[i].pc = "send" /\ work'[i].rsp.rv = 0
      BY <2>4, RevokeCalls, OuterRsp DEF Moves
    <3>2. creq[d].cmdType = "Revoke" /\ Made(i)'
      BY <2>1, <3>1 DEF Fits, Dispatched, Made
    <3> QED
      BY <1>0, <3>1, <3>2 DEF Changed, AtMenu, Made
  <2>5. CASE SelectKey(i) \/ DecideUpdate(i) \/ DecideInsert(i) \/ SelectMax(i)
             \/ TakeId(i) \/ UpdateRows(i) \/ InsertRow(i)
    <3>1. work[i].pc \in AgreePc \ {"agree"}
      BY <2>5, AgreeCalls DEF Moves, AgreePc
    <3>2. work'[i].rsp.r2 = work[i].rsp.r2
      BY <2>5, OuterRsp, KeyRsp
    <3>3. Made(i) /\ Made(i)'
      BY <2>5, <3>1, AgreeCalls, OuterRsp DEF Moves, Made, AgreePc
    <3> QED
      BY <1>0, <2>1, <3>2, <3>3 DEF Changed, AtMenu, Made, Response
  <2> QED
    BY <1>4, <2>2, <2>3, <2>4, <2>5 DEF WorkerStep, AgreeStep, RevokeStep, ShmWriteStep
<1> QED
  BY <1>2, <1>3, <1>4

\* A key made or taken back by a worker is in the slot of the client that
\* waits for it, and of nobody else that knows where it stands.
LEMMA WorkerFitting ==
    ASSUME Roomy, IndInv, WriteOK, OneSlotPerClient, ~met, Tidy, Wired, Asked3, Fits,
           AllFit, NEW i \in Conn, WorkerStep(i), UNCHANGED clientVars
    PROVE  AllFit'
<1>0. /\ UNCHANGED <<cshm, creq, cur, sure, alone>>
      /\ \A c \in Client : OwnKey(c)' = OwnKey(c)
      /\ cur \in [Client -> Conn \cup {NoConn}] /\ conn \in [Conn -> Connection]
      /\ CurOK /\ NoConn \notin Conn
  <2>1. UNCHANGED <<cshm, creq, cur, sure, alone>>
    BY DEF clientVars
  <2> QED
    BY <2>1, Wires DEF OwnKey, Wired
<1>1. \A j \in Conn \ {i} : work'[j] = work[j] /\ conn'[j] = conn[j]
  <2>1. \A j \in Conn \ {i} : work'[j] = work[j]
    BY OneMoves
  <2>2. CASE Receive(i) \/ Send(i)
    BY <1>0, <2>1, <2>2 DEF Receive, Send
  <2> QED
    BY <2>1, <2>2, Inner
<1>2. ASSUME NEW c \in Client, cur[c] # i, ShmRead(shm', c) = ShmRead(shm, c)
      PROVE  Fitting(c)'
  <2>1. cur[c] # NoConn => /\ conn'[cur[c]].st = conn[cur[c]].st
                           /\ conn'[cur[c]].rsp = conn[cur[c]].rsp
                           /\ work'[cur[c]] = work[cur[c]]
    BY <1>0, <1>1, <1>2
  <2> QED
    BY <1>0, <1>2, <2>1, FittingFrame DEF AllFit
<1>3. ASSUME NEW c \in Client, cur[c] # i, c \notin sure \cup alone
      PROVE  Fitting(c)'
  <2>1. cur[c] # NoConn => work'[cur[c]] = work[cur[c]]
    BY <1>0, <1>1, <1>3
  <2>2. NodeFits(c)'
    BY <1>0, <1>3, <2>1 DEF AllFit, Fitting, NodeFits, AtMenu, Revoking, Agrees
  <2>3. KeyIsSlot(c)' /\ NewsIsSlot(c)'
    BY <1>0, <1>3 DEF KeyIsSlot, NewsIsSlot
  <2> QED
    BY <2>2, <2>3 DEF Fitting
<1>4. CASE Copy(i) /\ Agrees(i)
  <2>0. PICK d \in Client, node \in NodeSHMInfo : d = NameOf(i) /\ node = work[i].node
    BY <1>4, Busy, CopyWrites DEF Copy, At, NameOf
  <2>1. /\ node.clientID = d /\ shm' = ShmWrite(shm, node)
        /\ work[i].pc = "copy" /\ work'[i].pc = "select" /\ work'[i].rsp = work[i].rsp
    BY <1>4, <2>0, CopyWrites, WriteCalls, OuterRsp DEF Moves, ShmWriteStep
  <2>2. /\ work[i].req.authCode = Mac(d, work[i].req.r1) /\ node.status = 1
        /\ node.seckey = <<work[i].req.r1, work'[i].rsp.r2>>
    <3>1. Keyed(i)
      BY <1>4, <2>1 DEF Keyed, WritePc
    <3> QED
      BY <1>4, <2>0, <2>1, <3>1 DEF Fits, KeyFits, WritePc
  <2>3. /\ work[i].req.cmdType = "NewOrUpdate" /\ conn[i].st = "served"
        /\ \A c \in Client : cur[c] = i => c = d
    BY <1>4, <2>0, <2>1, OwnWorker DEF Agrees
  <2>4. ShmRead(shm', d) = node
    BY <2>1, <2>3, RoomyWrite
  <2>5. \A c \in Client \ {d} : ShmRead(shm', c) = ShmRead(shm, c)
    BY <2>1, ShmWriteOthers, Busy, Constants
  <2>6. CASE cur[d] = i
    <3>1. /\ ~AtMenu(d) /\ cur[d] # NoConn /\ creq[d].cmdType = "NewOrUpdate"
          /\ creq[d].authCode = work[i].req.authCode
      BY <2>1, <2>3, <2>6, OwnWorker
    <3>2. creq[d].authCode = Mac(d, creq[d].r1)
      BY <2>3, <3>1 DEF Asked3, AskedOK
    <3>3. work[i].req.r1 = creq[d].r1
      BY <2>2, <3>1, <3>2 DEF Mac
    <3>4. conn' = conn
      BY <1>4 DEF Copy
    <3>5. Changed(d, "NewOrUpdate")' /\ Response(d)' = work'[i].rsp
      BY <1>0, <2>1, <2>3, <2>6, <3>1, <3>4
         DEF Changed, AtMenu, Made, AgreePc, Response
    <3>6. NodeFits(d)' /\ KeyIsSlot(d)'
      BY <1>0, <2>1, <2>6, <3>5 DEF NodeFits, Revoking, WritePc, KeyIsSlot
    <3>7. NewsIsSlot(d)'
      BY <1>0, <2>1, <2>2, <2>4, <3>3, <3>5 DEF NewsIsSlot
    <3>8. Fitting(d)'
      BY <3>6, <3>7 DEF Fitting
    <3> QED
      BY <1>2, <2>3, <2>5, <2>6, <3>8 DEF AllFit
  <2>7. CASE cur[d] # i
    <3>1. d \notin sure \cup alone
      BY <2>0, <2>1, <2>3, <2>7, OwnWorker
    <3> QED
      BY <1>2, <1>3, <2>3, <2>5, <2>7, <3>1 DEF AllFit
  <2> QED
    BY <2>6, <2>7
<1>5. CASE Copy(i) /\ ~Agrees(i)
  <2>0. PICK d \in Client, node \in NodeSHMInfo : d = NameOf(i) /\ node = work[i].node
    BY <1>5, Busy, CopyWrites DEF Copy, At, NameOf
  <2>1. work[i].pc = "copy" /\ work'[i].pc = "revokeDb" /\ shm' = ShmWrite(shm, node)
    BY <1>5, <2>0, CopyWrites, WriteCalls DEF Moves
  <2>2. /\ work[i].req.cmdType = "Revoke" /\ conn[i].st = "served"
        /\ \A c \in Client : cur[c] = i => c = d
    BY <1>5, <2>0, <2>1, OwnWorker DEF Fits, Dispatched, WritePc
  <2>3. node.clientID \in {d, NoClient}
    BY <1>5, <2>0, CopyWrites
  <2>4. \A c \in Client \ {d} : ShmRead(shm', c) = ShmRead(shm, c)
    <3>1. \A c \in Client \ {d} : c # node.clientID
      BY <2>3, Constants
    <3> QED
      BY <2>1, <2>3, <3>1, ShmWriteOthers, Busy, Constants
  <2>5. CASE cur[d] = i
    <3>1. ~AtMenu(d) /\ cur[d] # NoConn /\ creq[d].cmdType = "Revoke"
      BY <2>1, <2>2, <2>5, OwnWorker
    <3>2. node.clientID = d /\ node.seckey = OwnKey(d).seckey
      BY <1>5, <2>0, <2>1, <2>2, <2>5, <3>1 DEF AllFit, Fitting, NodeFits, Revoking, WritePc
    <3>3. ShmRead(shm', d) = node
      BY <2>1, <2>2, <2>3, <3>2, RoomyWrite
    <3>4. Changed(d, "Revoke")' /\ ~Changed(d, "NewOrUpdate")'
      BY <1>0, <2>1, <2>5, <3>1 DEF Changed, AtMenu
    <3>5. NodeFits(d)' /\ NewsIsSlot(d)'
      BY <1>0, <2>1, <2>5, <3>4 DEF NodeFits, Revoking, WritePc, NewsIsSlot
    <3>6. KeyIsSlot(d)'
      BY <1>0, <2>2, <3>2, <3>3, <3>4 DEF KeyIsSlot
    <3>7. Fitting(d)'
      BY <3>5, <3>6 DEF Fitting
    <3> QED
      BY <1>2, <2>2, <2>4, <2>5, <3>7 DEF AllFit
  <2>6. CASE cur[d] # i
    <3>1. d \notin sure \cup alone
      BY <2>0, <2>1, <2>2, <2>6, OwnWorker
    <3> QED
      BY <1>2, <1>3, <2>2, <2>4, <2>6, <3>1 DEF AllFit
  <2> QED
    BY <2>5, <2>6
<1>6. CASE ~Copy(i)
  <2>1. shm' = shm
    BY <1>6, NotWriting, WriteCalls DEF ShmWriteStep, Quiet
  <2>2. ASSUME NEW c \in Client, cur[c] = i, RevokeAccept(i)
        PROVE  /\ work'[i].node.clientID = c
               /\ work'[i].node.seckey = OwnKey(c).seckey
    <3>0. PICK slot : slot = ShmRead(shm, c)
      OBVIOUS
    <3>1. work[i].pc = "revoke" /\ work'[i].node = [ShmRead(shm, NameOf(i)) EXCEPT !.status = 0]
      BY <2>2, RevokeCalls DEF Moves
    <3>2. /\ c = NameOf(i) /\ ~AtMenu(c) /\ creq[c].authCode = work[i].req.authCode
          /\ creq[c].cmdType = "Revoke"
      BY <2>2, <3>1, OwnWorker DEF Fits, Dispatched
    <3>3. creq[c].authCode = Mac(c, OwnKey(c).seckey) /\ OwnKey(c).status = 1
      BY <3>2 DEF Asked3, AskedOK
    <3>4. work[i].req.authCode = Mac(c, slot.seckey)
      BY <2>2, <3>0, <3>2 DEF RevokeAccept, KeyMatches, NameOf
    <3>5. slot.seckey = OwnKey(c).seckey
      <4>1. \A key1, key2 : Mac(c, key1) = Mac(c, key2) => key1 = key2
        BY DEF Mac
      <4> QED
        BY <3>2, <3>3, <3>4, <4>1
    <3>6. OwnKey(c).seckey \in Key
      BY <3>3, OneSlotTable DEF IndInv, UsableOK, Asked3
    <3>7. slot # Zero
      BY <3>5, <3>6, NoKeyAssumption DEF Zero
    <3>8. slot.clientID = c /\ slot \in NodeSHMInfo
      BY <3>0, <3>7, Busy, Constants, ReadOwn, ShmReadType
    <3>9. work'[i].node = [slot EXCEPT !.status = 0]
      BY <3>0, <3>1, <3>2
    <3> QED
      BY <3>5, <3>8, <3>9 DEF NodeSHMInfo
  <2>3. ASSUME NEW c \in Client, cur[c] = i, ~RevokeAccept(i), Revoking(c)'
        PROVE  Revoking(c) /\ work'[i].node = work[i].node
    <3>1. work'[i].pc \in WritePc /\ work'[i].req.cmdType # "NewOrUpdate"
      BY <1>0, <2>3 DEF Revoking, Agrees
    <3>2. CASE AgreeAccept(i)
      BY <3>1, <3>2, AgreeCalls DEF Moves
    <3>3. CASE OwnSlot(i) \/ FreeSlot(i)
      <4>1. /\ work[i].pc \in WritePc /\ work'[i].req = work[i].req
            /\ work'[i].node = work[i].node
        BY <3>3, WriteCalls DEF Moves, WritePc
      <4> QED
        BY <1>0, <2>3, <3>1, <4>1 DEF Revoking, Agrees
    <3>4. CASE ~AgreeAccept(i) /\ ~OwnSlot(i) /\ ~FreeSlot(i)
      <4>1. work'[i].pc \notin WritePc
        BY <1>6, <2>3, <3>4, ReceiveCall, OuterCalls, AgreeCalls, RevokeCalls
           DEF WorkerStep, AgreeStep, RevokeStep, ShmWriteStep, Moves, WritePc
      <4> QED
        BY <3>1, <4>1
    <3> QED
      BY <3>2, <3>3, <3>4
  <2>4. ASSUME NEW c \in Client, cur[c] = i
        PROVE  Fitting(c)'
    <3>1. /\ Changed(c, "NewOrUpdate")' <=> Changed(c, "NewOrUpdate")
          /\ Changed(c, "Revoke")' <=> Changed(c, "Revoke")
          /\ Changed(c, "NewOrUpdate") => Response(c)'.r2 = Response(c).r2
      BY <1>6, <2>4, OwnChanged
    <3>2. Fitting(c) /\ UNCHANGED shm
      BY <2>1, <2>4 DEF AllFit
    <3>3. NodeFits(c)'
      <4>1. CASE RevokeAccept(i)
        BY <1>0, <2>2, <2>4, <4>1 DEF NodeFits
      <4>2. CASE ~RevokeAccept(i)
        BY <1>0, <2>3, <2>4, <3>2, <4>2 DEF NodeFits, Fitting, AtMenu
      <4> QED
        BY <4>1, <4>2
    <3>4. KeyIsSlot(c)'
      BY <1>0, <3>1, <3>2 DEF Fitting, KeyIsSlot
    <3>5. NewsIsSlot(c)'
      BY <1>0, <3>1, <3>2 DEF Fitting, NewsIsSlot
    <3> QED
      BY <3>3, <3>4, <3>5 DEF Fitting
  <2> QED
    BY <1>2, <2>1, <2>4 DEF AllFit
<1> QED
  BY <1>4, <1>5, <1>6

\* A request is sent: nothing of it was carried out yet.
LEMMA RequestFitting ==
    ASSUME IndInv, Wired, AllFit, NEW c \in Client, NEW req \in RequestMsg, Asks(c, req)
    PROVE  AllFit'
<1>0. /\ ConnOK /\ CurOK /\ conn \in [Conn -> Connection]
      /\ cur \in [Client -> Conn \cup {NoConn}]
      /\ creq \in [Client -> RequestMsg \cup {NoReq}]
      /\ NoConn \notin Conn
  BY Wires DEF Wired
<1>1. /\ AtMenu(c) /\ creq' = [creq EXCEPT ![c] = req] /\ ~AtMenu(c)'
      /\ UNCHANGED <<cshm, sure>> /\ UNCHANGED <<shm, work>>
      /\ alone' = IF ConnsOf(c) = {} THEN alone \cup {c} ELSE alone
      /\ \/ UNCHANGED <<conn, cur>>
         \/ \E i \in Conn :
               /\ conn[i].st = "free" /\ work[i].pc = "idle"
               /\ cur' = [cur EXCEPT ![c] = i]
               /\ conn' = [conn EXCEPT ![i] =
                             [st |-> "sent", client |-> c, open |-> TRUE,
                              req |-> req, rsp |-> NoRsp]]
  BY <1>0, Requested DEF Asks, serverVars
<1>2. \A d \in Client : Fitting(d) /\ OwnKey(d)' = OwnKey(d)
  BY <1>1 DEF AllFit, OwnKey
<1>3. ASSUME NEW d \in Client \ {c}
      PROVE  Fitting(d)'
  <2>1. creq'[d] = creq[d] /\ (d \in alone' <=> d \in alone)
    BY <1>0, <1>1
  <2>2. cur'[d] = cur[d] /\ (cur[d] # NoConn => conn'[cur[d]] = conn[cur[d]])
    <3>1. \A i \in Conn : conn[i].st = "free" => cur[d] # i
      BY <1>0 DEF CurOK, ConnOK
    <3> QED
      BY <1>0, <1>1, <3>1
  <2> QED
    BY <1>1, <1>2, <2>1, <2>2, FittingFrame
<1>4. Fitting(c)'
  <2>1. ~Changed(c, "NewOrUpdate") /\ ~Changed(c, "Revoke")
    BY <1>1 DEF Changed
  <2>2. \/ cur'[c] = NoConn
        \/ work'[cur'[c]].pc = "idle" /\ conn'[cur'[c]].st = "sent"
    BY <1>0, <1>1 DEF CurOK
  <2>3. ~Changed(c, "NewOrUpdate")' /\ ~Changed(c, "Revoke")' /\ NodeFits(c)'
    BY <2>2 DEF Changed, Made, AgreePc, NodeFits, Revoking, WritePc
  <2> QED
    BY <1>1, <1>2, <2>1, <2>3 DEF Fitting, KeyIsSlot, NewsIsSlot
<1> QED
  BY <1>3, <1>4 DEF AllFit

\* What the answer leaves in the client's table is in its slot.
LEMMA AnswerFitting ==
    ASSUME IndInv, Wired, Asked3, NEW c \in Client, Fitting(c), Answered(c),
           NEW rsp \in RespondMsg, rsp = conn[cur[c]].rsp, c \in SureAfter(c, rsp)
    PROVE  /\ TableAfter(c, rsp)[1].seckey = ShmRead(shm, c).seckey
           /\ TableAfter(c, rsp)[1].status = 1 => ShmRead(shm, c).status = 1
<1> DEFINE slot == ShmRead(shm, c)
           node == TableAfter(c, rsp)[1]
<1>0. /\ ConnOK /\ AskedOK /\ OwnTable /\ NoConn \notin Conn
      /\ OwnKey(c) = cshm[c][1] /\ OwnKey(c) \in NodeSHMInfo
  BY OneSlotTable, Wires DEF Wired, Asked3
<1>1. /\ ~AtMenu(c) /\ cur[c] \in Conn /\ conn[cur[c]].st = "answered"
      /\ cur[c] # NoConn /\ work[cur[c]].pc = "idle" /\ Response(c) = rsp
      /\ rsp.rv \in {0, 1, 2}
  BY <1>0 DEF Answered, ConnOK, Response, RespondMsg
<1>2. \A cmd : Changed(c, cmd) <=> creq[c].cmdType = cmd /\ rsp.rv = 0
  BY <1>1 DEF Changed, Made, AgreePc
<1>3. ASSUME c \in sure, creq[c].cmdType # "NewOrUpdate" \/ rsp.rv # 0
      PROVE  /\ OwnKey(c).seckey = slot.seckey
             /\ creq[c].cmdType # "Revoke" \/ rsp.rv # 0 =>
                   (OwnKey(c).status = 1 => slot.status = 1)
  BY <1>2, <1>3 DEF Fitting, KeyIsSlot
<1> HIDE DEF slot
<1>4. CASE creq[c].cmdType = "Check"
  <2>1. TableAfter(c, rsp) = cshm[c] /\ c \in sure
    BY <1>0, <1>1, <1>4, Stored DEF SureAfter
  <2> QED
    BY <1>0, <1>3, <1>4, <2>1 DEF slot
<1>5. CASE creq[c].cmdType = "NewOrUpdate" /\ rsp.rv = 0
  <2>0. rsp.rv \notin {1, 2}
    BY <1>5
  <2>1. node = Agreed(c, rsp)
    BY <1>0, <1>1, <1>5, <2>0, Stored
  <2>2. c \in sure \cup alone /\ Changed(c, "NewOrUpdate")
    BY <1>2, <1>5 DEF SureAfter
  <2>3. slot.seckey = <<creq[c].r1, rsp.r2>> /\ slot.status = 1
    BY <1>1, <2>2 DEF Fitting, NewsIsSlot, slot
  <2> QED
    BY <2>1, <2>3 DEF Agreed, slot
<1>6. CASE creq[c].cmdType = "NewOrUpdate" /\ rsp.rv # 0
  <2>1. TableAfter(c, rsp) = cshm[c] /\ c \in sure
    BY <1>0, <1>1, <1>6, Stored DEF SureAfter
  <2> QED
    BY <1>0, <1>3, <1>6, <2>1 DEF slot
<1>7. CASE creq[c].cmdType = "Revoke"
  <2>1. c \in sure
    BY <1>7 DEF SureAfter
  <2>2. CASE rsp.rv = 1
    <3>1. TableAfter(c, rsp) = cshm[c]
      BY <1>0, <1>1, <1>7, <2>2, Stored
    <3> QED
      BY <1>0, <1>3, <2>1, <2>2, <3>1 DEF slot
  <2>3. CASE rsp.rv # 1
    <3>1. node = [OwnKey(c) EXCEPT !.status = 0]
      BY <1>0, <1>1, <1>7, <2>3, Stored
    <3>2. node.seckey = OwnKey(c).seckey /\ node.status = 0
      BY <1>0, <3>1 DEF NodeSHMInfo
    <3> QED
      BY <1>3, <1>7, <2>1, <3>2 DEF slot
  <2> QED
    BY <2>2, <2>3
<1> QED
  BY <1>0, <1>1, <1>4, <1>5, <1>6, <1>7, Stored

LEMMA ReceiveFitting ==
    ASSUME IndInv, Wired, Asked3, AllFit, NEW c \in Client, ClientReceive(c),
           IndInv', OwnTable'
    PROVE  AllFit'
<1>0. /\ CurOK /\ conn \in [Conn -> Connection] /\ AskedOK /\ OwnTable
      /\ cur \in [Client -> Conn \cup {NoConn}]
      /\ creq \in [Client -> RequestMsg \cup {NoReq}]
      /\ cshm \in [Client -> [1..1 -> NodeSHMInfo]]
      /\ cshm' \in [Client -> [1..1 -> NodeSHMInfo]]
      /\ Leaves(c)
  <2>1. /\ cshm \in [Client -> [1..1 -> NodeSHMInfo]]
        /\ cshm' \in [Client -> [1..1 -> NodeSHMInfo]]
    BY DEF IndInv, TypeOK, ClientTypeOK
  <2> QED
    BY <2>1, Wires, Ending DEF Wired, Asked3
<1>1. /\ UNCHANGED <<shm, work>> /\ creq' = [creq EXCEPT ![c] = NoReq] /\ AtMenu(c)'
      /\ cur' = [cur EXCEPT ![c] = NoConn] /\ alone' = alone \ {c}
      /\ \A j \in Conn : j # cur[c] => conn'[j] = conn[j]
      /\ ~AtMenu(c)
  BY <1>0, Gone DEF Leaves, serverVars
<1>2. PICK given \in RespondMsg :
        cshm' = cshm \/ cshm' = [cshm EXCEPT ![c] = TableAfter(c, given)]
  BY Ending
<1>3. ASSUME NEW d \in Client \ {c}
      PROVE  Fitting(d)'
  <2>1. /\ creq'[d] = creq[d] /\ cur'[d] = cur[d] /\ cshm'[d] = cshm[d]
        /\ d \in sure' <=> d \in sure
        /\ d \in alone' <=> d \in alone
    BY <1>0, <1>1, <1>2, Ending
  <2>2. cur[d] # NoConn => conn'[cur[d]] = conn[cur[d]]
    <3>1. cur[d] # NoConn => cur[d] # cur[c]
      BY <1>0 DEF CurOK
    <3> QED
      BY <1>0, <1>1, <3>1
  <2>3. OwnKey(d)' = OwnKey(d)
    BY <2>1 DEF OwnKey
  <2> QED
    BY <1>1, <2>1, <2>2, <2>3, FittingFrame DEF AllFit
<1>4. OwnKey(c)' = cshm'[c][1]
  <2>1. cshm'[c] \in [1..1 -> NodeSHMInfo] /\ (cshm'[c][1] = Zero \/ cshm'[c][1].clientID = c)
    BY <1>0 DEF OwnTable
  <2>2. ShmRead(cshm'[c], c) = cshm'[c][1]
    BY <2>1, ReadOneSlot
  <2> QED
    BY <2>2 DEF OwnKey
<1>5. ASSUME c \in sure'
      PROVE  /\ cshm'[c][1].seckey = ShmRead(shm, c).seckey
             /\ cshm'[c][1].status = 1 => ShmRead(shm, c).status = 1
  <2>1. CASE /\ Answered(c) /\ conn[cur[c]].rsp \in RespondMsg
             /\ cshm' = [cshm EXCEPT ![c] = TableAfter(c, conn[cur[c]].rsp)]
             /\ sure' = SureAfter(c, conn[cur[c]].rsp)
    <3>1. cshm'[c][1] = TableAfter(c, conn[cur[c]].rsp)[1]
      BY <1>0, <2>1
    <3> QED
      BY <1>5, <2>1, <3>1, AnswerFitting DEF AllFit
  <2>2. CASE sure' = SureWithout(c)
    <3>1. c \in sure /\ creq[c].cmdType = "Check"
      BY <1>5, <2>2 DEF SureWithout
    <3>2. cshm'[c] = cshm[c]
      <4>1. TableAfter(c, given) = cshm[c]
        BY <1>0, <1>1, <3>1, Stored
      <4> QED
        BY <1>0, <1>2, <4>1
    <3>3. ~Changed(c, "NewOrUpdate") /\ ~Changed(c, "Revoke")
      BY <3>1 DEF Changed
    <3>4. OwnKey(c) = cshm[c][1]
      BY <1>0, OneSlotTable
    <3> QED
      BY <3>1, <3>2, <3>3, <3>4 DEF AllFit, Fitting, KeyIsSlot
  <2> QED
    BY <2>1, <2>2, Ending
<1>6. Fitting(c)'
  <2>1. ~Changed(c, "NewOrUpdate")' /\ NodeFits(c)'
    BY <1>1 DEF Changed, NodeFits
  <2>2. KeyIsSlot(c)'
    BY <1>1, <1>4, <1>5 DEF KeyIsSlot
  <2> QED
    BY <2>1, <2>2 DEF Fitting, NewsIsSlot
<1> QED
  BY <1>3, <1>6 DEF AllFit

\* Neither the one start-up nor what happens to a request on its way is news.
LEMMA QuietFitting ==
    ASSUME IndInv, AllFit, Blank, (StartUp /\ UNCHANGED clientVars) \/ Alter \/ UNCHANGED vars
    PROVE  AllFit'
<1>0. conn \in [Conn -> Connection] /\ cur \in [Client -> Conn \cup {NoConn}]
  BY Wires
<1>1. /\ UNCHANGED clientVars /\ UNCHANGED <<shm, work>>
      /\ \A i \in Conn : conn'[i].st = conn[i].st /\ conn'[i].rsp = conn[i].rsp
  <2>1. CASE Alter
    <3>1. /\ UNCHANGED clientVars /\ UNCHANGED <<shm, work>>
      BY <2>1, Altered DEF serverVars
    <3>2. PICK i \in Conn, w \in AgreeRequest :
            conn' = [conn EXCEPT ![i] = [conn[i] EXCEPT !.req = w]]
      BY <2>1, Altered
    <3>3. \A j \in Conn : conn'[j].st = conn[j].st /\ conn'[j].rsp = conn[j].rsp
      BY <1>0, <3>2 DEF Connection
    <3> QED
      BY <3>1, <3>3
  <2>2. CASE StartUp /\ UNCHANGED clientVars
    <3>1. up # "up" /\ UNCHANGED <<conn, work>>
      BY <2>2 DEF StartUp, Boot, LoadRow, Listen
    <3>2. shm' = shm
      BY <2>2, <3>1 DEF StartUp, Boot, LoadRow, Listen, Blank
    <3> QED
      BY <2>2, <3>1, <3>2
  <2>3. CASE UNCHANGED vars
    <3>1. conn' = conn /\ UNCHANGED serverVars /\ UNCHANGED clientVars
      BY <2>3 DEF vars
    <3> QED
      BY <3>1 DEF serverVars
  <2> QED
    BY <2>1, <2>2, <2>3
<1>2. \A d \in Client : OwnKey(d)' = OwnKey(d)
  BY <1>1 DEF OwnKey, clientVars
<1>3. ASSUME NEW d \in Client
      PROVE  Fitting(d)'
  BY <1>0, <1>1, <1>2, FittingFrame DEF AllFit, clientVars
<1> QED
  BY <1>3 DEF AllFit

LEMMA BlankNext ==
    ASSUME "crash" \notin Faults, "noSend" \notin Faults, IndInv, Wired, OwnTable, Blank,
           [Next]_vars
    PROVE  Blank'
<1>1. CASE UNCHANGED serverVars
  BY <1>1 DEF serverVars, Blank
<1>2. CASE StartUp
  BY <1>2 DEF StartUp, Boot, LoadRow, Listen, Blank
<1>3. ASSUME NEW i \in Conn, WorkerStep(i)
      PROVE  up' = "up"
  BY <1>3, OneMoves
<1> QED
  BY <1>1, <1>2, <1>3, OutsideStep, NoCrash DEF Wired, Outside, Blank

LEMMA FittingNext ==
    ASSUME Roomy, "crash" \notin Faults, "noSend" \notin Faults, IndInv, WriteOK,
           OneSlotPerClient, ~met, Wired, Asked3, Fits, Tidy, Blank, AllFit,
           [Next]_vars, IndInv', OwnTable'
    PROVE  AllFit'
<1>1. ASSUME NEW c \in Client, ClientStep(c)
      PROVE  AllFit'
  BY <1>1, ClientKinds, RequestFitting, ReceiveFitting DEF Asked3
<1> QED
  BY <1>1, WorkerFitting, QuietFitting, NoCrash DEF Next, Server, Wired

\* Under the same conditions, and for any number of workers whose calls on the
\* table did not meet a shmWrite, a client that knows the outcome of all it has
\* asked holds the key of its slot, and takes none for usable that the server
\* does not. One that its lost answer or an old buffer left in doubt is certain
\* again after an agreement it made alone.
THEOREM OverlapKeys ==
    ASSUME IsFiniteSet(Client), Cardinality(Client) <= MaxNode,
           "crash" \notin Faults, "noSend" \notin Faults
    PROVE  Spec => []UsableKeyFits
<1> DEFINE Below == IndInv /\ WriteOK /\ OneSlotPerClient /\ Wired /\ Asked3 /\ Fits
                    /\ Slots
           Upper == Blank /\ (~met => AllFit)
<1>1. Roomy
  BY DEF Roomy
<1>2. Init => Upper
  <2>1. Init => Blank
    BY DEF Init, ServerInit, Blank
  <2>2. ASSUME Init, NEW c \in Client
        PROVE  Fitting(c)
    <3>1. AtMenu(c) /\ cshm[c] = ZeroTable(1) /\ shm = ZeroTable(MaxNode)
      BY <2>2 DEF Init, ServerInit, ClientInit, AtMenu
    <3>2. OwnKey(c) = Zero
      <4>1. cshm[c] \in [1..1 -> NodeSHMInfo] /\ cshm[c][1] = Zero
        BY <3>1 DEF ZeroTable, Zero, NodeSHMInfo
      <4> QED
        BY <4>1, ReadOneSlot DEF OwnKey
    <3>3. ShmRead(shm, c) = Zero
      BY <3>1, Constants DEF ShmRead, SlotsOf, ZeroTable, Zero
    <3> QED
      BY <3>1, <3>2, <3>3 DEF Fitting, NodeFits, KeyIsSlot, NewsIsSlot, Changed
  <2> QED
    BY <2>1, <2>2 DEF AllFit
<1>3. ASSUME Below, Below', Upper, [Next]_vars
      PROVE  Upper'
  <2>1. Blank'
    BY <1>3, BlankNext DEF Asked3
  <2>2. ~met' => ~met
    BY <1>3, WhoWrites DEF Boot, Blank
  <2> QED
    BY <1>1, <1>3, <2>1, <2>2, FittingNext DEF Asked3, Slots
<1>4. ASSUME Below, Upper, up = "up", ~met, NEW c \in sure, AtMenu(c)
      PROVE  /\ OwnKey(c).seckey = ShmRead(shm, c).seckey
             /\ OwnKey(c).status = 1 => ShmRead(shm, c).status = 1
  <2>1. c \in Client
    BY <1>4 DEF IndInv, TypeOK, ClientTypeOK
  <2>2. ~Changed(c, "NewOrUpdate") /\ ~Changed(c, "Revoke")
    BY <1>4 DEF Changed
  <2> QED
    BY <1>4, <2>1, <2>2 DEF AllFit, Fitting, KeyIsSlot
<1>5. Below /\ Upper => UsableKeyFits
  BY <1>4 DEF UsableKeyFits
<1>6. Below /\ Below' /\ Upper /\ [Next]_vars => Upper'
  BY <1>3
<1>7. Spec => []Below
  BY <1>1, AlwaysSlots
<1> HIDE DEF Below, Upper
<1> QED
  BY <1>2, <1>5, <1>6, <1>7, PTL DEF Spec
=============================================================================
