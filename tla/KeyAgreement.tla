---------------------------- MODULE KeyAgreement ----------------------------
(***************************************************************************)
(* The whole system: the clients, the server with its workers, the         *)
(* connections between them, and what both sides promise together.         *)
(***************************************************************************)
EXTENDS KeyClient

vars == <<conn, serverVars, clientVars>>

TypeOK ==
    /\ conn \in [Conn -> Connection]
    /\ ServerTypeOK
    /\ ClientTypeOK

Init == WireInit /\ ServerInit /\ ClientInit

Server ==
    /\ StartUp \/ Crash \/ \E i \in Conn : WorkerStep(i)
    /\ UNCHANGED clientVars

\* Something between the two programs changes r1 of an agreement request; the
\* code computed from the original r1 travels with it.
Alter ==
    /\ "alter" \in Faults
    /\ \E i \in Conn, r1 \in Nonce1 :
          /\ conn[i].st = "sent"
          /\ conn[i].req \in AgreeRequest
          /\ conn' = [conn EXCEPT ![i].req.r1 = r1]
    /\ UNCHANGED <<serverVars, clientVars>>

Next == Server \/ Alter \/ \E c \in Client : ClientStep(c)

Spec == Init /\ [][Next]_vars

\* recvMsg of c's operation has something to return: an answer, the end of the
\* connection, or the failure to connect.
Woken(c) ==
    ~AtMenu(c) /\ (cur[c] = NoConn \/ conn[cur[c]].st \in {"answered", "lost"})

\* A thread that can take a step is scheduled, and a process blocked in recvMsg
\* goes on once there is something to return. Nothing is assumed of a user at
\* the menu, of any fault (so of no timeout), or of whoever starts the server again.
Fairness ==
    /\ \A i \in Conn : WF_vars(WorkerStep(i) /\ UNCHANGED clientVars)
    /\ \A c \in Client : WF_vars(Woken(c) /\ ClientReceive(c))

FairSpec == Spec /\ Fairness

-----------------------------------------------------------------------------
(* What makes TypeOK inductive.                                            *)

AgreePc == {"agree", "select", "decide", "max", "takeId", "update", "insert"}

WritePc == {"ownSlot", "freeSlot", "copy"}

\* A busy worker has a request and a response; the nonce of an agreement and
\* the derived key are there when they are used; the node a revocation writes
\* back is the client's or empty.
WorkOK ==
    \A i \in Conn : work[i].pc # "idle" =>
        /\ work[i].req \in RequestMsg
        /\ work[i].rsp \in RespondMsg
        /\ work[i].pc \in AgreePc => work[i].req \in AgreeRequest
        /\ work[i].pc \in AgreePc \ {"agree"} =>
              work[i].node.seckey \in Key
        /\ work[i].pc \in {"revoke", "revokeDb"} => ~Agrees(i)
        /\ work[i].pc \in WritePc =>
              IF Agrees(i)
              THEN work[i].node.seckey \in Key /\ work[i].node.clientID = work[i].req.clientId
              ELSE work[i].node.clientID \in {work[i].req.clientId, NoClient}

AnswerOK == \A i \in Conn : conn[i].st = "answered" => conn[i].rsp \in RespondMsg

\* A key a client may use is a key.
UsableOK == \A c \in Client : cshm[c][1].status = 1 => cshm[c][1].seckey \in Key

\* AUTO_INCREMENT is ahead of every row, so MAX(keyid) exists.
IdsBelow == \A r \in db : r.keyid < nextId

\* All of it together: no operation of the server or of a client, in whatever
\* order and under whatever fault, leaves a slot, a row, a message or a worker
\* that the operations after it could not handle.
IndInv == TypeOK /\ WorkOK /\ AnswerOK /\ UsableOK /\ IdsBelow

\* The slot that shmWrite of a node of c chooses in the table t, 0 for none.
Target(t, c) == IF WriteSlots(t, c) = {} THEN 0 ELSE First(WriteSlots(t, c))

\* Nobody serves before the server listens. As long as no call on the table ran
\* during a shmWrite, one worker at a time is in one, and what it has found out
\* about the table is still so.
WriteOK ==
    /\ up # "up" => Serving = {}
    /\ ~met =>
          /\ \A i, j \in Writing : i = j
          /\ \A i \in Writing :
                IF work[i].pc = "freeSlot" THEN SlotsOf(shm, work[i].node.clientID) = {}
                ELSE work[i].slot = Target(shm, work[i].node.clientID)

-----------------------------------------------------------------------------
(* Safety.                                                                 *)

\* The server's table holds no two slots of one client: shmWrite looks for the
\* client's own slot before it takes a free one, also during start-up, and
\* workers may interleave between their calls. (~met: not inside them. There a
\* client's second worker may have missed the slot that its first one takes.)
OneSlotPerClient == ~met => OneSlotEach(shm)

\* A worker is inside an operation that changes the key of c.
Changing(c) ==
    \E i \in Serving : work[i].req.clientId = c /\ work[i].pc \in
        {"select", "decide", "max", "takeId", "update", "insert", "revokeDb"}

RowsOf(c) == {r \in db : r.clientid = c}

\* When no worker stands between its shmWrite and its DoSql, the running
\* server's two stores tell the same about every client: exactly one row with
\* the key and the state of the slot, or neither. Start-up rebuilds this
\* after a crash at any point of the two writes.
StoresAgree ==
    up = "up" =>
        \A c \in Client : ~Changing(c) =>
            LET slot == ShmRead(shm, c)
            IN  IF slot = Zero THEN RowsOf(c) = {}
                ELSE \E r \in RowsOf(c) :
                        /\ RowsOf(c) = {r}
                        /\ r.seckey = slot.seckey
                        /\ r.state = slot.status

\* The point of the protocol: when a client knows the outcome of all it has
\* asked and nothing of it is on its way, it and the server hold the same key
\* and agree on whether it may be used.
EndsAgree ==
    up = "up" =>
        \A c \in sure : AtMenu(c) /\ ConnsOf(c) = {} =>
            /\ OwnKey(c).seckey = ShmRead(shm, c).seckey
            /\ OwnKey(c).status = ShmRead(shm, c).status

\* The same when workers overlap, as far as it then goes: a client that knows
\* the outcome of all it has asked holds the key of its slot, and takes no key
\* for usable that the server does not. (It may give up a key that the server
\* still takes: a result freed by another worker is answered with rv 2. And when
\* calls on the table met, its slot may be another client's: NewSlotIsFree.)
UsableKeyFits ==
    up = "up" /\ ~met =>
        \A c \in sure : AtMenu(c) =>
            LET slot == ShmRead(shm, c)
            IN  /\ OwnKey(c).seckey = slot.seckey
                /\ OwnKey(c).status = 1 => slot.status = 1

\* The slot of a client whose agreement was answered holds the key that the
\* client is about to compute from its own r1 and the r2 of the response, even
\* when r1 changed on its way and when other workers ran in between. (alone:
\* no earlier request of the client was still on its way. ~met: the workers ran
\* between the calls of each other's, not inside.)
AnswerFits ==
    up = "up" /\ ~met =>
        \A c \in Client :
            /\ Answered(c) /\ c \in alone
            /\ creq[c].cmdType = "NewOrUpdate"
            /\ conn[cur[c]].rsp.rv = 0
            => ShmRead(shm, c).seckey = <<creq[c].r1, conn[cur[c]].rsp.r2>>

\* A revocation that was carried out stays carried out, in shared memory and
\* in the database, until a new agreement of that client: no crash, restart
\* or late request brings the old key back.
RevokedStaysRevoked ==
    \A c \in revoked :
        /\ ShmRead(shm, c).status = 0
        /\ \A r \in RowsOf(c) : r.state = 0

\* A client that is not in table secnode gets nothing into either store.
UnregisteredRefused ==
    \A c \in Client \ Registered : SlotsOf(shm, c) = {} /\ RowsOf(c) = {}

\* The seckeyid a client keeps is the id of its row. The server computes a
\* new id as MAX(keyid) + 1 while the row gets its id from AUTO_INCREMENT.
ClientIdIsRowId ==
    \A c \in sure : AtMenu(c) /\ ConnsOf(c) = {} /\ OwnKey(c) # Zero =>
        \A r \in RowsOf(c) : r.keyid = OwnKey(c).seckeyID

\* While the server runs, the slot of a client that no worker is serving does
\* not change: a step on behalf of one client leaves all others alone, unless
\* two calls on the table met.
OtherSlotsUntouched ==
    [][up = "up" /\ ~met =>
         \A c \in Client :
            (\A i \in Serving : work[i].req.clientId # c)
                => ShmRead(shm', c) = ShmRead(shm, c)]_vars

-----------------------------------------------------------------------------
(* What the system promises a client (KeyPair), and where its parts are.   *)

\* The server's side is the row: it is what a restart builds on.
ServerSide ==
    [c \in Client |->
        IF RowsOf(c) = {} THEN [seckey |-> NoKey, status |-> 0]
        ELSE LET r == CHOOSE r \in RowsOf(c) : TRUE
             IN  [seckey |-> r.seckey, status |-> r.state]]

ClientSide ==
    [c \in Client |-> [seckey |-> OwnKey(c).seckey, status |-> OwnKey(c).status]]

\* The response to c's present request, once the server's stores are written.
ResponseTo(c) ==
    IF AtMenu(c) \/ cur[c] = NoConn THEN NoRsp
    ELSE IF conn[cur[c]].st = "answered" THEN conn[cur[c]].rsp
    ELSE IF work[cur[c]].pc = "send" THEN work[cur[c]].rsp ELSE NoRsp

\* An answer to a check, and a refusal, is no news.
OnItsWay ==
    [c \in Client |->
        LET rsp == ResponseTo(c)
        IN  IF rsp = NoRsp \/ rsp.rv # 0 \/ creq[c].cmdType = "Check"
            THEN [seckey |-> NoKey, status |-> 0]
            ELSE IF creq[c].cmdType = "NewOrUpdate"
            THEN [seckey |-> <<creq[c].r1, rsp.r2>>, status |-> 1]
            ELSE [seckey |-> OwnKey(c).seckey, status |-> 0]]

Pair == INSTANCE KeyPair WITH
            server <- ServerSide, client <- ClientSide, news <- OnItsWay

\* The server, the clients and everything between them implement the pair of
\* keys: a crash at any point of an operation changes neither side, a client
\* takes no key and gives up no key but on the server's word, and a lost
\* answer leaves no more behind than a client that does not know.
PairSpec == Pair!Spec

-----------------------------------------------------------------------------
(* What a comment or the README says, and the code does not do.            *)

\* A client without a slot gets a free one ("find a free place and write to it").
\* Between the scan for it and the copy another worker takes the same slot, and
\* the later copy throws the other client's key away.
NewSlotIsFree ==
    \A i \in Conn : work[i].pc = "copy" /\ work[i].slot # 0 =>
        shm[work[i].slot].clientID \in {NoClient, work[i].node.clientID}

\* A key whose status in shared memory was set to unusable does not pass a
\* check. secKeyCheck compares the codes and never looks at the status. (With
\* one worker nobody changes the slot between the check and its answer.)
RevokedKeyRefused ==
    \A i \in Serving :
        /\ work[i].pc = "send"
        /\ work[i].req.cmdType = "Check"
        /\ work[i].rsp.rv = 0
        => ShmRead(shm, work[i].req.clientId).status = 1

-----------------------------------------------------------------------------
(* Liveness.                                                               *)

\* Every operation ends: no user waits forever, whatever the server and the
\* other clients do.
OperationsEnd == \A c \in Client : ~AtMenu(c) ~> AtMenu(c)
============================================================================
