------------------------------ MODULE KeyServer ------------------------------
(***************************************************************************)
(* The key agreement server (class ServerOperation): its start-up, one     *)
(* worker thread for each connection, the shared-memory table, and the     *)
(* MySQL table seckeyinfo, which is what survives a restart.               *)
(*                                                                         *)
(* A worker yields between two calls on the shared objects m_shm and       *)
(* m_mysql, so every call is one action. Only shmWrite is three, the scan  *)
(* for the client's own slot, the scan for a free one and the copy: what   *)
(* is between them is where two workers take the same slot. (ShmCalls and  *)
(* DbCalls have the calls in smaller parts.)                               *)
(*                                                                         *)
(* All workers use one MySQL object, whose GetSqlRes frees the previous    *)
(* result and keeps the new one in a member. A worker that reads its       *)
(* result after another worker's query reads freed memory: the outcome is  *)
(* then any value (Read).                                                  *)
(***************************************************************************)
EXTENDS Wire, FiniteSets

CONSTANTS
    Registered,  \* ids of the clients that table secnode holds
    MaxNode,     \* slots of the shared-memory table
    MaxWorkers,  \* workers that may overlap (the code sets no limit)
    MaxKeyId,    \* the largest value the column keyid can hold
    Garbage,     \* what the uninitialised RespondMsg.seckeyid may hold
    Faults       \* the faults that may happen, a subset of FaultKind

FaultKind == {"crash",     \* the server process ends and is started again
              "dbError",   \* an update or insert fails and DoSql returns false
              "timeout",   \* a client's recvMsg fails, or its process dies
              "noSend",    \* a client dies between connect and send
              "stale",     \* an unset inData still points to an old buffer
              "alter"}     \* r1 of an agreement request changes in transit

ASSUME ServerAssumption ==
    /\ Registered \subseteq Client
    /\ MaxNode \in Nat \ {0}
    /\ MaxWorkers \in Nat \ {0}
    /\ MaxKeyId \in Nat
    /\ Garbage \subseteq Int /\ Garbage # {}
    /\ Faults \subseteq FaultKind

VARIABLES
    up,       \* "down", "loading" (the constructor runs) or "up" (startWork)
    shm,      \* the shared-memory table
    db,       \* the rows of seckeyinfo
    nextId,   \* its AUTO_INCREMENT counter
    todo,     \* rows the constructor still has to copy into shm
    res,      \* MySQL.result: who stored it, and what it says
    work,     \* the worker threads
    inbuf,    \* the buffer an unset inData of a worker would point to
    revoked,  \* history: clients whose last completed change is a revocation
    met       \* history: since the start, a call on m_shm ran during a shmWrite

serverVars == <<up, shm, db, nextId, todo, res, work, inbuf, revoked, met>>

Row == [clientid: Client, keyid: Nat \ {0}, state: {0, 1}, seckey: Key]

Pc == {"idle", "query", "checkId", "agree", "select", "decide", "max", "takeId",
       "update", "insert", "check", "revoke", "revokeDb", "send",
       "ownSlot", "freeSlot", "copy"}

Worker == [pc: Pc, req: RequestMsg \cup {NoReq}, rsp: RespondMsg \cup {NoRsp},
           node: NodeSHMInfo, slot: 0..MaxNode]

Idle == [pc |-> "idle", req |-> NoReq, rsp |-> NoRsp, node |-> Zero, slot |-> 0]

NoResult == [by |-> NoConn, val |-> 0]

ServerTypeOK ==
    /\ up \in {"down", "loading", "up"}
    /\ shm \in [1..MaxNode -> NodeSHMInfo]
    /\ db \subseteq Row
    /\ nextId \in Nat \ {0}
    /\ todo \subseteq Row
    /\ res \in [by: Conn \cup {NoConn}, val: Nat]
    /\ work \in [Conn -> Worker]
    /\ inbuf \in RequestMsg \cup {NoReq}
    /\ revoked \subseteq Client
    /\ met \in BOOLEAN

\* The server starts on an empty seckeyinfo, as KeyAgree_mysql.sql creates it.
ServerInit ==
    /\ up = "down"
    /\ shm = ZeroTable(MaxNode)
    /\ db = {}
    /\ nextId = 1
    /\ todo = {}
    /\ res = NoResult
    /\ work = [i \in Conn |-> Idle]
    /\ inbuf = NoReq
    /\ revoked = {}
    /\ met = FALSE

-----------------------------------------------------------------------------
(* Start-up: the constructor and startWork.                                *)

\* Mutant: the table that a previous process left behind is not zeroed.
BootKeepsTable ==
    /\ up = "down"
    /\ up' = "loading"
    /\ todo' = db
    /\ res' = NoResult
    /\ met' = FALSE
    /\ UNCHANGED <<conn, shm, db, nextId, work, inbuf, revoked>>

\* The table is zeroed and the select of all keys is stored.
Boot ==
    /\ up = "down"
    /\ up' = "loading"
    /\ shm' = ZeroTable(MaxNode)
    /\ todo' = db
    /\ res' = NoResult
    /\ met' = FALSE
    /\ UNCHANGED <<conn, db, nextId, work, inbuf, revoked>>

\* Mutant: every row becomes a usable slot, whatever its state.
LoadRowActive ==
    /\ up = "loading"
    /\ \E r \in todo :
          /\ \A q \in todo : r.keyid <= q.keyid
          /\ shm' = ShmWrite(shm, [status |-> 1, seckeyID |-> r.keyid,
                                   clientID |-> r.clientid, seckey |-> r.seckey])
          /\ todo' = todo \ {r}
    /\ UNCHANGED <<conn, up, db, nextId, res, work, inbuf, revoked, met>>

\* One turn of the fetch loop. The rows come in the order of the primary key.
LoadRow ==
    /\ up = "loading"
    /\ \E r \in todo :
          /\ \A q \in todo : r.keyid <= q.keyid
          /\ shm' = ShmWrite(shm, [status |-> r.state, seckeyID |-> r.keyid,
                                   clientID |-> r.clientid, seckey |-> r.seckey])
          /\ todo' = todo \ {r}
    /\ UNCHANGED <<conn, up, db, nextId, res, work, inbuf, revoked, met>>

\* Mutant: requests are served before all rows are in the table.
ListenEarly ==
    /\ up = "loading"
    /\ up' = "up"
    /\ UNCHANGED <<conn, shm, db, nextId, todo, res, work, inbuf, revoked, met>>

\* The loop is over; setListen makes the port reachable.
Listen ==
    /\ up = "loading"
    /\ todo = {}
    /\ up' = "up"
    /\ UNCHANGED <<conn, shm, db, nextId, todo, res, work, inbuf, revoked, met>>

-----------------------------------------------------------------------------
(* A worker thread (function working).                                     *)

Serving == {i \in Conn : work[i].pc # "idle"}

\* The next call of worker i is pc.
At(i, pc) == up = "up" /\ work[i].pc = pc

Goto(i, pc) == work' = [work EXCEPT ![i].pc = pc]

Answer(i, rv) == work' = [work EXCEPT ![i].pc = "send", ![i].rsp.rv = rv]

\* What the result says, if the last query was this worker's; else freed
\* memory. Nobody looks at a result twice, so it is dropped once it is read.
Read(i) == IF res.by = i THEN {res.val} ELSE 0..MaxKeyId

DropResult(i) == res' = IF res.by = i THEN NoResult ELSE res

\* accept, thread start, recvMsg and msgDecode. When the peer sent nothing,
\* recvMsg leaves inData unset: either it still points to the request that
\* the previous thread left on the reused stack, or the process dies (Crash).
\* rspMsg is not initialised: seckeyid and r2 are whatever the stack holds.
Receive(i) ==
    /\ up = "up"
    /\ conn[i].st = "sent"
    /\ Cardinality(Serving) < MaxWorkers
    /\ \E g \in Garbage,
          req \in (IF conn[i].req # NoReq THEN {conn[i].req} ELSE {inbuf}) \ {NoReq} :
          /\ work' = [work EXCEPT ![i] =
                        [pc |-> "query", req |-> req, node |-> Zero, slot |-> 0,
                         rsp |-> [rv |-> 0, r2 |-> Junk, seckeyid |-> g]]]
          /\ inbuf' = IF "stale" \in Faults THEN req ELSE NoReq
    /\ conn' = [conn EXCEPT ![i].st = "served", ![i].req = NoReq]
    /\ UNCHANGED <<up, shm, db, nextId, todo, res, revoked, met>>

\* GetSqlRes("select name from secnode where id=<clientId>").
QueryNode(i) ==
    /\ At(i, "query")
    /\ res' = [by |-> i,
               val |-> IF work[i].req.clientId \in Registered THEN 1 ELSE 0]
    /\ Goto(i, "checkId")
    /\ UNCHANGED <<conn, up, shm, db, nextId, todo, inbuf, revoked, met>>

\* Mutant: the client's row in secnode is not asked for.
CheckIdUnguarded(i) ==
    /\ At(i, "checkId")
    /\ \/ work[i].req.cmdType = "NewOrUpdate" /\ Goto(i, "agree")
       \/ work[i].req.cmdType = "Check" /\ Goto(i, "check")
       \/ work[i].req.cmdType = "Revoke" /\ Goto(i, "revoke")
    /\ UNCHANGED <<conn, up, shm, db, nextId, todo, res, inbuf, revoked, met>>

\* row_count <= 0 refuses the client; else the switch over cmdType. (The
\* serverId is "1" on both sides, and no client ever sends View.)
CheckId(i) ==
    /\ At(i, "checkId")
    /\ \E rows \in Read(i) :
          \/ rows <= 0 /\ Answer(i, 2)
          \/ rows > 0 /\ work[i].req.cmdType = "NewOrUpdate" /\ Goto(i, "agree")
          \/ rows > 0 /\ work[i].req.cmdType = "Check" /\ Goto(i, "check")
          \/ rows > 0 /\ work[i].req.cmdType = "Revoke" /\ Goto(i, "revoke")
    /\ DropResult(i)
    /\ UNCHANGED <<conn, up, shm, db, nextId, todo, inbuf, revoked, met>>

\* sendMsg and disConnect. Nobody hears an answer to an abandoned request.
Send(i) ==
    /\ At(i, "send")
    /\ conn' = [conn EXCEPT ![i] =
                  IF conn[i].open
                  THEN [conn[i] EXCEPT !.st = "answered", !.rsp = work[i].rsp]
                  ELSE FreeConn]
    /\ work' = [work EXCEPT ![i] = Idle]
    /\ UNCHANGED <<up, shm, db, nextId, todo, res, inbuf, revoked, met>>

-----------------------------------------------------------------------------
(* shmWrite of a worker (SecKeyShm::shmWrite), no lock held.               *)

\* Workers between the beginning and the end of shmWrite.
Writing == {i \in Conn : work[i].pc \in {"freeSlot", "copy"}}

\* A call on m_shm begins. (It is a step, or begins with one, so of two calls
\* at the same time the later one finds the other in Writing.)
Enters == met' = (met \/ Writing # {})

\* The request under way changes a key by agreement (else by revocation).
Agrees(i) == work[i].req.cmdType = "NewOrUpdate"

\* Mutant: the client's own slot is not looked for.
OwnSlotSkipped(i) ==
    /\ At(i, "ownSlot")
    /\ Goto(i, "freeSlot")
    /\ Enters
    /\ UNCHANGED <<conn, up, shm, db, nextId, todo, res, inbuf, revoked>>

\* The scan for the client's own slot ...
OwnSlot(i) ==
    LET own == SlotsOf(shm, work[i].node.clientID)
    IN  /\ At(i, "ownSlot")
        /\ work' = [work EXCEPT ![i].pc = IF own = {} THEN "freeSlot" ELSE "copy",
                                ![i].slot = IF own = {} THEN 0 ELSE First(own)]
        /\ Enters
        /\ UNCHANGED <<conn, up, shm, db, nextId, todo, res, inbuf, revoked>>

\* Mutant: the first slot is taken, free or not.
FreeSlotAny(i) ==
    /\ At(i, "freeSlot")
    /\ work' = [work EXCEPT ![i].pc = "copy", ![i].slot = 1]
    /\ UNCHANGED <<conn, up, shm, db, nextId, todo, res, inbuf, revoked, met>>

\* ... the scan for a free one; 0 when there is "no space to left" ...
FreeSlot(i) ==
    LET free == FreeSlots(shm)
    IN  /\ At(i, "freeSlot")
        /\ work' = [work EXCEPT ![i].pc = "copy",
                                ![i].slot = IF free = {} THEN 0 ELSE First(free)]
        /\ UNCHANGED <<conn, up, shm, db, nextId, todo, res, inbuf, revoked, met>>

\* ... and the copy to the slot that was found, whatever is in it by now. Its
\* result is not looked at: the worker goes on to the database.
Copy(i) ==
    /\ At(i, "copy")
    /\ shm' = [k \in 1..MaxNode |-> IF k = work[i].slot THEN work[i].node ELSE shm[k]]
    /\ work' = [work EXCEPT ![i].pc = IF Agrees(i) THEN "select" ELSE "revokeDb",
                            ![i].slot = 0]
    /\ revoked' = IF Agrees(i) THEN revoked \ {work[i].req.clientId} ELSE revoked
    /\ UNCHANGED <<conn, up, db, nextId, todo, res, inbuf, met>>

-----------------------------------------------------------------------------
(* secKeyAgree.                                                            *)

\* Mutant: the authentication code of r1 is not compared.
AgreeAcceptUnverified(i) ==
    LET req == work[i].req
        rsp == work[i].rsp
    IN  /\ At(i, "agree")
        /\ \E r2 \in Nonce2 :
             work' = [work EXCEPT
                ![i] = [@ EXCEPT !.pc = "ownSlot", !.rsp.r2 = r2, !.node =
                    [status |-> 1, seckeyID |-> rsp.seckeyid,
                     clientID |-> req.clientId, seckey |-> <<req.r1, r2>>]]]
        /\ UNCHANGED <<conn, up, shm, db, nextId, todo, res, inbuf, revoked, met>>

\* Mutant: the key is derived before r2 is drawn.
AgreeAcceptEarly(i) ==
    LET req == work[i].req
        rsp == work[i].rsp
    IN  /\ At(i, "agree")
        /\ req.authCode = Mac(req.clientId, req.r1)
        /\ \E r2 \in Nonce2 :
             work' = [work EXCEPT
                ![i] = [@ EXCEPT !.pc = "ownSlot", !.rsp.r2 = r2, !.node =
                    [status |-> 1, seckeyID |-> rsp.seckeyid,
                     clientID |-> req.clientId, seckey |-> <<req.r1, rsp.r2>>]]]
        /\ UNCHANGED <<conn, up, shm, db, nextId, todo, res, inbuf, revoked, met>>

\* The code matches r1: the key is derived and goes to shmWrite, with the
\* seckeyid that the response does not hold yet.
AgreeAccept(i) ==
    LET req == work[i].req
        rsp == work[i].rsp
    IN  /\ At(i, "agree")
        /\ req.authCode = Mac(req.clientId, req.r1)
        /\ \E r2 \in Nonce2 :
             work' = [work EXCEPT
                ![i] = [@ EXCEPT !.pc = "ownSlot", !.rsp.r2 = r2, !.node =
                    [status |-> 1, seckeyID |-> rsp.seckeyid,
                     clientID |-> req.clientId, seckey |-> <<req.r1, r2>>]]]
        /\ UNCHANGED <<conn, up, shm, db, nextId, todo, res, inbuf, revoked, met>>

AgreeReject(i) ==
    /\ At(i, "agree")
    /\ work[i].req.authCode # Mac(work[i].req.clientId, work[i].req.r1)
    /\ Answer(i, 1)
    /\ UNCHANGED <<conn, up, shm, db, nextId, todo, res, inbuf, revoked, met>>

KeyIdsOf(c) == {r.keyid : r \in {q \in db : q.clientid = c}}

\* Mutant: IFNULL is dropped from the statement, and no row gives no number.
MaxIdOrNull == IF db = {} THEN -1
               ELSE CHOOSE m \in {r.keyid : r \in db} : \A r \in db : r.keyid <= m

MaxId == IF db = {} THEN 0
         ELSE CHOOSE m \in {r.keyid : r \in db} : \A r \in db : r.keyid <= m

\* GetSqlRes("select * from seckeyinfo where clientid = ..."): the keyid of
\* the first row, or 0 rows.
SelectKey(i) ==
    LET ids == KeyIdsOf(work[i].req.clientId)
    IN  /\ At(i, "select")
        /\ res' = [by |-> i, val |-> IF ids = {} THEN 0 ELSE First(ids)]
        /\ Goto(i, "decide")
        /\ UNCHANGED <<conn, up, shm, db, nextId, todo, inbuf, revoked, met>>

\* Mutant: the id in the response is advanced although the row stays.
DecideUpdateNext(i) ==
    /\ At(i, "decide")
    /\ \E id \in Read(i) \ {0} :
          work' = [work EXCEPT ![i].pc = "update", ![i].rsp.seckeyid = id + 1]
    /\ DropResult(i)
    /\ UNCHANGED <<conn, up, shm, db, nextId, todo, inbuf, revoked, met>>

\* row_count > 0: the old id goes into the response and an update is prepared.
DecideUpdate(i) ==
    /\ At(i, "decide")
    /\ \E id \in Read(i) \ {0} :
          work' = [work EXCEPT ![i].pc = "update", ![i].rsp.seckeyid = id]
    /\ DropResult(i)
    /\ UNCHANGED <<conn, up, shm, db, nextId, todo, inbuf, revoked, met>>

DecideInsert(i) ==
    /\ At(i, "decide")
    /\ 0 \in Read(i)
    /\ Goto(i, "max")
    /\ DropResult(i)
    /\ UNCHANGED <<conn, up, shm, db, nextId, todo, inbuf, revoked, met>>

\* GetSqlRes("SELECT IFNULL((SELECT MAX(keyid) FROM seckeyinfo), 0)").
SelectMax(i) ==
    /\ At(i, "max")
    /\ res' = [by |-> i, val |-> MaxId]
    /\ Goto(i, "takeId")
    /\ UNCHANGED <<conn, up, shm, db, nextId, todo, inbuf, revoked, met>>

\* Mutant: MAX(keyid) itself goes into the response.
TakeIdOfAnother(i) ==
    /\ At(i, "takeId")
    /\ \E m \in Read(i) :
          work' = [work EXCEPT ![i].pc = "insert", ![i].rsp.seckeyid = m]
    /\ DropResult(i)
    /\ UNCHANGED <<conn, up, shm, db, nextId, todo, inbuf, revoked, met>>

TakeId(i) ==
    /\ At(i, "takeId")
    /\ \E m \in Read(i) :
          work' = [work EXCEPT ![i].pc = "insert", ![i].rsp.seckeyid = m + 1]
    /\ DropResult(i)
    /\ UNCHANGED <<conn, up, shm, db, nextId, todo, inbuf, revoked, met>>

\* DoSql of a prepared statement: the worker goes on whether it worked or not.
DbFails == "dbError" \in Faults

\* Mutant: the statement sets the key and forgets the state.
UpdateRowsKeyOnly(i) ==
    LET c == work[i].req.clientId
        key == work[i].node.seckey
    IN  /\ At(i, "update")
        /\ db' = {IF r.clientid = c THEN [r EXCEPT !.seckey = key] ELSE r : r \in db}
        /\ Answer(i, 0)
        /\ UNCHANGED <<conn, up, shm, nextId, todo, res, inbuf, revoked, met>>

\* Mutant: the statement has lost its where clause.
UpdateAllRows(i) ==
    /\ At(i, "update")
    /\ db' = {[r EXCEPT !.state = 1, !.seckey = work[i].node.seckey] : r \in db}
    /\ Answer(i, 0)
    /\ UNCHANGED <<conn, up, shm, nextId, todo, res, inbuf, revoked, met>>

UpdateRows(i) ==
    LET c == work[i].req.clientId
        key == work[i].node.seckey
    IN  /\ At(i, "update")
        /\ \/ db' = {IF r.clientid = c THEN [r EXCEPT !.state = 1, !.seckey = key]
                     ELSE r : r \in db}
           \/ DbFails /\ UNCHANGED db
        /\ Answer(i, 0)
        /\ UNCHANGED <<conn, up, shm, nextId, todo, res, inbuf, revoked, met>>

\* The statement names no keyid: AUTO_INCREMENT chooses it. It fails when the
\* client is not in secnode (the foreign key), which may use up an id all the
\* same, and when the ids have run out.
InsertRow(i) ==
    LET c == work[i].req.clientId
    IN  /\ At(i, "insert")
        /\ \/ /\ c \in Registered /\ nextId <= MaxKeyId
              /\ nextId' = nextId + 1
              /\ db' = db \cup {[clientid |-> c, keyid |-> nextId, state |-> 1,
                                 seckey |-> work[i].node.seckey]}
           \/ /\ nextId <= MaxKeyId /\ (c \notin Registered \/ DbFails)
              /\ nextId' \in {nextId, nextId + 1}
              /\ UNCHANGED db
           \/ nextId > MaxKeyId /\ UNCHANGED <<nextId, db>>
        /\ Answer(i, 0)
        /\ UNCHANGED <<conn, up, shm, todo, res, inbuf, revoked, met>>

-----------------------------------------------------------------------------
(* secKeyCheck and secKeyRevoke.                                           *)

\* The code of the request is compared with one of the key in shared memory.
KeyMatches(i) ==
    LET req == work[i].req
    IN  req.authCode = Mac(req.clientId, ShmRead(shm, req.clientId).seckey)

Check(i) ==
    /\ At(i, "check")
    /\ Answer(i, IF KeyMatches(i) THEN 0 ELSE 1)
    /\ Enters
    /\ UNCHANGED <<conn, up, shm, db, nextId, todo, res, inbuf, revoked>>

\* node is the worker's copy of the slot, status already set to 0; it goes back
\* by shmWrite.
RevokeAccept(i) ==
    /\ At(i, "revoke")
    /\ KeyMatches(i)
    /\ work' = [work EXCEPT ![i].pc = "ownSlot",
                  ![i].node = [ShmRead(shm, work[i].req.clientId)
                                 EXCEPT !.status = 0]]
    /\ Enters
    /\ UNCHANGED <<conn, up, shm, db, nextId, todo, res, inbuf, revoked>>

RevokeReject(i) ==
    /\ At(i, "revoke")
    /\ ~KeyMatches(i)
    /\ Answer(i, 1)
    /\ Enters
    /\ UNCHANGED <<conn, up, shm, db, nextId, todo, res, inbuf, revoked>>

\* Mutant: the revocation is answered without the update of the rows.
RevokeDbForgotten(i) ==
    /\ At(i, "revokeDb")
    /\ revoked' = revoked \cup {work[i].req.clientId}
    /\ Answer(i, 0)
    /\ UNCHANGED <<conn, up, shm, db, nextId, todo, res, inbuf, met>>

RevokeDb(i) ==
    LET c == work[i].req.clientId
    IN  /\ At(i, "revokeDb")
        /\ \/ db' = {IF r.clientid = c THEN [r EXCEPT !.state = 0] ELSE r : r \in db}
           \/ DbFails /\ UNCHANGED db
        /\ revoked' = revoked \cup {c}
        /\ Answer(i, 0)
        /\ UNCHANGED <<conn, up, shm, nextId, todo, res, inbuf, met>>

-----------------------------------------------------------------------------
(* The end of the process.                                                 *)

\* Mutant: the peers of a dead server never learn of it.
CrashUnnoticed ==
    /\ up # "down"
    /\ "crash" \in Faults
    /\ up' = "down"
    /\ todo' = {}
    /\ res' = NoResult
    /\ work' = [i \in Conn |-> Idle]
    /\ inbuf' = NoReq
    /\ UNCHANGED <<conn, shm, db, nextId, revoked, met>>

\* The process ends: a fault, SIGUSR1, a select that fails (GetSqlRes returns
\* null and nobody looks), a freed result that is followed; or, under no fault
\* of that name, the dereference of an unset inData. The kernel keeps the shared
\* memory and MySQL its rows; every open connection is reset.
Crash ==
    /\ up # "down"
    /\ \/ "crash" \in Faults
       \/ \E i \in Conn : conn[i].st = "sent" /\ conn[i].req = NoReq
    /\ up' = "down"
    /\ todo' = {}
    /\ res' = NoResult
    /\ work' = [i \in Conn |-> Idle]
    /\ inbuf' = NoReq
    /\ conn' = [i \in Conn |->
                  IF conn[i].st \in {"sent", "served"}
                  THEN IF conn[i].open
                       THEN [conn[i] EXCEPT !.st = "lost", !.req = NoReq]
                       ELSE FreeConn
                  ELSE conn[i]]
    /\ UNCHANGED <<shm, db, nextId, revoked, met>>

StartUp == Boot \/ LoadRow \/ Listen

AgreeStep(i) ==
    \/ AgreeAccept(i) \/ AgreeReject(i) \/ SelectKey(i) \/ DecideUpdate(i)
    \/ DecideInsert(i) \/ SelectMax(i) \/ TakeId(i) \/ UpdateRows(i)
    \/ InsertRow(i)

RevokeStep(i) ==
    \/ RevokeAccept(i) \/ RevokeReject(i) \/ RevokeDb(i)

ShmWriteStep(i) == OwnSlot(i) \/ FreeSlot(i) \/ Copy(i)

WorkerStep(i) ==
    \/ Receive(i) \/ QueryNode(i) \/ CheckId(i) \/ AgreeStep(i) \/ Check(i)
    \/ RevokeStep(i) \/ ShmWriteStep(i) \/ Send(i)
============================================================================
