------------------------- MODULE KeyAgreementProofs -------------------------
(***************************************************************************)
(* What the server promises, for every set of clients, connections, nonces *)
(* and faults and every size of the table. First, for any number of        *)
(* workers: type correctness and, as long as no call on the table ran      *)
(* during a shmWrite (met), what the table promises its clients.           *)
(* Then for requests that do not overlap (MaxWorkers = 1), under crashes,  *)
(* restarts, lost answers and requests that come late: an unregistered     *)
(* client stays out of both stores, a revocation stays carried out, and    *)
(* the two stores tell the same. With two workers the first two fail on    *)
(* the shared query result (the run Overlap shows the first).              *)
(***************************************************************************)
EXTENDS KeyAgreement, SecKeyShmProofs

\* What the proofs use of the assumptions on the constants.
LEMMA Constants ==
    /\ Registered \subseteq Client
    /\ MaxNode \in Nat
    /\ MaxKeyId \in Nat
    /\ Garbage \subseteq Int
    /\ NoConn \notin Conn
    /\ NoClient \notin Client
BY ServerAssumption, WireAssumption, NoClientAssumption

\* A function stays in its type when one of its values is replaced.
LEMMA ExceptType ==
    ASSUME NEW A, NEW B, NEW f \in [A -> B], NEW a \in A, NEW b \in B
    PROVE  [f EXCEPT ![a] = b] \in [A -> B]
OBVIOUS

-----------------------------------------------------------------------------
(* The largest keyid exists, although nothing says that db is finite: ids  *)
(* lie below the AUTO_INCREMENT counter.                                   *)

\* SELECT MAX(keyid) yields a number, 0 on an empty table.
LEMMA MaxIdType ==
    ASSUME db \subseteq Row, nextId \in Nat, IdsBelow
    PROVE  MaxId \in Nat
<1> DEFINE Ids == {r.keyid : r \in db}
           Bounds == {n \in Nat : \A r \in db : r.keyid <= n}
<1>1. Ids \subseteq Nat
  BY DEF Row
<1>2. CASE db = {}
  BY <1>2 DEF MaxId
<1>3. CASE db # {}
  <2>1. nextId \in Bounds
    BY <1>1 DEF IdsBelow
  <2>2. PICK m \in Bounds : \A n \in Bounds : m <= n
    <3>1. Bounds \subseteq Nat /\ Bounds # {}
      BY <2>1
    <3> QED
      BY <3>1, FirstInSet
  <2>3. m \in Ids
    <3>1. SUFFICES ASSUME m \notin Ids PROVE FALSE
      OBVIOUS
    <3>2. \A r \in db : r.keyid <= m /\ r.keyid # m /\ r.keyid \in Nat
      BY <1>1, <3>1
    <3>3. m > 0
      BY <1>3, <3>2
    <3>4. m - 1 \in Bounds
      BY <3>2, <3>3
    <3> QED
      BY <2>2, <3>4
  <2>4. \E k \in Ids : \A r \in db : r.keyid <= k
    BY <2>3
  <2> QED
    BY <1>1, <1>3, <2>4 DEF MaxId
<1> QED
  BY <1>2, <1>3

\* The first row of a client has an id.
LEMMA KeyIdType ==
    ASSUME db \subseteq Row, NEW c, KeyIdsOf(c) # {}
    PROVE  First(KeyIdsOf(c)) \in Nat
<1>1. KeyIdsOf(c) \subseteq Nat
  BY DEF KeyIdsOf, Row
<1> QED
  BY <1>1, FirstInSet

-----------------------------------------------------------------------------
(* How the parts of a worker's state change.                               *)

WorkType == work \in [Conn -> Worker]

\* A worker that only moves on keeps its type, and no other worker moves.
LEMMA GotoType ==
    ASSUME WorkType, NEW i \in Conn, NEW pc \in Pc, Goto(i, pc)
    PROVE  /\ WorkType'
           /\ work'[i] = [work[i] EXCEPT !.pc = pc]
           /\ \A j \in Conn \ {i} : work'[j] = work[j]
BY DEF WorkType, Goto, Worker

\* A worker that answers keeps its type, and no other worker moves.
LEMMA AnswerType ==
    ASSUME WorkType, NEW i \in Conn, NEW rv \in {0, 1, 2}, Answer(i, rv),
           work[i].rsp \in RespondMsg
    PROVE  /\ WorkType'
           /\ work'[i].pc = "send"
           /\ work'[i].req = work[i].req
           /\ work'[i].rsp \in RespondMsg
           /\ \A j \in Conn \ {i} : work'[j] = work[j]
<1> DEFINE rsp == [work[i].rsp EXCEPT !.rv = rv]
           w == [work[i] EXCEPT !.pc = "send", !.rsp = rsp]
<1>1. rsp \in RespondMsg
  BY DEF RespondMsg
<1>2. w \in Worker
  BY <1>1 DEF WorkType, Worker, Pc
<1>3. work' = [work EXCEPT ![i] = w]
  BY DEF Answer, WorkType, Worker
<1> QED
  BY <1>1, <1>2, <1>3 DEF WorkType, Worker

\* A worker that did not move keeps its part of WorkOK.
WorkerOK(w) ==
    w.pc # "idle" =>
        /\ w.req \in RequestMsg
        /\ w.rsp \in RespondMsg
        /\ w.pc \in AgreePc => w.req \in AgreeRequest
        /\ w.pc \in AgreePc \ {"agree"} => w.node.seckey \in Key
        /\ w.pc \in {"revoke", "revokeDb"} => w.req.cmdType # "NewOrUpdate"
        /\ w.pc \in WritePc =>
              IF w.req.cmdType = "NewOrUpdate"
              THEN w.node.seckey \in Key /\ w.node.clientID = w.req.clientId
              ELSE w.node.clientID \in {w.req.clientId, NoClient}

\* WorkOK holds if it holds for the one worker that moved.
LEMMA WorkStep ==
    ASSUME WorkOK, NEW i \in Conn, WorkerOK(work'[i]),
           \A j \in Conn \ {i} : work'[j] = work[j]
    PROVE  WorkOK'
BY DEF WorkOK, WorkerOK, Agrees

\* A result, also a freed one, reads as a number.
LEMMA ReadType ==
    ASSUME res \in [by: Conn \cup {NoConn}, val: Nat], NEW i \in Conn
    PROVE  /\ Read(i) \subseteq Nat
           /\ DropResult(i) => res' \in [by: Conn \cup {NoConn}, val: Nat]
BY Constants DEF Read, DropResult, NoResult

-----------------------------------------------------------------------------
(* The steps of a worker that touch nothing but its own state and the      *)
(* stored result.                                                          *)

\* A step that touches only workers, the stored result and the history.
LEMMA OwnStep ==
    ASSUME IndInv, UNCHANGED clientVars,
           UNCHANGED <<conn, up, shm, db, nextId, todo, inbuf>>,
           revoked' \subseteq Client, met' \in BOOLEAN,
           res' \in [by: Conn \cup {NoConn}, val: Nat], WorkType', WorkOK'
    PROVE  IndInv'
<1>1. ServerTypeOK'
  BY DEF IndInv, TypeOK, ServerTypeOK, WorkType
<1>2. ClientTypeOK' /\ UsableOK'
  BY DEF IndInv, TypeOK, ClientTypeOK, clientVars, UsableOK
<1>3. TypeOK' /\ AnswerOK' /\ IdsBelow'
  BY <1>1, <1>2 DEF IndInv, TypeOK, AnswerOK, IdsBelow
<1> QED
  BY <1>2, <1>3 DEF IndInv

\* What IndInv says of a worker that is busy.
LEMMA Busy ==
    ASSUME IndInv, NEW i \in Conn
    PROVE  /\ WorkType
           /\ WorkOK
           /\ res \in [by: Conn \cup {NoConn}, val: Nat]
           /\ work[i] \in Worker
           /\ work[i].node \in NodeSHMInfo
           /\ work[i].pc # "idle" => /\ work[i].req \in RequestMsg
                                     /\ work[i].rsp \in RespondMsg
                                     /\ work[i].req.clientId \in Client
           /\ work[i].pc \in AgreePc => /\ work[i].req \in AgreeRequest
                                        /\ work[i].req.r1 \in Nonce1
           /\ work[i].pc \in AgreePc \ {"agree"} => work[i].node.seckey \in Key
           /\ work[i].pc # "idle" => WorkerOK(work[i])
           /\ shm \in [1..MaxNode -> NodeSHMInfo]
           /\ IsTable(shm, MaxNode)
           /\ db \subseteq Row
<1>1. /\ WorkType /\ WorkOK
      /\ res \in [by: Conn \cup {NoConn}, val: Nat]
      /\ shm \in [1..MaxNode -> NodeSHMInfo]
      /\ db \subseteq Row
  BY DEF IndInv, TypeOK, ServerTypeOK, WorkType
<1>2. work[i] \in Worker /\ work[i].node \in NodeSHMInfo
  BY <1>1 DEF WorkType, Worker
<1>3. ASSUME work[i].pc # "idle"
      PROVE  /\ work[i].req \in RequestMsg
             /\ work[i].rsp \in RespondMsg
             /\ work[i].req.clientId \in Client
             /\ work[i].pc \in AgreePc => work[i].req \in AgreeRequest
             /\ work[i].pc \in AgreePc \ {"agree"} => work[i].node.seckey \in Key
  BY <1>1, <1>3 DEF WorkOK, RequestMsg, AgreeRequest, KeyRequest
<1>4. work[i].pc \in AgreePc => work[i].pc # "idle"
  BY DEF AgreePc
<1>5. work[i].req \in AgreeRequest => work[i].req.r1 \in Nonce1
  BY DEF AgreeRequest
<1>6. work[i].pc # "idle" => WorkerOK(work[i])
  BY <1>1 DEF WorkOK, WorkerOK, Agrees
<1> QED
  BY <1>1, <1>2, <1>3, <1>4, <1>5, <1>6 DEF IsTable

\* A worker that becomes another good one.
LEMMA PutStep ==
    ASSUME IndInv, NEW i \in Conn, NEW w \in Worker, WorkerOK(w),
           work' = [work EXCEPT ![i] = w]
    PROVE  WorkType' /\ WorkOK'
BY WorkStep, Busy DEF WorkType

\* The worker moves on, or answers, and nothing else of it changes.
LEMMA MoveStep ==
    ASSUME IndInv, NEW i \in Conn, work[i].pc # "idle",
           \/ \E pc \in Pc :
                /\ Goto(i, pc)
                /\ pc = "agree" => work[i].req \in AgreeRequest
                /\ pc \in AgreePc \ {"agree"} => work[i].pc \in AgreePc \ {"agree"}
                /\ pc \in {"revoke", "revokeDb"} => ~Agrees(i)
                /\ pc \notin WritePc
           \/ \E rv \in {0, 1, 2} : Answer(i, rv)
    PROVE  WorkType' /\ WorkOK'
<1>1. ASSUME NEW pc \in Pc, Goto(i, pc),
             pc = "agree" => work[i].req \in AgreeRequest,
             pc \in AgreePc \ {"agree"} => work[i].pc \in AgreePc \ {"agree"},
             pc \in {"revoke", "revokeDb"} => ~Agrees(i),
             pc \notin WritePc
      PROVE  WorkType' /\ WorkOK'
  <2>1. /\ WorkType'
        /\ work'[i] = [work[i] EXCEPT !.pc = pc]
        /\ \A j \in Conn \ {i} : work'[j] = work[j]
    BY <1>1, GotoType, Busy
  <2>2. /\ work'[i].pc = pc /\ work'[i].req = work[i].req
        /\ work'[i].rsp = work[i].rsp /\ work'[i].node = work[i].node
    BY <2>1, Busy DEF Worker
  <2>3. WorkerOK(work'[i])
    BY <1>1, <2>2, Busy DEF WorkerOK, AgreePc, WritePc, Agrees
  <2> QED
    BY <2>1, <2>3, WorkStep, Busy
<1>2. ASSUME NEW rv \in {0, 1, 2}, Answer(i, rv)
      PROVE  WorkType' /\ WorkOK'
  <2>1. /\ WorkType'
        /\ work'[i].pc = "send"
        /\ work'[i].req = work[i].req
        /\ work'[i].rsp \in RespondMsg
        /\ \A j \in Conn \ {i} : work'[j] = work[j]
    BY <1>2, AnswerType, Busy
  <2>2. WorkerOK(work'[i])
    BY <2>1, Busy DEF WorkerOK, AgreePc, WritePc
  <2> QED
    BY <2>1, <2>2, WorkStep, Busy
<1> QED
  BY <1>1, <1>2

\* The query for the client's row in secnode.
LEMMA QueryNodeInv ==
    ASSUME IndInv, UNCHANGED clientVars, NEW i \in Conn, QueryNode(i)
    PROVE  IndInv'
<1>1. WorkType' /\ WorkOK'
  BY MoveStep DEF QueryNode, At, Pc, AgreePc, WritePc
<1>2. res' \in [by: Conn \cup {NoConn}, val: Nat]
  BY DEF QueryNode
<1> QED
  BY <1>1, <1>2, OwnStep DEF QueryNode, IndInv, TypeOK, ServerTypeOK

\* The dispatch over cmdType hands only an agreement to secKeyAgree.
LEMMA CheckIdInv ==
    ASSUME IndInv, UNCHANGED clientVars, NEW i \in Conn, CheckId(i)
    PROVE  IndInv'
<1>1. work[i].req \in RequestMsg /\ work[i].pc # "idle"
  BY Busy DEF CheckId, At
<1>2. work[i].req.cmdType = "NewOrUpdate" => work[i].req \in AgreeRequest
  BY <1>1 DEF RequestMsg, AgreeRequest, KeyRequest
<1>3. WorkType' /\ WorkOK'
  <2>1. CASE Answer(i, 2)
    BY <1>1, <2>1, MoveStep
  <2>2. CASE Goto(i, "agree") /\ work[i].req.cmdType = "NewOrUpdate"
    BY <1>1, <1>2, <2>2, MoveStep DEF Pc, AgreePc, WritePc
  <2>3. CASE Goto(i, "check")
    BY <1>1, <2>3, MoveStep DEF Pc, AgreePc, WritePc
  <2>4. CASE Goto(i, "revoke") /\ work[i].req.cmdType = "Revoke"
    BY <1>1, <2>4, MoveStep DEF Pc, AgreePc, WritePc, Agrees
  <2> QED
    BY <2>1, <2>2, <2>3, <2>4 DEF CheckId
<1>4. res' \in [by: Conn \cup {NoConn}, val: Nat]
  BY ReadType, Busy DEF CheckId
<1> QED
  BY <1>3, <1>4, OwnStep DEF CheckId, IndInv, TypeOK, ServerTypeOK

\* The query for the client's rows in seckeyinfo.
LEMMA SelectKeyInv ==
    ASSUME IndInv, UNCHANGED clientVars, NEW i \in Conn, SelectKey(i)
    PROVE  IndInv'
<1>1. WorkType' /\ WorkOK'
  BY MoveStep DEF SelectKey, At, Pc, AgreePc, WritePc
<1>2. res' \in [by: Conn \cup {NoConn}, val: Nat]
  BY KeyIdType, Busy DEF SelectKey
<1> QED
  BY <1>1, <1>2, OwnStep DEF SelectKey, IndInv, TypeOK, ServerTypeOK

\* The query for the largest id.
LEMMA SelectMaxInv ==
    ASSUME IndInv, UNCHANGED clientVars, NEW i \in Conn, SelectMax(i)
    PROVE  IndInv'
<1>1. WorkType' /\ WorkOK'
  BY MoveStep DEF SelectMax, At, Pc, AgreePc, WritePc
<1>2. MaxId \in Nat
  BY MaxIdType, Busy DEF IndInv, TypeOK, ServerTypeOK
<1>3. res' \in [by: Conn \cup {NoConn}, val: Nat]
  BY <1>2 DEF SelectMax
<1> QED
  BY <1>1, <1>3, OwnStep DEF SelectMax, IndInv, TypeOK, ServerTypeOK

\* A client without a row is on its way to an insert.
LEMMA DecideInsertInv ==
    ASSUME IndInv, UNCHANGED clientVars, NEW i \in Conn, DecideInsert(i)
    PROVE  IndInv'
<1>1. WorkType' /\ WorkOK'
  BY MoveStep DEF DecideInsert, At, Pc, AgreePc, WritePc
<1>2. res' \in [by: Conn \cup {NoConn}, val: Nat]
  BY ReadType, Busy DEF DecideInsert
<1> QED
  BY <1>1, <1>2, OwnStep DEF DecideInsert, IndInv, TypeOK, ServerTypeOK

\* A worker that puts an id into its response and goes on to a statement.
LEMMA IdStep ==
    ASSUME IndInv, NEW i \in Conn, work[i].pc \in AgreePc \ {"agree"},
           NEW pc \in {"update", "insert"}, NEW id \in Int,
           work' = [work EXCEPT ![i].pc = pc, ![i].rsp.seckeyid = id]
    PROVE  WorkType' /\ WorkOK'
<1> DEFINE rsp == [work[i].rsp EXCEPT !.seckeyid = id]
           w == [work[i] EXCEPT !.pc = pc, !.rsp = rsp]
<1>1. work[i].pc # "idle" /\ work[i].rsp \in RespondMsg
  BY Busy DEF AgreePc
<1>2. rsp \in RespondMsg
  BY <1>1 DEF RespondMsg
<1>3. w \in Worker /\ WorkerOK(w)
  BY <1>1, <1>2, Busy DEF Worker, WorkerOK, Pc, AgreePc, WritePc
<1>4. work' = [work EXCEPT ![i] = w]
  BY Busy DEF WorkType, Worker
<1> QED
  BY <1>3, <1>4, PutStep

\* A client with a row gets the row's id.
LEMMA DecideUpdateInv ==
    ASSUME IndInv, UNCHANGED clientVars, NEW i \in Conn, DecideUpdate(i)
    PROVE  IndInv'
<1>1. WorkType' /\ WorkOK'
  <2>1. PICK id \in Read(i) :
          work' = [work EXCEPT ![i].pc = "update", ![i].rsp.seckeyid = id]
    BY DEF DecideUpdate
  <2>2. id \in Int
    BY ReadType, Busy
  <2> QED
    BY <2>1, <2>2, IdStep DEF DecideUpdate, At, AgreePc
<1>2. res' \in [by: Conn \cup {NoConn}, val: Nat]
  BY ReadType, Busy DEF DecideUpdate
<1> QED
  BY <1>1, <1>2, OwnStep DEF DecideUpdate, IndInv, TypeOK, ServerTypeOK

\* A client without a row gets the largest id plus one.
LEMMA TakeIdInv ==
    ASSUME IndInv, UNCHANGED clientVars, NEW i \in Conn, TakeId(i)
    PROVE  IndInv'
<1>1. WorkType' /\ WorkOK'
  <2>1. PICK m \in Read(i) :
          work' = [work EXCEPT ![i].pc = "insert", ![i].rsp.seckeyid = m + 1]
    BY DEF TakeId
  <2>2. m + 1 \in Int
    BY ReadType, Busy
  <2> QED
    BY <2>1, <2>2, IdStep DEF TakeId, At, AgreePc
<1>2. res' \in [by: Conn \cup {NoConn}, val: Nat]
  BY ReadType, Busy DEF TakeId
<1> QED
  BY <1>1, <1>2, OwnStep DEF TakeId, IndInv, TypeOK, ServerTypeOK

\* The outcomes that only answer.
LEMMA AnswerOnlyInv ==
    ASSUME IndInv, UNCHANGED clientVars, NEW i \in Conn,
           AgreeReject(i) \/ Check(i) \/ RevokeReject(i)
    PROVE  IndInv'
<1>1. \E rv \in {0, 1, 2} : Answer(i, rv)
  BY DEF AgreeReject, Check, RevokeReject
<1>2. WorkType' /\ WorkOK'
  BY <1>1, MoveStep DEF AgreeReject, Check, RevokeReject, At
<1> QED
  BY <1>2, OwnStep DEF AgreeReject, Check, RevokeReject, IndInv, TypeOK, ServerTypeOK,
     Enters

\* The node that a revocation takes out of the table is the client's or empty.
LEMMA RevokeAcceptInv ==
    ASSUME IndInv, UNCHANGED clientVars, NEW i \in Conn, RevokeAccept(i)
    PROVE  IndInv'
<1> DEFINE read == ShmRead(shm, work[i].req.clientId)
           node == [read EXCEPT !.status = 0]
           w == [work[i] EXCEPT !.pc = "ownSlot", !.node = node]
<1>1. work[i].pc # "idle" /\ work[i].req.cmdType # "NewOrUpdate"
  BY Busy DEF RevokeAccept, At, WorkerOK
<1>2. read \in NodeSHMInfo
  BY ShmReadType, Busy, Constants
<1>3. node \in NodeSHMInfo /\ node.clientID = read.clientID
  BY <1>2 DEF NodeSHMInfo
<1>4. read.clientID \in {work[i].req.clientId, NoClient}
  BY ShmReadOwner, Busy, Constants
<1>5. w \in Worker /\ WorkerOK(w)
  BY <1>1, <1>3, <1>4, Busy DEF Worker, WorkerOK, Pc, AgreePc, WritePc
<1>6. work' = [work EXCEPT ![i] = w]
  BY Busy DEF WorkType, Worker, RevokeAccept
<1>7. WorkType' /\ WorkOK'
  BY <1>5, <1>6, PutStep
<1> QED
  BY <1>7, OwnStep DEF RevokeAccept, IndInv, TypeOK, ServerTypeOK, Enters

\* The derived key is a key, and its node the client's.
LEMMA AgreeAcceptInv ==
    ASSUME IndInv, UNCHANGED clientVars, NEW i \in Conn, AgreeAccept(i)
    PROVE  IndInv'
<1> DEFINE Node(r2) == [status |-> 1, seckeyID |-> work[i].rsp.seckeyid,
                        clientID |-> work[i].req.clientId,
                        seckey |-> <<work[i].req.r1, r2>>]
<1>1. PICK r2 \in Nonce2 :
        work' = [work EXCEPT ![i] = [@ EXCEPT !.pc = "ownSlot", !.rsp.r2 = r2,
                                              !.node = Node(r2)]]
  BY DEF AgreeAccept
<1> DEFINE rsp == [work[i].rsp EXCEPT !.r2 = r2]
           w == [work[i] EXCEPT !.pc = "ownSlot", !.rsp = rsp, !.node = Node(r2)]
<1>2. work[i].pc = "agree"
  BY DEF AgreeAccept, At
<1>3. /\ work[i].rsp \in RespondMsg
      /\ work[i].req \in AgreeRequest
      /\ work[i].req.clientId \in Client
      /\ work[i].req.r1 \in Nonce1
  BY <1>2, Busy DEF AgreePc
<1>4. rsp \in RespondMsg
  BY <1>3 DEF RespondMsg, R2
<1>5. Node(r2) \in NodeSHMInfo /\ Node(r2).seckey \in Key
  BY <1>3 DEF NodeSHMInfo, RespondMsg, Key, R2
<1>6. w \in Worker /\ WorkerOK(w)
  BY <1>2, <1>3, <1>4, <1>5, Busy DEF Worker, WorkerOK, Pc, AgreePc, WritePc
<1>7. work' = [work EXCEPT ![i] = w]
  BY <1>1, Busy DEF WorkType, Worker
<1>8. WorkType' /\ WorkOK'
  BY <1>6, <1>7, PutStep
<1> QED
  BY <1>8, OwnStep DEF AgreeAccept, IndInv, TypeOK, ServerTypeOK

\* The two scans of shmWrite end on a slot of the table, or on none.
LEMMA ScanInv ==
    ASSUME IndInv, UNCHANGED clientVars, NEW i \in Conn, OwnSlot(i) \/ FreeSlot(i)
    PROVE  IndInv'
<1> DEFINE c == work[i].node.clientID
<1>1. work[i].pc \in {"ownSlot", "freeSlot"}
  BY DEF OwnSlot, FreeSlot, At
<1>2. PICK pc \in {"freeSlot", "copy"}, slot \in 0..MaxNode :
        work' = [work EXCEPT ![i].pc = pc, ![i].slot = slot]
  <2>1. /\ SlotsOf(shm, c) \subseteq 1..MaxNode
        /\ FreeSlots(shm) \subseteq 1..MaxNode
        /\ SlotsOf(shm, c) # {} => First(SlotsOf(shm, c)) \in 1..MaxNode
        /\ FreeSlots(shm) # {} => First(FreeSlots(shm)) \in 1..MaxNode
    BY WriteSlotsInTable, FirstInSet, Busy, Constants
  <2> DEFINE pc1 == IF SlotsOf(shm, c) = {} THEN "freeSlot" ELSE "copy"
             slot1 == IF SlotsOf(shm, c) = {} THEN 0 ELSE First(SlotsOf(shm, c))
             slot2 == IF FreeSlots(shm) = {} THEN 0 ELSE First(FreeSlots(shm))
  <2>2. CASE OwnSlot(i)
    <3>1. pc1 \in {"freeSlot", "copy"} /\ slot1 \in 0..MaxNode
      BY <2>1, Constants
    <3>2. work' = [work EXCEPT ![i].pc = pc1, ![i].slot = slot1]
      BY <2>2 DEF OwnSlot
    <3> HIDE DEF pc1, slot1
    <3> QED
      BY <3>1, <3>2
  <2>3. CASE FreeSlot(i)
    <3>1. slot2 \in 0..MaxNode
      BY <2>1, Constants
    <3>2. work' = [work EXCEPT ![i].pc = "copy", ![i].slot = slot2]
      BY <2>3 DEF FreeSlot
    <3> HIDE DEF slot2
    <3> QED
      BY <3>1, <3>2
  <2> QED
    BY <2>2, <2>3
<1> DEFINE w == [work[i] EXCEPT !.pc = pc, !.slot = slot]
<1>3. w \in Worker /\ WorkerOK(w)
  BY <1>1, Busy DEF Worker, WorkerOK, Pc, AgreePc, WritePc
<1>4. work' = [work EXCEPT ![i] = w]
  BY <1>2, Busy DEF WorkType, Worker
<1>5. WorkType' /\ WorkOK'
  BY <1>3, <1>4, PutStep
<1> QED
  BY <1>5, OwnStep DEF OwnSlot, FreeSlot, IndInv, TypeOK, ServerTypeOK, Enters

-----------------------------------------------------------------------------
(* The steps of a worker that change what others see.                      *)

\* A worker that writes one of the two stores, the connections and the
\* start-up's rows left alone.
LEMMA StoreStep ==
    ASSUME IndInv, UNCHANGED clientVars, UNCHANGED <<conn, up, todo, res, inbuf>>,
           shm' \in [1..MaxNode -> NodeSHMInfo], db' \subseteq Row,
           nextId' \in Nat \ {0}, IdsBelow', revoked' \subseteq Client, UNCHANGED met,
           WorkType', WorkOK'
    PROVE  IndInv'
<1>1. ServerTypeOK'
  BY DEF IndInv, TypeOK, ServerTypeOK, WorkType
<1>2. ClientTypeOK' /\ UsableOK'
  BY DEF IndInv, TypeOK, ClientTypeOK, clientVars, UsableOK
<1>3. TypeOK' /\ AnswerOK'
  BY <1>1, <1>2 DEF IndInv, TypeOK, AnswerOK
<1> QED
  BY <1>2, <1>3 DEF IndInv

\* The copy leaves a table of nodes, and the worker goes on to its statement.
LEMMA CopyInv ==
    ASSUME IndInv, UNCHANGED clientVars, NEW i \in Conn, Copy(i)
    PROVE  IndInv'
<1> DEFINE w == [work[i] EXCEPT !.pc = IF Agrees(i) THEN "select" ELSE "revokeDb",
                                !.slot = 0]
<1>1. /\ work[i].pc = "copy" /\ WorkerOK(work[i])
      /\ work[i].req \in RequestMsg
  BY Busy DEF Copy, At
<1>2. Agrees(i) => work[i].req \in AgreeRequest
  BY <1>1 DEF Agrees, RequestMsg, AgreeRequest, KeyRequest
<1>3. /\ w \in Worker
      /\ w.pc = IF Agrees(i) THEN "select" ELSE "revokeDb"
      /\ w.req = work[i].req /\ w.rsp = work[i].rsp /\ w.node = work[i].node
  <2> DEFINE to == IF Agrees(i) THEN "select" ELSE "revokeDb"
  <2>1. 0 \in 0..MaxNode /\ to \in Pc /\ work[i] \in Worker
    BY Busy, Constants DEF Pc
  <2> HIDE DEF to
  <2>2. LET u == [work[i] EXCEPT !.pc = to, !.slot = 0]
        IN  /\ u \in Worker /\ u.pc = to
            /\ u.req = work[i].req /\ u.rsp = work[i].rsp /\ u.node = work[i].node
    BY <2>1 DEF Worker
  <2> QED
    BY <2>2 DEF to
<1>8. WorkerOK(w)
  <2> HIDE DEF w
  <2>1. CASE Agrees(i)
    BY <1>1, <1>2, <1>3, <2>1 DEF WorkerOK, AgreePc, WritePc, Agrees
  <2>2. CASE ~Agrees(i)
    BY <1>1, <1>3, <2>2 DEF WorkerOK, AgreePc, WritePc, Agrees
  <2> QED
    BY <2>1, <2>2
<1>4. work' = [work EXCEPT ![i] = w]
  BY Busy DEF Copy, WorkType, Worker
<1>5. WorkType' /\ WorkOK'
  BY <1>3, <1>4, <1>8, PutStep
<1>6. shm' \in [1..MaxNode -> NodeSHMInfo]
  BY Busy DEF Copy
<1>7. /\ UNCHANGED <<conn, up, todo, res, inbuf, db, nextId, met>>
      /\ revoked' \subseteq Client
  BY DEF Copy, IndInv, TypeOK, ServerTypeOK
<1> QED
  BY <1>5, <1>6, <1>7, StoreStep DEF IndInv, TypeOK, ServerTypeOK, IdsBelow

\* The update of a key keeps rows rows and leaves their ids alone.
LEMMA UpdateRowsInv ==
    ASSUME IndInv, UNCHANGED clientVars, NEW i \in Conn, UpdateRows(i)
    PROVE  IndInv'
<1>1. work[i].pc = "update" /\ Answer(i, 0)
  BY DEF UpdateRows, At
<1>2. WorkType' /\ WorkOK'
  BY <1>1, MoveStep
<1>3. work[i].node.seckey \in Key
  BY <1>1, Busy DEF AgreePc
<1>4. db' \subseteq Row /\ IdsBelow'
  <2>1. CASE db' = db
    BY <2>1 DEF UpdateRows, IndInv, TypeOK, ServerTypeOK, IdsBelow
  <2>2. CASE db' = {IF r.clientid = work[i].req.clientId
                    THEN [r EXCEPT !.state = 1, !.seckey = work[i].node.seckey]
                    ELSE r : r \in db}
    <3>1. \A r \in db : [r EXCEPT !.state = 1, !.seckey = work[i].node.seckey] \in Row
      BY <1>3, Busy DEF Row
    <3>2. \A r \in db : [r EXCEPT !.state = 1, !.seckey = work[i].node.seckey].keyid
                          = r.keyid
      BY Busy DEF Row
    <3> QED
      BY <2>2, <3>1, <3>2, Busy DEF UpdateRows, IndInv, IdsBelow
  <2> QED
    BY <2>1, <2>2 DEF UpdateRows
<1>5. UNCHANGED <<conn, up, shm, nextId, todo, res, inbuf, revoked, met>>
  BY DEF UpdateRows
<1> QED
  BY <1>2, <1>4, <1>5, StoreStep DEF IndInv, TypeOK, ServerTypeOK

\* The insert puts its row below the AUTO_INCREMENT counter.
LEMMA InsertRowInv ==
    ASSUME IndInv, UNCHANGED clientVars, NEW i \in Conn, InsertRow(i)
    PROVE  IndInv'
<1> DEFINE row == [clientid |-> work[i].req.clientId, keyid |-> nextId, state |-> 1,
                   seckey |-> work[i].node.seckey]
<1>1. work[i].pc = "insert" /\ Answer(i, 0)
  BY DEF InsertRow, At
<1>2. WorkType' /\ WorkOK'
  BY <1>1, MoveStep
<1>3. nextId \in Nat \ {0} /\ IdsBelow
  BY DEF IndInv, TypeOK, ServerTypeOK
<1>4. nextId' \in Nat \ {0} /\ nextId <= nextId'
  BY <1>3 DEF InsertRow
<1>5. row \in Row
  BY <1>1, <1>3, Busy DEF Row, AgreePc
<1>6. db' \subseteq Row /\ IdsBelow'
  <2>1. CASE db' = db
    BY <1>3, <1>4, <2>1, Busy DEF IdsBelow, Row
  <2>2. CASE db' # db
    <3>1. db' = db \cup {row} /\ nextId' = nextId + 1
      BY <2>2 DEF InsertRow
    <3> QED
      BY <1>3, <1>5, <3>1, Busy DEF IdsBelow, Row
  <2> QED
    BY <2>1, <2>2
<1>7. UNCHANGED <<conn, up, shm, todo, res, inbuf, revoked, met>>
  BY DEF InsertRow
<1> QED
  BY <1>2, <1>4, <1>6, <1>7, StoreStep DEF IndInv, TypeOK, ServerTypeOK

\* The update of a state keeps rows rows and leaves their ids alone.
LEMMA RevokeDbInv ==
    ASSUME IndInv, UNCHANGED clientVars, NEW i \in Conn, RevokeDb(i)
    PROVE  IndInv'
<1>1. work[i].pc = "revokeDb" /\ Answer(i, 0)
  BY DEF RevokeDb, At
<1>2. WorkType' /\ WorkOK'
  BY <1>1, MoveStep
<1>3. db' \subseteq Row /\ IdsBelow'
  <2>1. CASE db' = db
    BY <2>1 DEF RevokeDb, IndInv, TypeOK, ServerTypeOK, IdsBelow
  <2>2. CASE db' = {IF r.clientid = work[i].req.clientId THEN [r EXCEPT !.state = 0]
                    ELSE r : r \in db}
    <3>1. \A r \in db : /\ [r EXCEPT !.state = 0] \in Row
                        /\ [r EXCEPT !.state = 0].keyid = r.keyid
      BY Busy DEF Row
    <3> QED
      BY <2>2, <3>1, Busy DEF RevokeDb, IndInv, IdsBelow
  <2> QED
    BY <2>1, <2>2 DEF RevokeDb
<1>4. /\ UNCHANGED <<conn, up, shm, nextId, todo, res, inbuf, met>>
      /\ revoked' \subseteq Client
  BY <1>1, Busy DEF RevokeDb, IndInv, TypeOK, ServerTypeOK
<1> QED
  BY <1>2, <1>3, <1>4, StoreStep DEF IndInv, TypeOK, ServerTypeOK

-----------------------------------------------------------------------------
(* The steps of a worker that change its connection.                       *)

\* The connections and the buffer of an unset inData are well typed.
LEMMA ConnType ==
    ASSUME IndInv
    PROVE  /\ conn \in [Conn -> Connection]
           /\ FreeConn \in Connection
           /\ inbuf \in RequestMsg \cup {NoReq}
BY DEF IndInv, TypeOK, ServerTypeOK, FreeConn, Connection

\* A worker that writes nothing but its connection, its own state and inbuf.
LEMMA ConnStep ==
    ASSUME IndInv, UNCHANGED clientVars,
           UNCHANGED <<up, shm, db, nextId, todo, res, revoked, met>>,
           inbuf' \in RequestMsg \cup {NoReq},
           NEW i \in Conn, NEW k \in Connection, conn' = [conn EXCEPT ![i] = k],
           k.st = "answered" => k.rsp \in RespondMsg,
           WorkType', WorkOK'
    PROVE  IndInv'
<1>1. ServerTypeOK'
  BY DEF IndInv, TypeOK, ServerTypeOK, WorkType
<1>2. ClientTypeOK' /\ UsableOK'
  BY DEF IndInv, TypeOK, ClientTypeOK, clientVars, UsableOK
<1>3. conn' \in [Conn -> Connection] /\ AnswerOK'
  BY ConnType DEF IndInv, AnswerOK
<1>4. TypeOK' /\ IdsBelow'
  BY <1>1, <1>2, <1>3 DEF IndInv, TypeOK, IdsBelow
<1> QED
  BY <1>2, <1>3, <1>4 DEF IndInv

\* A worker starts with a request, its own or the one of a stale buffer.
LEMMA ReceiveInv ==
    ASSUME IndInv, UNCHANGED clientVars, NEW i \in Conn, Receive(i)
    PROVE  IndInv'
<1> DEFINE W(g, req) == [pc |-> "query", req |-> req, node |-> Zero, slot |-> 0,
                         rsp |-> [rv |-> 0, r2 |-> Junk, seckeyid |-> g]]
           k == [conn[i] EXCEPT !.st = "served", !.req = NoReq]
<1>1. PICK g \in Garbage, req \in (IF conn[i].req # NoReq THEN {conn[i].req}
                                    ELSE {inbuf}) \ {NoReq} :
        /\ work' = [work EXCEPT ![i] = W(g, req)]
        /\ inbuf' = IF "stale" \in Faults THEN req ELSE NoReq
  BY DEF Receive
<1>2. req \in RequestMsg
  BY ConnType DEF Connection
<1>3. [rv |-> 0, r2 |-> Junk, seckeyid |-> g] \in RespondMsg
  BY Constants DEF RespondMsg, R2
<1>4. W(g, req) \in Worker /\ WorkerOK(W(g, req))
  BY <1>2, <1>3, ZeroType, Constants DEF Worker, WorkerOK, Pc, AgreePc, WritePc
<1>5. WorkType' /\ WorkOK'
  <2>1. WorkType'
    BY <1>1, <1>4, ExceptType, Busy DEF WorkType
  <2>2. work'[i] = W(g, req) /\ \A j \in Conn \ {i} : work'[j] = work[j]
    BY <1>1, Busy DEF WorkType
  <2> QED
    BY <1>4, <2>1, <2>2, WorkStep, Busy
<1>6. k \in Connection /\ k.st = "served"
  BY ConnType DEF Connection
<1>7. conn' = [conn EXCEPT ![i] = k]
  BY ConnType DEF Receive, Connection
<1>8. inbuf' \in RequestMsg \cup {NoReq}
  BY <1>1, <1>2
<1> QED
  BY <1>5, <1>6, <1>7, <1>8, ConnStep DEF Receive

\* A worker's response reaches its connection, or nobody.
LEMMA SendInv ==
    ASSUME IndInv, UNCHANGED clientVars, NEW i \in Conn, Send(i)
    PROVE  IndInv'
<1> DEFINE k == IF conn[i].open
                THEN [conn[i] EXCEPT !.st = "answered", !.rsp = work[i].rsp]
                ELSE FreeConn
<1>1. work[i].rsp \in RespondMsg
  BY Busy DEF Send, At
<1>2. k \in Connection /\ (k.st = "answered" => k.rsp \in RespondMsg)
  BY <1>1, ConnType DEF Connection, FreeConn
<1>3. WorkType' /\ WorkOK'
  <2>1. Idle \in Worker /\ WorkerOK(Idle)
    BY ZeroType, Constants DEF Idle, Worker, WorkerOK, Pc
  <2>2. WorkType' /\ work'[i] = Idle /\ \A j \in Conn \ {i} : work'[j] = work[j]
    BY <2>1, Busy DEF Send, WorkType
  <2> QED
    BY <2>1, <2>2, WorkStep, Busy
<1>4. conn' = [conn EXCEPT ![i] = k]
  BY DEF Send
<1>5. inbuf' \in RequestMsg \cup {NoReq}
  BY ConnType DEF Send
<1> QED
  BY <1>2, <1>3, <1>4, <1>5, ConnStep DEF Send

-----------------------------------------------------------------------------
(* Start-up, the end of the process, and the network.                      *)

\* Start-up turns rows into slots.
LEMMA StartUpInv ==
    ASSUME IndInv, UNCHANGED clientVars, StartUp
    PROVE  IndInv'
<1>1. UNCHANGED <<conn, db, nextId, work, inbuf, revoked>>
  BY DEF StartUp, Boot, LoadRow, Listen
<1>2. shm' \in [1..MaxNode -> NodeSHMInfo]
  <2>1. CASE Boot
    BY <2>1, ZeroTableType, Constants DEF Boot, IsTable
  <2>2. CASE LoadRow
    <3>1. PICK r \in todo :
            shm' = ShmWrite(shm, [status |-> r.state, seckeyID |-> r.keyid,
                                  clientID |-> r.clientid, seckey |-> r.seckey])
      BY <2>2 DEF LoadRow
    <3>2. r \in Row
      BY DEF IndInv, TypeOK, ServerTypeOK
    <3>3. [status |-> r.state, seckeyID |-> r.keyid, clientID |-> r.clientid,
           seckey |-> r.seckey] \in NodeSHMInfo
      BY <3>2 DEF Row, NodeSHMInfo
    <3>4. IsTable(shm, MaxNode)
      BY DEF IndInv, TypeOK, ServerTypeOK, IsTable
    <3> QED
      BY <3>1, <3>3, <3>4, ShmWriteType, Constants DEF IsTable
  <2>3. CASE Listen
    BY <2>3 DEF Listen, IndInv, TypeOK, ServerTypeOK
  <2> QED
    BY <2>1, <2>2, <2>3 DEF StartUp
<1>3. /\ up' \in {"down", "loading", "up"}
      /\ todo' \subseteq Row
      /\ res' \in [by: Conn \cup {NoConn}, val: Nat]
  <2>1. /\ todo \subseteq Row /\ db \subseteq Row
        /\ res \in [by: Conn \cup {NoConn}, val: Nat]
        /\ up \in {"down", "loading", "up"}
        /\ NoResult \in [by: Conn \cup {NoConn}, val: Nat]
    BY DEF IndInv, TypeOK, ServerTypeOK, NoResult
  <2>2. CASE Boot
    BY <2>1, <2>2 DEF Boot
  <2>3. CASE LoadRow
    BY <2>1, <2>3 DEF LoadRow
  <2>4. CASE Listen
    BY <2>1, <2>4 DEF Listen
  <2> QED
    BY <2>2, <2>3, <2>4 DEF StartUp
<1>4. ServerTypeOK'
  <2>1. met' \in BOOLEAN
    BY DEF StartUp, Boot, LoadRow, Listen, IndInv, TypeOK, ServerTypeOK
  <2> QED
    BY <1>1, <1>2, <1>3, <2>1 DEF IndInv, TypeOK, ServerTypeOK
<1>5. ClientTypeOK' /\ UsableOK'
  BY DEF IndInv, TypeOK, ClientTypeOK, clientVars, UsableOK
<1> QED
  BY <1>1, <1>4, <1>5 DEF IndInv, TypeOK, WorkOK, AnswerOK, IdsBelow, Agrees

\* The end of the process loses workers and connections, and nothing else.
LEMMA CrashInv ==
    ASSUME IndInv, UNCHANGED clientVars, Crash
    PROVE  IndInv'
<1> DEFINE K(i) == IF conn[i].st \in {"sent", "served"}
                   THEN IF conn[i].open
                        THEN [conn[i] EXCEPT !.st = "lost", !.req = NoReq]
                        ELSE FreeConn
                   ELSE conn[i]
<1>1. conn' = [i \in Conn |-> K(i)]
  BY DEF Crash
<1>2. \A i \in Conn : /\ K(i) \in Connection
                      /\ K(i).st = "answered" => K(i).rsp \in RespondMsg
  BY ConnType DEF IndInv, AnswerOK, Connection, FreeConn
<1>3. conn' \in [Conn -> Connection] /\ AnswerOK'
  BY <1>1, <1>2 DEF AnswerOK
<1>4. Idle \in Worker
  BY ZeroType, Constants DEF Idle, Worker, Pc
<1>5. WorkType' /\ WorkOK'
  BY <1>4 DEF Crash, WorkType, WorkOK, Idle
<1>6. ServerTypeOK'
  BY <1>5 DEF Crash, IndInv, TypeOK, ServerTypeOK, WorkType, NoResult
<1>7. ClientTypeOK' /\ UsableOK'
  BY DEF IndInv, TypeOK, ClientTypeOK, clientVars, UsableOK
<1>8. IdsBelow'
  BY DEF Crash, IndInv, IdsBelow
<1> QED
  BY <1>3, <1>5, <1>6, <1>7, <1>8 DEF IndInv, TypeOK

\* A changed r1 is still some r1.
LEMMA AlterInv ==
    ASSUME IndInv, Alter
    PROVE  IndInv'
<1>1. PICK i \in Conn, r1 \in Nonce1 :
        /\ conn[i].st = "sent"
        /\ conn[i].req \in AgreeRequest
        /\ conn' = [conn EXCEPT ![i].req.r1 = r1]
  BY DEF Alter
<1> DEFINE req == [conn[i].req EXCEPT !.r1 = r1]
           k == [conn[i] EXCEPT !.req = req]
<1>2. req \in RequestMsg
  BY <1>1 DEF AgreeRequest, RequestMsg
<1>3. k \in Connection /\ k.st = "sent"
  BY <1>1, <1>2, ConnType DEF Connection
<1>4. conn' = [conn EXCEPT ![i] = k]
  BY <1>1, ConnType DEF Connection
<1>5. WorkType' /\ WorkOK' /\ inbuf' \in RequestMsg \cup {NoReq}
  BY Busy, ConnType DEF Alter, serverVars, WorkType, WorkOK, IndInv, Agrees
<1> QED
  BY <1>3, <1>4, <1>5, ConnStep DEF Alter, serverVars

-----------------------------------------------------------------------------
(* The steps of a client.                                                  *)

\* A client's own table, and the key it takes from it.
LEMMA ClientParts ==
    ASSUME IndInv, NEW c \in Client
    PROVE  /\ IsTable(cshm[c], 1)
           /\ creq \in [Client -> RequestMsg \cup {NoReq}]
           /\ cur \in [Client -> Conn \cup {NoConn}]
           /\ cbuf \in [Client -> RespondMsg \cup {NoRsp}]
           /\ OwnKey(c) \in NodeSHMInfo
           /\ OwnKey(c).status = 1 => OwnKey(c).seckey \in Key
<1>1. /\ IsTable(cshm[c], 1)
      /\ creq \in [Client -> RequestMsg \cup {NoReq}]
      /\ cur \in [Client -> Conn \cup {NoConn}]
      /\ cbuf \in [Client -> RespondMsg \cup {NoRsp}]
  BY DEF IndInv, TypeOK, ClientTypeOK, IsTable
<1>2. OwnKey(c) \in NodeSHMInfo
  BY <1>1, ShmReadType, Constants DEF OwnKey
<1>3. OwnKey(c) \in {Zero, cshm[c][1]}
  <2>1. SlotsOf(cshm[c], c) # {} => First(SlotsOf(cshm[c], c)) \in 1..1
    BY <1>1, WriteSlotsInTable
  <2> QED
    BY <2>1 DEF OwnKey, ShmRead
<1>4. OwnKey(c).status = 1 => OwnKey(c).seckey \in Key
  BY <1>3 DEF Zero, IndInv, UsableOK
<1> QED
  BY <1>1, <1>2, <1>4

\* A step that leaves the server alone.
LEMMA ClientOnly ==
    ASSUME IndInv, UNCHANGED serverVars, conn' \in [Conn -> Connection],
           AnswerOK', ClientTypeOK', UsableOK'
    PROVE  IndInv'
<1>1. ServerTypeOK' /\ WorkOK' /\ IdsBelow'
  BY DEF IndInv, TypeOK, ServerTypeOK, WorkOK, IdsBelow, serverVars, Agrees
<1> QED
  BY <1>1 DEF IndInv, TypeOK

\* A new connection, in whatever state but "answered".
LEMMA NewConn ==
    ASSUME IndInv, NEW i \in Conn, NEW k \in Connection, k.st # "answered",
           conn' = [conn EXCEPT ![i] = k]
    PROVE  conn' \in [Conn -> Connection] /\ AnswerOK'
BY ConnType DEF IndInv, AnswerOK

\* Sending a request.
LEMMA RequestInv ==
    ASSUME IndInv, NEW c \in Client, NEW req \in RequestMsg, Request(c, req)
    PROVE  IndInv'
<1> DEFINE k == [st |-> "sent", client |-> c, open |-> TRUE, req |-> req,
                 rsp |-> NoRsp]
<1>1. k \in Connection
  BY DEF Connection
<1>2. /\ conn' \in [Conn -> Connection]
      /\ AnswerOK'
      /\ cur' \in [Client -> Conn \cup {NoConn}]
  <2>1. CASE up = "up"
    <3>1. PICK i \in Conn : /\ cur' = [cur EXCEPT ![c] = i]
                            /\ conn' = [conn EXCEPT ![i] = k]
      BY <2>1 DEF Request, FreeConns
    <3> QED
      BY <1>1, <3>1, NewConn, ClientParts
  <2>2. CASE up # "up"
    BY <2>2, ClientParts, ConnType DEF Request, IndInv, AnswerOK
  <2> QED
    BY <2>1, <2>2
<1>3. creq' \in [Client -> RequestMsg \cup {NoReq}]
  BY ClientParts DEF Request
<1>4. alone' \subseteq Client
  BY DEF Request, IndInv, TypeOK, ClientTypeOK
<1>5. ClientTypeOK' /\ UsableOK'
  BY <1>2, <1>3, <1>4 DEF Request, IndInv, TypeOK, ClientTypeOK, UsableOK
<1> QED
  BY <1>2, <1>5, ClientOnly DEF Request

\* The requests of the menu: a check or a revocation carries a key.
LEMMA AskInv ==
    ASSUME IndInv, NEW c \in Client,
           SecKeyAgree(c) \/ SecKeyCheck(c) \/ SecKeyRevoke(c)
    PROVE  IndInv'
<1>1. ASSUME NEW r1 \in Nonce1
      PROVE  [cmdType |-> "NewOrUpdate", clientId |-> c, r1 |-> r1,
              authCode |-> Mac(c, r1)] \in RequestMsg
  BY DEF RequestMsg, AgreeRequest, AuthCode, Mac
<1>2. CASE SecKeyAgree(c)
  BY <1>1, <1>2, RequestInv DEF SecKeyAgree
<1>3. ASSUME NEW cmd \in {"Check", "Revoke"}, SendKey(c, cmd)
      PROVE  IndInv'
  <2> DEFINE req == [cmdType |-> cmd, clientId |-> c, r1 |-> OwnKey(c).seckey,
                     authCode |-> Mac(c, OwnKey(c).seckey)]
  <2>1. OwnKey(c).seckey \in Key
    BY <1>3, ClientParts DEF SendKey
  <2>2. req \in RequestMsg
    BY <2>1 DEF RequestMsg, KeyRequest, AuthCode, Mac
  <2>3. Request(c, req)
    BY <1>3 DEF SendKey
  <2> QED
    BY <2>2, <2>3, RequestInv
<1> QED
  BY <1>2, <1>3 DEF SecKeyCheck, SecKeyRevoke

\* A connection on which nothing is sent.
LEMMA ConnectOnlyInv ==
    ASSUME IndInv, NEW c \in Client, ConnectOnly(c)
    PROVE  IndInv'
<1> DEFINE k == [st |-> "sent", client |-> c, open |-> FALSE, req |-> NoReq,
                 rsp |-> NoRsp]
<1>1. k \in Connection
  BY DEF Connection
<1>2. PICK i \in Conn : conn' = [conn EXCEPT ![i] = k]
  BY DEF ConnectOnly, FreeConns
<1>3. conn' \in [Conn -> Connection] /\ AnswerOK'
  BY <1>1, <1>2, NewConn
<1>4. ClientTypeOK' /\ UsableOK'
  BY DEF ConnectOnly, IndInv, TypeOK, ClientTypeOK, UsableOK
<1> QED
  BY <1>3, <1>4, ClientOnly DEF ConnectOnly

\* Letting go of a connection leaves no answer without a response.
LEMMA HangupType ==
    ASSUME IndInv, NEW c \in Client, conn' = Hangup(c)
    PROVE  conn' \in [Conn -> Connection] /\ AnswerOK'
<1> DEFINE i == cur[c]
           k == IF conn[i].st \in {"answered", "lost"} THEN FreeConn
                ELSE [conn[i] EXCEPT !.open = FALSE]
<1>1. CASE i = NoConn
  BY <1>1, ConnType DEF Hangup, IndInv, AnswerOK
<1>2. CASE i \in Conn
  <2>1. k \in Connection /\ k.st # "answered"
    BY <1>2, ConnType DEF Connection, FreeConn
  <2>2. conn' = [conn EXCEPT ![i] = k]
    BY <1>2, Constants DEF Hangup
  <2> QED
    BY <1>2, <2>1, <2>2, NewConn
<1> QED
  BY <1>1, <1>2, ClientParts

\* What a response leaves in a client's table.
LEMMA TableAfterType ==
    ASSUME IndInv, NEW c \in Client, ~AtMenu(c), NEW rsp \in RespondMsg
    PROVE  /\ TableAfter(c, rsp) \in [1..1 -> NodeSHMInfo]
           /\ TableAfter(c, rsp)[1].status = 1 => TableAfter(c, rsp)[1].seckey \in Key
<1> DEFINE t == cshm[c]
           dropped == [OwnKey(c) EXCEPT !.status = 0]
<1>1. /\ t \in [1..1 -> NodeSHMInfo]
      /\ t[1].status = 1 => t[1].seckey \in Key
  BY ClientParts DEF IsTable, IndInv, UsableOK
<1>2. creq[c] \in RequestMsg
  BY ClientParts DEF AtMenu
\* Writing a good node into a good table gives a good table.
<1>3. ASSUME NEW node \in NodeSHMInfo, node.status = 1 => node.seckey \in Key
      PROVE  /\ ShmWrite(t, node) \in [1..1 -> NodeSHMInfo]
             /\ ShmWrite(t, node)[1].status = 1 => ShmWrite(t, node)[1].seckey \in Key
  <2>1. ShmWrite(t, node) \in [1..1 -> NodeSHMInfo]
    BY <1>3, ShmWriteType, ClientParts DEF IsTable
  <2>2. ShmWrite(t, node)[1] \in {node, t[1]}
    BY <1>1 DEF ShmWrite
  <2> QED
    BY <1>1, <1>3, <2>1, <2>2
<1>4. CASE creq[c].cmdType = "NewOrUpdate"
  <2>1. creq[c].r1 \in Nonce1
    BY <1>2, <1>4 DEF RequestMsg, AgreeRequest, KeyRequest
  <2>2. Agreed(c, rsp) \in NodeSHMInfo /\ Agreed(c, rsp).seckey \in Key
    BY <2>1 DEF Agreed, RespondMsg, NodeSHMInfo, Key
  <2>3. TableAfter(c, rsp) \in {t, ShmWrite(t, Agreed(c, rsp))}
    BY <1>4 DEF TableAfter, AfterAgree
  <2> QED
    BY <1>1, <1>3, <2>2, <2>3
<1>5. CASE creq[c].cmdType = "Revoke"
  <2>1. dropped \in NodeSHMInfo /\ dropped.status = 0
    BY ClientParts DEF NodeSHMInfo
  <2>2. TableAfter(c, rsp) \in {t, ShmWrite(t, dropped)}
    BY <1>5 DEF TableAfter, AfterRevoke
  <2> HIDE DEF dropped, t
  <2> QED
    BY <1>1, <1>3, <2>1, <2>2
<1>6. CASE creq[c].cmdType = "Check"
  BY <1>1, <1>6 DEF TableAfter
<1> QED
  BY <1>2, <1>4, <1>5, <1>6 DEF RequestMsg, AgreeRequest, KeyRequest

\* Back at the menu with a table that is the old one or a decoded response's.
LEMMA ReceiveStep ==
    ASSUME IndInv, NEW c \in Client, conn' = Hangup(c), BackToMenu(c),
           UNCHANGED serverVars,
           cbuf' \in [Client -> RespondMsg \cup {NoRsp}], sure' \subseteq Client,
           NEW t \in [1..1 -> NodeSHMInfo], t[1].status = 1 => t[1].seckey \in Key,
           cshm' = [cshm EXCEPT ![c] = t]
    PROVE  IndInv'
<1>1. conn' \in [Conn -> Connection] /\ AnswerOK'
  BY HangupType
<1>2. /\ creq' \in [Client -> RequestMsg \cup {NoReq}]
      /\ cur' \in [Client -> Conn \cup {NoConn}]
  BY ClientParts DEF BackToMenu
<1>3. cshm' \in [Client -> [1..1 -> NodeSHMInfo]] /\ alone' \subseteq Client
  BY DEF BackToMenu, IndInv, TypeOK, ClientTypeOK
<1>4. ClientTypeOK'
  BY <1>2, <1>3 DEF ClientTypeOK
<1>5. UsableOK'
  BY DEF IndInv, TypeOK, ClientTypeOK, UsableOK
<1> QED
  BY <1>1, <1>4, <1>5, ClientOnly

\* Every outcome of recvMsg and msgDecode in a client.
LEMMA ClientReceiveInv ==
    ASSUME IndInv, NEW c \in Client, ClientReceive(c)
    PROVE  IndInv'
<1>1. /\ cshm \in [Client -> [1..1 -> NodeSHMInfo]]
      /\ cshm[c][1].status = 1 => cshm[c][1].seckey \in Key
      /\ sure \subseteq Client
  BY DEF IndInv, TypeOK, ClientTypeOK, UsableOK
<1>2. CASE ReceiveAnswer(c)
  <2> DEFINE rsp == conn[cur[c]].rsp
  <2>1. rsp \in RespondMsg /\ ~AtMenu(c)
    BY <1>2 DEF ReceiveAnswer, Answered, IndInv, AnswerOK
  <2>2. sure' \subseteq Client
    BY <1>1, <1>2 DEF ReceiveAnswer, SureAfter
  <2>3. cbuf' \in [Client -> RespondMsg \cup {NoRsp}]
    BY <1>2, <2>1, ClientParts DEF ReceiveAnswer
  <2>4. cshm' = [cshm EXCEPT ![c] = TableAfter(c, rsp)]
    BY <1>2 DEF ReceiveAnswer
  <2> QED
    BY <1>2, <2>1, <2>2, <2>3, <2>4, TableAfterType, ReceiveStep DEF ReceiveAnswer
<1>3. CASE DecodeDies(c) \/ ReceiveDies(c)
  <2>1. /\ sure' \subseteq Client
        /\ cbuf' \in [Client -> RespondMsg \cup {NoRsp}]
    BY <1>1, <1>3, ClientParts DEF DecodeDies, ReceiveDies, SureWithout
  <2>2. cshm' = [cshm EXCEPT ![c] = cshm[c]] /\ cshm[c] \in [1..1 -> NodeSHMInfo]
    BY <1>1, <1>3 DEF DecodeDies, ReceiveDies
  <2> QED
    BY <1>1, <1>3, <2>1, <2>2, ReceiveStep DEF DecodeDies, ReceiveDies
<1>4. CASE ReceiveStale(c)
  <2>1. cbuf[c] \in RespondMsg /\ ~AtMenu(c)
    BY <1>4, ClientParts DEF ReceiveStale, NoAnswer
  <2>2. /\ sure' \subseteq Client
        /\ cbuf' \in [Client -> RespondMsg \cup {NoRsp}]
    BY <1>1, <1>4, ClientParts DEF ReceiveStale, SureWithout
  <2>3. cshm' = [cshm EXCEPT ![c] = TableAfter(c, cbuf[c])]
    BY <1>4 DEF ReceiveStale
  <2> QED
    BY <1>4, <2>1, <2>2, <2>3, TableAfterType, ReceiveStep DEF ReceiveStale
<1> QED
  BY <1>2, <1>3, <1>4 DEF ClientReceive

-----------------------------------------------------------------------------
(* The theorems.                                                           *)

\* The first state: no rows, zeroed tables, nobody busy.
LEMMA InitInv == Init => IndInv
<1> SUFFICES ASSUME Init PROVE IndInv
  OBVIOUS
<1>1. conn \in [Conn -> Connection] /\ AnswerOK
  BY DEF Init, WireInit, FreeConn, Connection, AnswerOK
<1>2. Idle \in Worker /\ NoResult \in [by: Conn \cup {NoConn}, val: Nat]
  BY ZeroType, Constants DEF Idle, Worker, Pc, NoResult
<1>3. shm \in [1..MaxNode -> NodeSHMInfo]
  BY ZeroTableType, Constants DEF Init, ServerInit, IsTable
<1>4. ServerTypeOK
  <2>1. met \in BOOLEAN /\ work \in [Conn -> Worker] /\ res \in [by: Conn \cup {NoConn}, val: Nat]
    BY <1>2 DEF Init, ServerInit
  <2> QED
    BY <1>3, <2>1 DEF Init, ServerInit, ServerTypeOK
<1>5. \A c \in Client : cshm[c] = ZeroTable(1)
  BY DEF Init, ClientInit
<1>6. ClientTypeOK
  BY ZeroTableType DEF Init, ClientInit, ClientTypeOK, IsTable
<1>7. UsableOK
  BY <1>5 DEF UsableOK, ZeroTable, Zero
<1>8. WorkOK /\ IdsBelow
  BY DEF Init, ServerInit, Idle, WorkOK, IdsBelow
<1> QED
  BY <1>1, <1>4, <1>6, <1>7, <1>8 DEF IndInv, TypeOK

\* One step per operation.
LEMMA NextInv == IndInv /\ [Next]_vars => IndInv'
<1> SUFFICES ASSUME IndInv, [Next]_vars PROVE IndInv'
  OBVIOUS
<1>1. ASSUME UNCHANGED clientVars, NEW i \in Conn, WorkerStep(i)
      PROVE  IndInv'
  BY <1>1, ReceiveInv, QueryNodeInv, CheckIdInv, SendInv, AgreeAcceptInv,
     AnswerOnlyInv, SelectKeyInv, DecideUpdateInv, DecideInsertInv, SelectMaxInv,
     TakeIdInv, UpdateRowsInv, InsertRowInv, RevokeAcceptInv, RevokeDbInv, ScanInv,
     CopyInv DEF WorkerStep, AgreeStep, RevokeStep, ShmWriteStep
<1>2. CASE Server
  BY <1>1, <1>2, StartUpInv, CrashInv DEF Server
<1>3. CASE Alter
  BY <1>3, AlterInv
<1>4. ASSUME NEW c \in Client, ClientStep(c)
      PROVE  IndInv'
  BY <1>4, AskInv, ConnectOnlyInv, ClientReceiveInv DEF ClientStep
<1>5. CASE UNCHANGED vars
  BY <1>5 DEF vars, serverVars, clientVars, IndInv, TypeOK, ServerTypeOK,
     ClientTypeOK, WorkOK, AnswerOK, UsableOK, IdsBelow, Agrees
<1> QED
  BY <1>2, <1>3, <1>4, <1>5 DEF Next

\* The inductive invariant: every busy worker has the request, nonce and key
\* that its next call uses, every answer on a connection is a response, a key
\* that a client takes for usable is one, and AUTO_INCREMENT is ahead of all
\* rows, whatever the interleaving and the faults.
THEOREM Invariance == Spec => []IndInv
BY InitInv, NextInv, PTL DEF Spec

\* Every variable keeps its type in every reachable state: no operation of the
\* server or of a client leaves a slot, a row, a message or the largest keyid
\* that the others could not handle.
THEOREM TypeCorrect == Spec => []TypeOK
<1>1. IndInv => TypeOK
  BY DEF IndInv
<1> QED
  BY <1>1, Invariance, PTL

-----------------------------------------------------------------------------
(* What each call of a worker does.                                        *)

NameOf(i) == work[i].req.clientId

\* The calls that are made once the client was found in secnode.
Past == Pc \ {"idle", "query", "checkId", "send"}

Alone == \A i, j \in Serving : i = j

OnlyUp == up # "up" => Serving = {}

\* Worker i makes the call at "from" and goes on to "to"; nobody else moves.
Moves(i, from, to) ==
    /\ up = "up" /\ up' = "up" /\ todo' = todo
    /\ work[i].pc = from /\ work'[i].pc = to
    /\ work'[i].req = work[i].req /\ NameOf(i)' = NameOf(i)
    /\ \A j \in Conn \ {i} : work'[j] = work[j]

\* The stores are left as they are.
Quiet == UNCHANGED <<shm, db, nextId, revoked>>

\* Goto and Answer move one worker.
LEMMA Mover ==
    ASSUME IndInv, NEW i \in Conn, NEW from, At(i, from), from # "idle",
           UNCHANGED <<up, todo>>
    PROVE  /\ \A to \in Pc : Goto(i, to) => Moves(i, from, to) /\ work'[i].node = work[i].node
           /\ \A rv \in {0, 1, 2} : Answer(i, rv) => Moves(i, from, "send")
<1>1. work[i].pc = from /\ WorkType /\ work[i].rsp \in RespondMsg /\ up = "up"
  BY Busy DEF At
<1>2. ASSUME NEW to \in Pc, Goto(i, to)
      PROVE  Moves(i, from, to) /\ work'[i].node = work[i].node
  <2>1. work'[i] = [work[i] EXCEPT !.pc = to] /\ \A j \in Conn \ {i} : work'[j] = work[j]
    BY <1>1, <1>2, GotoType
  <2>2. /\ work'[i].pc = to /\ work'[i].req = work[i].req
        /\ work'[i].node = work[i].node
    BY <2>1, Busy DEF Worker
  <2> QED
    BY <1>1, <2>1, <2>2 DEF Moves, NameOf
<1>3. ASSUME NEW rv \in {0, 1, 2}, Answer(i, rv)
      PROVE  Moves(i, from, "send")
  BY <1>1, <1>3, AnswerType DEF Moves, NameOf
<1> QED
  BY <1>2, <1>3

\* So does a scan or a copy.
LEMMA SlotMover ==
    ASSUME IndInv, NEW i \in Conn, NEW from, At(i, from), UNCHANGED <<up, todo>>,
           NEW to \in Pc, NEW slot \in 0..MaxNode,
           work' = [work EXCEPT ![i].pc = to, ![i].slot = slot]
    PROVE  /\ Moves(i, from, to)
           /\ work'[i].node = work[i].node
           /\ work'[i].slot = slot
<1> DEFINE w == [work[i] EXCEPT !.pc = to, !.slot = slot]
<1>1. work' = [work EXCEPT ![i] = w] /\ work[i] \in Worker
  BY Busy DEF WorkType, Worker
<1>2. /\ work'[i].pc = to /\ work'[i].req = work[i].req
      /\ work'[i].node = work[i].node /\ work'[i].slot = slot
      /\ \A j \in Conn \ {i} : work'[j] = work[j]
  BY <1>1, Busy DEF Worker, WorkType
<1> QED
  BY <1>2 DEF Moves, NameOf, At

\* The calls before a client is let in, and the end of a worker.
LEMMA OuterCalls ==
    ASSUME IndInv, NEW i \in Conn
    PROVE  /\ QueryNode(i) =>
                /\ Moves(i, "query", "checkId") /\ Quiet
                /\ res' = [by |-> i,
                           val |-> IF NameOf(i) \in Registered THEN 1 ELSE 0]
           /\ CheckId(i) =>
                /\ Quiet
                /\ \/ Moves(i, "checkId", "send")
                   \/ /\ \E rows \in Read(i) : rows > 0
                      /\ \E to \in {"agree", "check", "revoke"} : Moves(i, "checkId", to)
           /\ Send(i) =>
                /\ up = "up" /\ up' = "up" /\ todo' = todo /\ Quiet
                /\ work[i].pc = "send" /\ work'[i].pc = "idle"
                /\ \A j \in Conn \ {i} : work'[j] = work[j]
<1>1. ASSUME QueryNode(i)
      PROVE  /\ Moves(i, "query", "checkId") /\ Quiet
             /\ res' = [by |-> i, val |-> IF NameOf(i) \in Registered THEN 1 ELSE 0]
  BY <1>1, Mover DEF QueryNode, Quiet, NameOf, Pc
<1>2. ASSUME CheckId(i)
      PROVE  /\ Quiet
             /\ \/ Moves(i, "checkId", "send")
                \/ /\ \E rows \in Read(i) : rows > 0
                   /\ \E to \in {"agree", "check", "revoke"} : Moves(i, "checkId", to)
  <2>1. Quiet /\ At(i, "checkId") /\ UNCHANGED <<up, todo>>
    BY <1>2 DEF CheckId, Quiet
  <2>2. PICK rows \in Read(i) :
          \/ Answer(i, 2)
          \/ rows > 0 /\ (Goto(i, "agree") \/ Goto(i, "check") \/ Goto(i, "revoke"))
    BY <1>2 DEF CheckId
  <2> QED
    BY <2>1, <2>2, Mover DEF Pc
<1>3. ASSUME Send(i)
      PROVE  /\ up = "up" /\ up' = "up" /\ todo' = todo /\ Quiet
             /\ work[i].pc = "send" /\ work'[i].pc = "idle"
             /\ \A j \in Conn \ {i} : work'[j] = work[j]
  BY <1>3, Busy DEF Send, At, Quiet, Idle, WorkType
<1> QED
  BY <1>1, <1>2, <1>3

\* The calls of an agreement.
LEMMA AgreeCalls ==
    ASSUME IndInv, NEW i \in Conn
    PROVE  /\ AgreeAccept(i) =>
                /\ Moves(i, "agree", "ownSlot") /\ Quiet /\ UNCHANGED res
                /\ work[i].req.cmdType = "NewOrUpdate"
                /\ work'[i].node \in NodeSHMInfo
                /\ work'[i].node.status = 1
                /\ work'[i].node.clientID = NameOf(i)
           /\ AgreeReject(i) => Moves(i, "agree", "send") /\ Quiet /\ UNCHANGED res
           /\ SelectKey(i) =>
                /\ Moves(i, "select", "decide") /\ work'[i].node = work[i].node /\ Quiet
                /\ res'.by = i /\ (res'.val = 0 <=> RowsOf(NameOf(i)) = {})
           /\ DecideUpdate(i) =>
                /\ Moves(i, "decide", "update") /\ work'[i].node = work[i].node /\ Quiet
                /\ \E id \in Read(i) : id # 0
           /\ DecideInsert(i) =>
                /\ Moves(i, "decide", "max") /\ work'[i].node = work[i].node /\ Quiet
                /\ 0 \in Read(i)
           /\ SelectMax(i) =>
                Moves(i, "max", "takeId") /\ work'[i].node = work[i].node /\ Quiet
           /\ TakeId(i) =>
                Moves(i, "takeId", "insert") /\ work'[i].node = work[i].node /\ Quiet
           /\ UpdateRows(i) =>
                Moves(i, "update", "send") /\ UNCHANGED <<shm, nextId, revoked>>
           /\ InsertRow(i) =>
                Moves(i, "insert", "send") /\ UNCHANGED <<shm, revoked>>
<1>1. ASSUME AgreeAccept(i)
      PROVE  /\ Moves(i, "agree", "ownSlot") /\ Quiet /\ UNCHANGED res
             /\ work[i].req.cmdType = "NewOrUpdate"
             /\ work'[i].node \in NodeSHMInfo
             /\ work'[i].node.status = 1
             /\ work'[i].node.clientID = NameOf(i)
  <2> DEFINE Node(r2) == [status |-> 1, seckeyID |-> work[i].rsp.seckeyid,
                          clientID |-> work[i].req.clientId,
                          seckey |-> <<work[i].req.r1, r2>>]
  <2>1. PICK r2 \in Nonce2 :
          work' = [work EXCEPT ![i] = [@ EXCEPT !.pc = "ownSlot", !.rsp.r2 = r2,
                                                !.node = Node(r2)]]
    BY <1>1 DEF AgreeAccept
  <2> DEFINE node == Node(r2)
             rsp == [work[i].rsp EXCEPT !.r2 = r2]
             w == [work[i] EXCEPT !.pc = "ownSlot", !.rsp = rsp, !.node = node]
  <2>2. work' = [work EXCEPT ![i] = w] /\ work[i] \in Worker /\ i \in DOMAIN work
    BY <2>1, Busy DEF WorkType, Worker
  <2>3. /\ work'[i].pc = "ownSlot" /\ work'[i].req = work[i].req /\ work'[i].node = node
        /\ \A j \in Conn \ {i} : work'[j] = work[j]
    BY <2>2, Busy DEF Worker, WorkType
  <2>4. /\ work[i].rsp \in RespondMsg
        /\ work[i].req.clientId \in Client
        /\ work[i].req.r1 \in Nonce1
        /\ work[i].req \in AgreeRequest
    BY <1>1, Busy DEF AgreeAccept, At, AgreePc
  <2>5. node \in NodeSHMInfo /\ work[i].req.cmdType = "NewOrUpdate"
    BY <2>4 DEF NodeSHMInfo, RespondMsg, Key, R2, AgreeRequest
  <2>6. At(i, "agree") /\ UNCHANGED <<up, todo, res>> /\ Quiet
    BY <1>1 DEF AgreeAccept, Quiet
  <2>7. node.status = 1 /\ node.clientID = NameOf(i)
    BY DEF NameOf
  <2>8. Moves(i, "agree", "ownSlot")
    BY <2>3, <2>6 DEF Moves, NameOf, At
  <2> HIDE DEF node
  <2> QED
    BY <2>3, <2>5, <2>6, <2>7, <2>8
<1>2. AgreeReject(i) => Moves(i, "agree", "send") /\ Quiet /\ UNCHANGED res
  BY Mover DEF AgreeReject, Quiet
<1>3. ASSUME SelectKey(i)
      PROVE  /\ Moves(i, "select", "decide") /\ work'[i].node = work[i].node /\ Quiet
             /\ res'.by = i /\ (res'.val = 0 <=> RowsOf(NameOf(i)) = {})
  <2> DEFINE ids == KeyIdsOf(NameOf(i))
  <2>1. Moves(i, "select", "decide") /\ work'[i].node = work[i].node /\ Quiet
    BY <1>3, Mover DEF SelectKey, Quiet, Pc
  <2>2. res' = [by |-> i, val |-> IF ids = {} THEN 0 ELSE First(ids)]
    BY <1>3 DEF SelectKey, NameOf
  <2>3. ids = {} <=> RowsOf(NameOf(i)) = {}
    BY DEF KeyIdsOf, RowsOf
  <2>4. ids \subseteq Nat \ {0}
    BY Busy DEF KeyIdsOf, Row
  <2>5. ids # {} => First(ids) \in ids
    BY <2>4, FirstInSet
  <2> QED
    BY <2>1, <2>2, <2>3, <2>4, <2>5
<1>4. ASSUME DecideUpdate(i)
      PROVE  /\ Moves(i, "decide", "update") /\ work'[i].node = work[i].node /\ Quiet
             /\ \E id \in Read(i) : id # 0
  <2>1. PICK id \in Read(i) \ {0} :
          work' = [work EXCEPT ![i].pc = "update", ![i].rsp.seckeyid = id]
    BY <1>4 DEF DecideUpdate
  <2> DEFINE rsp == [work[i].rsp EXCEPT !.seckeyid = id]
             w == [work[i] EXCEPT !.pc = "update", !.rsp = rsp]
  <2>2. work' = [work EXCEPT ![i] = w] /\ work[i] \in Worker
    BY <2>1, Busy DEF WorkType, Worker
  <2>3. /\ work'[i].pc = "update" /\ work'[i].req = work[i].req
        /\ work'[i].node = work[i].node
        /\ \A j \in Conn \ {i} : work'[j] = work[j]
    BY <2>2, Busy DEF Worker, WorkType
  <2> QED
    BY <1>4, <2>1, <2>3 DEF DecideUpdate, Moves, NameOf, At, Quiet
<1>5. DecideInsert(i) =>
         /\ Moves(i, "decide", "max") /\ work'[i].node = work[i].node /\ Quiet
         /\ 0 \in Read(i)
  BY Mover DEF DecideInsert, Quiet, Pc
<1>6. SelectMax(i) =>
         Moves(i, "max", "takeId") /\ work'[i].node = work[i].node /\ Quiet
  BY Mover DEF SelectMax, Quiet, Pc
<1>7. ASSUME TakeId(i)
      PROVE  Moves(i, "takeId", "insert") /\ work'[i].node = work[i].node /\ Quiet
  <2>1. PICK m \in Read(i) :
          work' = [work EXCEPT ![i].pc = "insert", ![i].rsp.seckeyid = m + 1]
    BY <1>7 DEF TakeId
  <2> DEFINE rsp == [work[i].rsp EXCEPT !.seckeyid = m + 1]
             w == [work[i] EXCEPT !.pc = "insert", !.rsp = rsp]
  <2>2. work' = [work EXCEPT ![i] = w] /\ work[i] \in Worker
    BY <2>1, Busy DEF WorkType, Worker
  <2>3. /\ work'[i].pc = "insert" /\ work'[i].req = work[i].req
        /\ work'[i].node = work[i].node
        /\ \A j \in Conn \ {i} : work'[j] = work[j]
    BY <2>2, Busy DEF Worker, WorkType
  <2> QED
    BY <1>7, <2>3 DEF TakeId, Moves, NameOf, At, Quiet
<1>8. UpdateRows(i) => Moves(i, "update", "send") /\ UNCHANGED <<shm, nextId, revoked>>
  BY Mover DEF UpdateRows
<1>9. InsertRow(i) => Moves(i, "insert", "send") /\ UNCHANGED <<shm, revoked>>
  BY Mover DEF InsertRow
<1> QED
  BY <1>1, <1>2, <1>3, <1>4, <1>5, <1>6, <1>7, <1>8, <1>9

\* The calls of a check and of a revocation.
LEMMA RevokeCalls ==
    ASSUME IndInv, NEW i \in Conn
    PROVE  /\ Check(i) => Moves(i, "check", "send") /\ Quiet
           /\ RevokeAccept(i) =>
                /\ Moves(i, "revoke", "ownSlot") /\ Quiet
                /\ work[i].req.cmdType # "NewOrUpdate"
                /\ work'[i].node = [ShmRead(shm, NameOf(i)) EXCEPT !.status = 0]
           /\ RevokeReject(i) => Moves(i, "revoke", "send") /\ Quiet
           /\ RevokeDb(i) =>
                /\ Moves(i, "revokeDb", "send") /\ UNCHANGED <<shm, nextId>>
                /\ revoked' = revoked \cup {NameOf(i)}
<1>1. Check(i) => Moves(i, "check", "send") /\ Quiet
  BY Mover DEF Check, Quiet
<1>2. ASSUME RevokeAccept(i)
      PROVE  /\ Moves(i, "revoke", "ownSlot") /\ Quiet
             /\ work[i].req.cmdType # "NewOrUpdate"
             /\ work'[i].node = [ShmRead(shm, NameOf(i)) EXCEPT !.status = 0]
  <2> DEFINE node == [ShmRead(shm, NameOf(i)) EXCEPT !.status = 0]
             w == [work[i] EXCEPT !.pc = "ownSlot", !.node = node]
  <2>1. work' = [work EXCEPT ![i] = w] /\ work[i] \in Worker
    BY <1>2, Busy DEF RevokeAccept, WorkType, Worker, NameOf
  <2>2. /\ work'[i].pc = "ownSlot" /\ work'[i].req = work[i].req
        /\ work'[i].node = node
        /\ \A j \in Conn \ {i} : work'[j] = work[j]
    BY <2>1, Busy DEF Worker, WorkType
  <2> QED
    BY <1>2, <2>2, Busy DEF RevokeAccept, Moves, NameOf, At, Quiet, WorkerOK
<1>3. RevokeReject(i) => Moves(i, "revoke", "send") /\ Quiet
  BY Mover DEF RevokeReject, Quiet
<1>5. RevokeDb(i) =>
         /\ Moves(i, "revokeDb", "send") /\ UNCHANGED <<shm, nextId>>
         /\ revoked' = revoked \cup {NameOf(i)}
  BY Mover DEF RevokeDb, NameOf
<1> QED
  BY <1>1, <1>2, <1>3, <1>5

\* The parts of shmWrite.
LEMMA WriteCalls ==
    ASSUME IndInv, NEW i \in Conn
    PROVE  /\ OwnSlot(i) =>
                LET own == SlotsOf(shm, work[i].node.clientID)
                IN  /\ Moves(i, "ownSlot", IF own = {} THEN "freeSlot" ELSE "copy")
                    /\ Quiet /\ UNCHANGED res /\ work'[i].node = work[i].node
                    /\ own # {} => work'[i].slot = First(own)
           /\ FreeSlot(i) =>
                /\ Moves(i, "freeSlot", "copy")
                /\ Quiet /\ UNCHANGED res /\ work'[i].node = work[i].node
                /\ work'[i].slot = IF FreeSlots(shm) = {} THEN 0 ELSE First(FreeSlots(shm))
           /\ Copy(i) =>
                /\ Moves(i, "copy", IF Agrees(i) THEN "select" ELSE "revokeDb")
                /\ UNCHANGED <<db, nextId, res>> /\ work'[i].node = work[i].node
                /\ revoked' = IF Agrees(i) THEN revoked \ {NameOf(i)} ELSE revoked
                /\ shm' = [k \in 1..MaxNode |->
                             IF k = work[i].slot THEN work[i].node ELSE shm[k]]
<1> DEFINE own == SlotsOf(shm, work[i].node.clientID)
           free == FreeSlots(shm)
           to1 == IF own = {} THEN "freeSlot" ELSE "copy"
           slot1 == IF own = {} THEN 0 ELSE First(own)
           slot2 == IF free = {} THEN 0 ELSE First(free)
<1>1. slot1 \in 0..MaxNode /\ slot2 \in 0..MaxNode /\ to1 \in Pc
  <2>1. /\ own \subseteq 1..MaxNode /\ free \subseteq 1..MaxNode
        /\ own # {} => First(own) \in own
        /\ free # {} => First(free) \in free
    BY WriteSlotsInTable, FirstInSet, Busy, Constants
  <2> QED
    BY <2>1, Constants DEF Pc
<1>2. ASSUME OwnSlot(i)
      PROVE  /\ Moves(i, "ownSlot", to1)
             /\ Quiet /\ UNCHANGED res /\ work'[i].node = work[i].node
             /\ work'[i].slot = slot1
  <2>1. /\ At(i, "ownSlot") /\ UNCHANGED <<up, todo, res>> /\ Quiet
        /\ work' = [work EXCEPT ![i].pc = to1, ![i].slot = slot1]
    BY <1>2 DEF OwnSlot, Quiet
  <2> HIDE DEF to1, slot1
  <2> QED
    BY <1>1, <2>1, SlotMover
<1>3. ASSUME FreeSlot(i)
      PROVE  /\ Moves(i, "freeSlot", "copy")
             /\ Quiet /\ UNCHANGED res /\ work'[i].node = work[i].node
             /\ work'[i].slot = slot2
  <2>1. /\ At(i, "freeSlot") /\ UNCHANGED <<up, todo, res>> /\ Quiet
        /\ work' = [work EXCEPT ![i].pc = "copy", ![i].slot = slot2]
    BY <1>3 DEF FreeSlot, Quiet
  <2>2. "copy" \in Pc
    BY DEF Pc
  <2> HIDE DEF slot2
  <2> QED
    BY <1>1, <2>1, <2>2, SlotMover
<1>4. ASSUME Copy(i)
      PROVE  /\ Moves(i, "copy", IF Agrees(i) THEN "select" ELSE "revokeDb")
             /\ UNCHANGED <<db, nextId, res>> /\ work'[i].node = work[i].node
             /\ revoked' = IF Agrees(i) THEN revoked \ {NameOf(i)} ELSE revoked
             /\ shm' = [k \in 1..MaxNode |->
                          IF k = work[i].slot THEN work[i].node ELSE shm[k]]
  <2> DEFINE to == IF Agrees(i) THEN "select" ELSE "revokeDb"
  <2>1. /\ At(i, "copy") /\ UNCHANGED <<up, todo>> /\ UNCHANGED <<db, nextId, res>>
        /\ work' = [work EXCEPT ![i].pc = to, ![i].slot = 0]
        /\ revoked' = IF Agrees(i) THEN revoked \ {NameOf(i)} ELSE revoked
        /\ shm' = [k \in 1..MaxNode |->
                     IF k = work[i].slot THEN work[i].node ELSE shm[k]]
    BY <1>4 DEF Copy, NameOf
  <2>2. to \in Pc /\ 0 \in 0..MaxNode
    BY Constants DEF Pc
  <2> HIDE DEF to
  <2>3. Moves(i, "copy", to) /\ work'[i].node = work[i].node
    BY <2>1, <2>2, SlotMover
  <2> QED
    BY <2>1, <2>3 DEF to
<1> QED
  BY <1>2, <1>3, <1>4

\* Who can take a step.
LEMMA Kinds ==
    ASSUME [Next]_vars
    PROVE  \/ \E i \in Conn : WorkerStep(i)
           \/ StartUp
           \/ Crash
           \/ UNCHANGED serverVars
<1>1. ASSUME NEW c \in Client, ClientStep(c)
      PROVE  UNCHANGED serverVars
  BY <1>1 DEF ClientStep, SecKeyAgree, SecKeyCheck, SecKeyRevoke, SendKey, Request,
     ConnectOnly, ClientReceive, ReceiveAnswer, DecodeDies, ReceiveDies, ReceiveStale
<1> QED
  BY <1>1 DEF Next, Server, Alter, vars

\* The acceptance of a request.
LEMMA ReceiveCall ==
    ASSUME IndInv, NEW i \in Conn, Receive(i)
    PROVE  /\ up = "up" /\ up' = "up" /\ todo' = todo /\ Quiet
           /\ work'[i].pc = "query"
           /\ \A j \in Conn \ {i} : work'[j] = work[j]
BY Busy DEF Receive, Quiet, WorkType

\* One worker moves at a time.
LEMMA OneMoves ==
    ASSUME IndInv, NEW i \in Conn, WorkerStep(i)
    PROVE  /\ up = "up" /\ up' = "up" /\ todo' = todo
           /\ \A j \in Conn \ {i} : work'[j] = work[j]
           /\ Receive(i) \/ work[i].pc # "idle"
<1>1. CASE OwnSlot(i) \/ FreeSlot(i) \/ Copy(i)
  BY <1>1, WriteCalls DEF Moves
<1>2. CASE ~ (OwnSlot(i) \/ FreeSlot(i) \/ Copy(i))
  BY <1>2, ReceiveCall, OuterCalls, AgreeCalls, RevokeCalls
     DEF WorkerStep, AgreeStep, RevokeStep, ShmWriteStep, Moves
<1> QED
  BY <1>1, <1>2

-----------------------------------------------------------------------------
(* shmWrite as a whole: as long as no call on the table ran during one, it *)
(* is what it would be in one step.                                        *)

\* Every other call of a worker leaves the table alone, and is not in shmWrite
\* afterwards.
LEMMA NotWriting ==
    ASSUME IndInv, NEW i \in Conn, WorkerStep(i), ~ ShmWriteStep(i)
    PROVE  /\ shm' = shm
           /\ work'[i].pc \notin {"freeSlot", "copy"}
           /\ met => met'
<1>1. /\ shm' = shm
      /\ work'[i].pc \notin {"freeSlot", "copy"}
  BY ReceiveCall, OuterCalls, AgreeCalls, RevokeCalls
     DEF WorkerStep, AgreeStep, RevokeStep, Moves, Quiet
<1>2. met => met'
  BY DEF WorkerStep, AgreeStep, RevokeStep, Receive, QueryNode, CheckId, Send, Check,
     AgreeAccept, AgreeReject, SelectKey, DecideUpdate, DecideInsert, SelectMax,
     TakeId, UpdateRows, InsertRow, RevokeAccept, RevokeReject, RevokeDb, Enters
<1> QED
  BY <1>1, <1>2

\* What the worker inside shmWrite has found out stays true.
LEMMA WriteNext == IndInv /\ WriteOK /\ [Next]_vars => WriteOK'
<1> SUFFICES ASSUME IndInv, WriteOK, [Next]_vars PROVE WriteOK'
  OBVIOUS
<1>1. ASSUME NEW i \in Conn, WorkerStep(i)
      PROVE  WriteOK'
  <2> DEFINE c == work[i].node.clientID
             OneInside == \A j, k \in Writing' : j = k
             Found(j) == IF work'[j].pc = "freeSlot"
                         THEN SlotsOf(shm', work'[j].node.clientID) = {}
                         ELSE work'[j].slot = Target(shm', work'[j].node.clientID)
  <2>0. up' = "up" /\ \A j \in Conn \ {i} : work'[j] = work[j]
    BY <1>1, OneMoves
  <2>1. SUFFICES ASSUME ~ met'
                 PROVE  OneInside /\ \A j \in Writing' : Found(j)
    BY <2>0 DEF WriteOK
  <2>2. CASE ~ ShmWriteStep(i)
    <3>1. shm' = shm /\ ~ met /\ work'[i].pc \notin {"freeSlot", "copy"}
      BY <1>1, <2>1, <2>2, NotWriting
    <3>2. \A j \in Writing' : j \in Writing /\ work'[j] = work[j]
      BY <2>0, <3>1 DEF Writing
    <3> QED
      BY <3>1, <3>2 DEF WriteOK
  <2>3. CASE OwnSlot(i)
    <3>1. ~ met /\ Writing = {} /\ shm' = shm
      BY <2>1, <2>3 DEF OwnSlot, Enters
    <3>2. \A j \in Writing' : j = i
      BY <2>0, <3>1 DEF Writing
    <3>3. /\ work'[i].node = work[i].node
          /\ work'[i].pc = IF SlotsOf(shm, c) = {} THEN "freeSlot" ELSE "copy"
          /\ SlotsOf(shm, c) # {} => work'[i].slot = First(SlotsOf(shm, c))
      BY <2>3, WriteCalls DEF Moves
    <3>4. Found(i)
      BY <3>1, <3>3 DEF Target, WriteSlots
    <3> QED
      BY <3>2, <3>4
  <2>4. CASE FreeSlot(i)
    <3>1. ~ met /\ shm' = shm /\ work[i].pc = "freeSlot"
      BY <2>1, <2>4 DEF FreeSlot, At
    <3>2. i \in Writing /\ \A j \in Writing : j = i
      BY <3>1 DEF WriteOK, Writing
    <3>3. \A j \in Writing' : j = i
      BY <2>0, <3>2 DEF Writing
    <3>4. /\ work'[i].node = work[i].node /\ work'[i].pc = "copy"
          /\ work'[i].slot = IF FreeSlots(shm) = {} THEN 0 ELSE First(FreeSlots(shm))
      BY <2>4, WriteCalls DEF Moves
    <3>5. SlotsOf(shm, c) = {}
      BY <3>1, <3>2 DEF WriteOK
    <3>6. Found(i)
      BY <3>1, <3>4, <3>5 DEF Target, WriteSlots
    <3> QED
      BY <3>3, <3>6
  <2>5. CASE Copy(i)
    <3>1. ~ met /\ i \in Writing
      BY <2>1, <2>5 DEF Copy, At, Writing
    <3>2. work'[i].pc \notin {"freeSlot", "copy"}
      BY <2>5, WriteCalls DEF Moves
    <3>3. Writing' = {}
      BY <2>0, <3>1, <3>2 DEF Writing, WriteOK
    <3> QED
      BY <3>3
  <2> QED
    BY <2>2, <2>3, <2>4, <2>5 DEF ShmWriteStep
<1>2. CASE StartUp
  <2>1. UNCHANGED work /\ Serving = {}
    BY <1>2 DEF StartUp, Boot, LoadRow, Listen, WriteOK
  <2>2. Serving' = {} /\ Writing' = {}
    BY <2>1 DEF Serving, Writing
  <2> QED
    BY <2>2 DEF WriteOK
<1>3. CASE Crash
  <2>1. Serving' = {} /\ Writing' = {}
    BY <1>3 DEF Crash, Idle, Serving, Writing
  <2> QED
    BY <2>1 DEF WriteOK
<1>4. CASE UNCHANGED serverVars
  BY <1>4 DEF serverVars, WriteOK, Serving, Writing, Target
<1> QED
  BY <1>1, <1>2, <1>3, <1>4, Kinds

\* Whatever the number of workers and whatever the faults: as long as no call on
\* the table ran during a shmWrite, one worker at a time is in one, a worker that
\* found no slot of its client still finds none, and the slot that a worker is
\* about to copy to is the one that shmWrite should choose.
THEOREM WriteInvariance == Spec => []WriteOK
<1>1. Init => WriteOK
  BY DEF Init, ServerInit, Idle, WriteOK, Serving, Writing
<1> QED
  BY <1>1, WriteNext, Invariance, PTL DEF Spec

\* So the copy completes a shmWrite of the worker's node, which belongs to the
\* client it serves, or is empty.
LEMMA CopyWrites ==
    ASSUME IndInv, WriteOK, ~ met, NEW i \in Conn, Copy(i)
    PROVE  /\ shm' = ShmWrite(shm, work[i].node)
           /\ work[i].node \in NodeSHMInfo
           /\ work[i].node.clientID \in {NameOf(i), NoClient}
           /\ Agrees(i) => work[i].node.clientID = NameOf(i)
<1> DEFINE c == work[i].node.clientID
           W == WriteSlots(shm, c)
<1>1. work[i].pc = "copy" /\ i \in Writing
  BY DEF Copy, At, Writing
<1>2. work[i].slot = IF W = {} THEN 0 ELSE First(W)
  BY <1>1 DEF WriteOK, Target
<1>3. /\ MaxNode \in Nat /\ DOMAIN shm = 1..MaxNode
      /\ shm' = [k \in 1..MaxNode |->
                   IF k = work[i].slot THEN work[i].node ELSE shm[k]]
  BY Busy, WriteCalls, Constants
<1>4. shm' = ShmWrite(shm, work[i].node)
  <2> HIDE DEF W
  <2>1. \A k \in 1..MaxNode : k = work[i].slot <=> W # {} /\ k = First(W)
    BY <1>2, <1>3
  <2>2. shm' = [k \in 1..MaxNode |->
                 IF W # {} /\ k = First(W) THEN work[i].node ELSE shm[k]]
    BY <1>3, <2>1
  <2> QED
    BY <1>3, <2>2 DEF ShmWrite, W
<1>5. /\ work[i].node \in NodeSHMInfo
      /\ work[i].node.clientID \in {NameOf(i), NoClient}
      /\ Agrees(i) => work[i].node.clientID = NameOf(i)
  BY <1>1, Busy DEF WorkerOK, WritePc, NameOf, Agrees
<1> QED
  BY <1>4, <1>5

-----------------------------------------------------------------------------
(* What the table promises its clients, whatever the number of workers,    *)
(* slots and clients and under every fault, as long as no call on it ran   *)
(* during a shmWrite: a client has one slot, and nobody but its own        *)
(* workers changes it while the server runs.                               *)

\* Two steps reach the table, the copy of a worker and the constructor; and only
\* the constructor's process begins with no calls that met.
LEMMA WhoWrites ==
    ASSUME IndInv, [Next]_vars
    PROVE  /\ shm' # shm => StartUp \/ \E i \in Conn : Copy(i)
           /\ met => met' \/ Boot
<1>1. ASSUME NEW i \in Conn, WorkerStep(i), ~ Copy(i)
      PROVE  shm' = shm /\ (met => met')
  <2>1. CASE OwnSlot(i)
    BY <2>1 DEF OwnSlot, Enters
  <2>2. CASE FreeSlot(i)
    BY <2>2 DEF FreeSlot
  <2> QED
    BY <1>1, <2>1, <2>2, NotWriting DEF ShmWriteStep
<1>2. ASSUME NEW i \in Conn, Copy(i)
      PROVE  met' = met
  BY <1>2 DEF Copy
<1>3. CASE StartUp
  BY <1>3 DEF StartUp, Boot, LoadRow, Listen
<1>4. CASE Crash
  BY <1>4 DEF Crash
<1>5. CASE UNCHANGED serverVars
  BY <1>5 DEF serverVars
<1> QED
  BY <1>1, <1>2, <1>3, <1>4, <1>5, Kinds

\* As long as no call on the server's table ran during a shmWrite, it never holds
\* two slots of one client, however many workers interleave between their calls:
\* shmWrite looks for the client's slot before it takes a free one, and the
\* constructor zeroes what an earlier process left.
THEOREM OneSlot == Spec => []OneSlotPerClient
<1>1. Init => OneSlotPerClient
  BY ZeroTableType, Constants DEF Init, ServerInit, OneSlotPerClient
<1>2. ASSUME IndInv, WriteOK, OneSlotPerClient, [Next]_vars
      PROVE  OneSlotPerClient'
  <2> USE <1>2
  <2>0. SUFFICES ASSUME ~ met' PROVE OneSlotEach(shm')
    BY DEF OneSlotPerClient
  <2>1. IsTable(shm, MaxNode)
    BY DEF IndInv, TypeOK, ServerTypeOK, IsTable
  <2>2. CASE Boot
    BY <2>2, ZeroTableType, Constants DEF Boot
  <2>3. CASE ~ Boot
    <3>1. ~ met /\ OneSlotEach(shm)
      BY <2>0, <2>3, WhoWrites DEF OneSlotPerClient
    <3>2. ASSUME NEW node \in NodeSHMInfo, shm' = ShmWrite(shm, node)
          PROVE  OneSlotEach(shm')
      BY <2>1, <3>1, <3>2, ShmWriteOneSlot, Constants
    <3>3. CASE shm' = shm
      BY <3>1, <3>3
    <3>4. CASE LoadRow
      <4>1. PICK r \in todo :
              shm' = ShmWrite(shm, [status |-> r.state, seckeyID |-> r.keyid,
                                    clientID |-> r.clientid, seckey |-> r.seckey])
        BY <3>4 DEF LoadRow
      <4>2. [status |-> r.state, seckeyID |-> r.keyid, clientID |-> r.clientid,
             seckey |-> r.seckey] \in NodeSHMInfo
        BY DEF IndInv, TypeOK, ServerTypeOK, Row, NodeSHMInfo
      <4> QED
        BY <3>2, <4>1, <4>2
    <3>5. CASE \E i \in Conn : Copy(i)
      BY <3>1, <3>2, <3>5, CopyWrites
    <3> QED
      BY <2>3, <3>3, <3>4, <3>5, WhoWrites DEF StartUp, Listen
  <2> QED
    BY <2>2, <2>3
<1> QED
  BY <1>1, <1>2, Invariance, WriteInvariance, PTL DEF Spec

\* While the server runs, and as long as no call on the table ran during a
\* shmWrite, a step changes the slot of a client only if a worker is serving a
\* request of that client: workers of others, a full table, a crash and whatever
\* the clients do leave it as it is.
THEOREM OthersUntouched == Spec => OtherSlotsUntouched
<1> DEFINE Untouched ==
              up = "up" /\ ~met =>
                 \A c \in Client :
                    (\A i \in Serving : work[i].req.clientId # c)
                        => ShmRead(shm', c) = ShmRead(shm, c)
<1>1. ASSUME IndInv, WriteOK, [Next]_vars
      PROVE  Untouched
  <2> USE <1>1
  <2>1. SUFFICES ASSUME up = "up", ~ met, NEW c \in Client,
                        \A i \in Serving : work[i].req.clientId # c
                 PROVE  ShmRead(shm', c) = ShmRead(shm, c)
    OBVIOUS
  <2>2. CASE shm' = shm
    BY <2>2
  <2>3. ASSUME NEW i \in Conn, Copy(i)
        PROVE  ShmRead(shm', c) = ShmRead(shm, c)
    <3>1. i \in Serving
      BY <2>3 DEF Serving, Copy, At
    <3>2. c \notin {NameOf(i), NoClient}
      BY <2>1, <3>1, Constants DEF NameOf
    <3>3. /\ work[i].node \in NodeSHMInfo /\ work[i].node.clientID \in {NameOf(i), NoClient}
          /\ shm' = ShmWrite(shm, work[i].node)
      BY <2>1, <2>3, CopyWrites
    <3> QED
      BY <3>2, <3>3, ShmWriteOthers, Busy, Constants
  <2>4. ~StartUp
    BY <2>1 DEF StartUp, Boot, LoadRow, Listen
  <2> QED
    BY <2>2, <2>3, <2>4, WhoWrites
<1>2. Spec => [][Untouched]_vars
  BY <1>1, Invariance, WriteInvariance, PTL DEF Spec
<1> QED
  BY <1>2 DEF OtherSlotsUntouched

-----------------------------------------------------------------------------
(* One worker at a time.                                                   *)


\* The one that moves is the one that is served, and the server is up.
LEMMA Turn ==
    ASSUME MaxWorkers = 1, IndInv, Alone, NEW i \in Conn, WorkerStep(i)
    PROVE  /\ up = "up" /\ up' = "up" /\ todo' = todo
           /\ \A j \in Conn \ {i} : work[j].pc = "idle" /\ work'[j] = work[j]
           /\ Receive(i) => work[i].pc = "idle"
<1>1. CASE Receive(i)
  <2>1. Serving = {}
    <3>1. SUFFICES ASSUME NEW j \in Serving PROVE FALSE
      OBVIOUS
    <3>2. Serving = {j}
      BY DEF Alone
    <3>3. Cardinality(Serving) = 1
      BY <3>2, FS_Singleton
    <3> QED
      BY <1>1, <3>3 DEF Receive
  <2> QED
    BY <1>1, <2>1, ReceiveCall DEF Serving
<1>2. CASE ~ Receive(i)
  <2>1. /\ work[i].pc # "idle"
        /\ up = "up" /\ up' = "up" /\ todo' = todo
        /\ \A j \in Conn \ {i} : work'[j] = work[j]
    BY <1>2, OneMoves
  <2>2. \A j \in Conn \ {i} : work[j].pc = "idle"
    BY <2>1 DEF Alone, Serving
  <2> QED
    BY <1>2, <2>1, <2>2
<1> QED
  BY <1>1, <1>2

\* A worker that is alone meets nobody on the table.
LEMMA NoMeeting ==
    ASSUME Alone, ~ met, NEW i \in Conn, WorkerStep(i)
    PROVE  ~ met'
<1>1. ASSUME work[i].pc \notin {"idle", "freeSlot", "copy"}
      PROVE  Writing = {}
  BY <1>1 DEF Alone, Serving, Writing
<1>2. CASE OwnSlot(i) \/ Check(i) \/ RevokeAccept(i) \/ RevokeReject(i)
  <2>1. /\ work[i].pc \in {"ownSlot", "check", "revoke"}
        /\ met' = (met \/ Writing # {})
    BY <1>2 DEF OwnSlot, Check, RevokeAccept, RevokeReject, At, Enters
  <2> QED
    BY <1>1, <2>1
<1>3. CASE ~ (OwnSlot(i) \/ Check(i) \/ RevokeAccept(i) \/ RevokeReject(i))
  BY <1>3 DEF WorkerStep, AgreeStep, RevokeStep, ShmWriteStep, Receive, QueryNode,
     CheckId, Send, AgreeAccept, AgreeReject, SelectKey, DecideUpdate, DecideInsert,
     SelectMax, TakeId, UpdateRows, InsertRow, RevokeDb, FreeSlot, Copy
<1> QED
  BY <1>2, <1>3

\* Nobody joins the one that is served.
LEMMA StaysAlone ==
    ASSUME MaxWorkers = 1, IndInv, Alone, OnlyUp, ~ met, [Next]_vars
    PROVE  Alone' /\ OnlyUp' /\ ~ met'
<1>1. ASSUME NEW i \in Conn, WorkerStep(i)
      PROVE  Alone' /\ OnlyUp' /\ ~ met'
  BY <1>1, Turn, NoMeeting DEF Alone, OnlyUp, Serving
<1>2. CASE StartUp
  <2>1. UNCHANGED work /\ up # "up" /\ ~ met'
    BY <1>2 DEF StartUp, Boot, LoadRow, Listen
  <2> QED
    BY <2>1 DEF Alone, OnlyUp, Serving
<1>3. CASE Crash
  BY <1>3 DEF Crash, Idle, Alone, OnlyUp, Serving
<1>4. CASE UNCHANGED serverVars
  BY <1>4 DEF serverVars, Alone, OnlyUp, Serving
<1> QED
  BY <1>1, <1>2, <1>3, <1>4, Kinds

-----------------------------------------------------------------------------
(* An unregistered client gets nothing into either store.                  *)

\* The answer to the question whether the client is in secnode is still there
\* when the worker that asked reads it.
Asked ==
    \A i \in Conn : work[i].pc = "checkId" =>
        res = [by |-> i, val |-> IF NameOf(i) \in Registered THEN 1 ELSE 0]

\* A worker that went past the question serves a registered client.
Passed == \A i \in Conn : work[i].pc \in Past => NameOf(i) \in Registered

RowNames == \A r \in db \cup todo : r.clientid \in Registered

SlotNames == \A k \in 1..MaxNode : shm[k].clientID \in Registered \cup {NoClient}

AloneOK == Alone /\ OnlyUp /\ ~ met /\ Asked /\ Passed /\ RowNames /\ SlotNames

\* A write for a registered client, or of an empty node, keeps the names.
LEMMA WriteNames ==
    ASSUME IndInv, SlotNames, NEW node, node.clientID \in Registered \cup {NoClient},
           shm' = ShmWrite(shm, node)
    PROVE  SlotNames'
<1>1. DOMAIN shm = 1..MaxNode
  BY Busy DEF IndInv, TypeOK, ServerTypeOK
<1> QED
  BY <1>1 DEF SlotNames, ShmWrite

\* What shmRead yields of such a table.
LEMMA ReadName ==
    ASSUME IndInv, NEW c
    PROVE  /\ ShmRead(shm, c) \in NodeSHMInfo
           /\ ShmRead(shm, c).clientID \in {c, NoClient}
<1>1. IsTable(shm, MaxNode)
  BY DEF IndInv, TypeOK, ServerTypeOK, IsTable
<1> QED
  BY <1>1, ShmReadType, ShmReadOwner, Constants

\* A worker past the question, in the middle of its request or at its end.
LEMMA PastCalls ==
    ASSUME IndInv, WriteOK, ~ met, Passed, RowNames, SlotNames, NEW i \in Conn,
           AgreeStep(i) \/ RevokeStep(i) \/ Check(i) \/ ShmWriteStep(i)
    PROVE  /\ work[i].pc \in Past /\ work'[i].pc \in Past \cup {"send"}
           /\ NameOf(i)' = NameOf(i)
           /\ RowNames' /\ SlotNames'
<1>1. /\ work[i].pc \in Past /\ work'[i].pc \in Past \cup {"send"}
      /\ NameOf(i)' = NameOf(i) /\ todo' = todo
  <2>1. CASE AgreeStep(i) \/ RevokeStep(i) \/ Check(i)
    BY <2>1, AgreeCalls, RevokeCalls DEF AgreeStep, RevokeStep, Moves, Past, Pc
  <2>2. CASE ShmWriteStep(i)
    BY <2>2, WriteCalls DEF ShmWriteStep, Moves, Past, Pc
  <2> QED
    BY <2>1, <2>2
<1>2. NameOf(i) \in Registered
  BY <1>1 DEF Passed
<1>3. SlotNames'
  <2>1. CASE shm' = shm
    BY <2>1 DEF SlotNames
  <2>2. CASE Copy(i)
    BY <1>2, <2>2, CopyWrites, WriteNames
  <2> QED
    BY <2>1, <2>2, AgreeCalls, RevokeCalls, WriteCalls
       DEF AgreeStep, RevokeStep, ShmWriteStep, Quiet
<1>4. RowNames'
  <2>1. CASE db' = db
    BY <1>1, <2>1 DEF RowNames
  <2>2. ASSUME \A r \in db' : \E q \in db : r.clientid = q.clientid
        PROVE  RowNames'
    BY <1>1, <2>2 DEF RowNames
  <2>3. CASE UpdateRows(i)
    <3>1. \A r \in db : [r EXCEPT !.state = 1, !.seckey = work[i].node.seckey].clientid
                          = r.clientid
      BY Busy DEF Row
    <3> QED
      BY <2>1, <2>2, <2>3, <3>1 DEF UpdateRows
  <2>4. CASE RevokeDb(i)
    <3>1. \A r \in db : [r EXCEPT !.state = 0].clientid = r.clientid
      BY Busy DEF Row
    <3> QED
      BY <2>1, <2>2, <2>4, <3>1 DEF RevokeDb
  <2>5. CASE InsertRow(i)
    BY <1>1, <1>2, <2>5 DEF InsertRow, RowNames, NameOf
  <2> QED
    BY <2>1, <2>3, <2>4, <2>5, AgreeCalls, RevokeCalls, WriteCalls
       DEF AgreeStep, RevokeStep, ShmWriteStep, Quiet
<1> QED
  BY <1>1, <1>3, <1>4

\* The question is answered by what secnode holds.
LEMMA LetIn ==
    ASSUME IndInv, Asked, NEW i \in Conn, CheckId(i), work'[i].pc # "send"
    PROVE  NameOf(i)' \in Registered
<1>1. work[i].pc = "checkId" /\ NameOf(i)' = NameOf(i) /\ \E rows \in Read(i) : rows > 0
  BY OuterCalls DEF Moves
<1> QED
  BY <1>1 DEF Asked, Read

LEMMA AloneNext ==
    ASSUME MaxWorkers = 1, IndInv, WriteOK, AloneOK, [Next]_vars
    PROVE  AloneOK'
<1>0. Alone' /\ OnlyUp' /\ ~ met'
  BY StaysAlone DEF AloneOK
<1>1. ASSUME NEW i \in Conn, WorkerStep(i)
      PROVE  Asked' /\ Passed' /\ RowNames' /\ SlotNames'
  <2>1. /\ todo' = todo
        /\ \A j \in Conn \ {i} : work'[j].pc = "idle"
    BY <1>1, Turn DEF AloneOK
\* The other workers are idle, so only worker i counts.
  <2>2. ASSUME work'[i].pc = "checkId" =>
                   res' = [by |-> i,
                           val |-> IF NameOf(i)' \in Registered THEN 1 ELSE 0],
               work'[i].pc \in Past => NameOf(i)' \in Registered
        PROVE  Asked' /\ Passed'
    BY <2>1, <2>2 DEF Asked, Passed, NameOf, Past
  <2>3. Quiet => RowNames' /\ SlotNames'
    BY <2>1 DEF AloneOK, Quiet, RowNames, SlotNames
  <2>4. CASE Receive(i)
    BY <2>2, <2>3, <2>4, ReceiveCall DEF Past
  <2>5. CASE QueryNode(i)
    BY <2>2, <2>3, <2>5, OuterCalls DEF Moves, Past
  <2>6. CASE CheckId(i)
    <3>1. Quiet /\ work'[i].pc # "checkId"
      BY <2>6, OuterCalls DEF Moves
    <3>2. work'[i].pc \in Past => NameOf(i)' \in Registered
      BY <2>6, LetIn DEF Past, AloneOK
    <3> QED
      BY <2>2, <2>3, <3>1, <3>2
  <2>7. CASE Send(i)
    BY <2>2, <2>3, <2>7, OuterCalls DEF Past
  <2>8. CASE AgreeStep(i) \/ RevokeStep(i) \/ Check(i) \/ ShmWriteStep(i)
    <3>1. /\ work[i].pc \in Past /\ work'[i].pc \in Past \cup {"send"}
          /\ NameOf(i)' = NameOf(i)
          /\ RowNames' /\ SlotNames'
      BY <2>8, PastCalls DEF AloneOK
    <3> QED
      BY <2>2, <3>1 DEF AloneOK, Passed, Past
  <2> QED
    BY <1>1, <2>4, <2>5, <2>6, <2>7, <2>8 DEF WorkerStep
<1>2. CASE StartUp
  <2>1. /\ UNCHANGED <<work, db>> /\ up # "up"
        /\ todo' \subseteq todo \cup db
    BY <1>2 DEF StartUp, Boot, LoadRow, Listen
  <2>2. \A i \in Conn : work[i].pc = "idle"
    BY <2>1 DEF AloneOK, OnlyUp, Serving
  <2>3. Asked' /\ Passed' /\ RowNames'
    BY <2>1, <2>2 DEF AloneOK, Asked, Passed, RowNames, Past
  <2>4. SlotNames'
    <3>1. CASE Boot
      BY <3>1 DEF Boot, SlotNames, ZeroTable, Zero
    <3>2. CASE LoadRow
      <4>1. PICK r \in todo :
              shm' = ShmWrite(shm, [status |-> r.state, seckeyID |-> r.keyid,
                                    clientID |-> r.clientid, seckey |-> r.seckey])
        BY <3>2 DEF LoadRow
      <4> QED
        BY <4>1, WriteNames DEF AloneOK, RowNames
    <3>3. CASE Listen
      BY <3>3 DEF Listen, AloneOK, SlotNames
    <3> QED
      BY <1>2, <3>1, <3>2, <3>3 DEF StartUp
  <2> QED
    BY <1>0, <2>3, <2>4 DEF AloneOK
<1>3. CASE Crash
  <2>1. /\ \A i \in Conn : work'[i].pc = "idle"
        /\ UNCHANGED <<db, shm>> /\ todo' = {}
    BY <1>3 DEF Crash, Idle
  <2> QED
    BY <1>0, <2>1 DEF AloneOK, Asked, Passed, RowNames, SlotNames, Past
<1>4. CASE UNCHANGED serverVars
  BY <1>0, <1>4 DEF serverVars, AloneOK, Asked, Passed, RowNames, SlotNames, NameOf
<1> QED
  BY <1>0, <1>1, <1>2, <1>3, <1>4, Kinds DEF AloneOK

LEMMA AloneInit == Init => AloneOK
<1>1. Init => \A i \in Conn : work[i].pc = "idle"
  BY DEF Init, ServerInit, Idle
<1>2. Init => db = {} /\ todo = {} /\ shm = ZeroTable(MaxNode) /\ ~ met
  BY DEF Init, ServerInit
<1> QED
  BY <1>1, <1>2 DEF AloneOK, Alone, OnlyUp, Serving, Asked, Passed, RowNames,
     SlotNames, Past, ZeroTable, Zero

\* What the proofs below build on.
AloneSafe == IndInv /\ WriteOK /\ OneSlotPerClient /\ AloneOK

LEMMA AlwaysAlone ==
    ASSUME MaxWorkers = 1
    PROVE  Spec => []AloneSafe
<1>1. Spec => []AloneOK
  BY AloneInit, AloneNext, Invariance, WriteInvariance, PTL DEF Spec
<1>2. IndInv /\ WriteOK /\ OneSlotPerClient /\ AloneOK => AloneSafe
  BY DEF AloneSafe
<1> QED
  BY <1>1, <1>2, Invariance, WriteInvariance, OneSlot, PTL

\* Requests that do not overlap: the question for the client's row in secnode
\* is answered to the worker that asked, so a client that is not in the table
\* gets neither a slot nor a row, whatever crashes, comes late or is replayed
\* from a stale buffer.
THEOREM Unregistered ==
    ASSUME MaxWorkers = 1
    PROVE  Spec => []UnregisteredRefused
<1>1. ASSUME AloneSafe
      PROVE  UnregisteredRefused
  <2>1. DOMAIN shm = 1..MaxNode
    BY <1>1 DEF AloneSafe, IndInv, TypeOK, ServerTypeOK
  <2> QED
    BY <1>1, <2>1, Constants
       DEF AloneSafe, AloneOK, RowNames, SlotNames, UnregisteredRefused, SlotsOf, RowsOf
<1> QED
  BY <1>1, AlwaysAlone, PTL

-----------------------------------------------------------------------------
(* What a call reads after it wrote.                                       *)

\* shmRead after shmWrite of the same client: what was written, unless there
\* was no space.
LEMMA WriteRead ==
    ASSUME NEW n \in Nat, NEW t, IsTable(t, n), OneSlotEach(t),
           NEW node \in NodeSHMInfo, node.clientID \in Client
    PROVE  \/ ShmRead(ShmWrite(t, node), node.clientID) = node
           \/ ShmWrite(t, node) = t
<1>1. CASE WriteSlots(t, node.clientID) # {}
  BY <1>1, ShmReadAfterWrite
<1>2. CASE WriteSlots(t, node.clientID) = {}
  BY <1>2 DEF ShmWrite, IsTable
<1> QED
  BY <1>1, <1>2

\* What a revocation took from the table and writes back is read afterwards,
\* also when it took zeroes.
LEMMA WriteBack ==
    ASSUME NEW n \in Nat, NEW t, IsTable(t, n), OneSlotEach(t), NEW c \in Client,
           NEW node, node = [ShmRead(t, c) EXCEPT !.status = 0]
    PROVE  /\ node \in NodeSHMInfo
           /\ node.status = 0
           /\ node.clientID \in {c, NoClient}
           /\ ShmRead(ShmWrite(t, node), c) = node
<1>1. ShmRead(t, c) \in NodeSHMInfo
  BY ShmReadType
<1>2. node \in NodeSHMInfo /\ node.status = 0 /\ node.clientID = ShmRead(t, c).clientID
  BY <1>1 DEF NodeSHMInfo
<1>3. CASE SlotsOf(t, c) = {}
  <2>1. ShmRead(t, c) = Zero
    BY <1>3 DEF ShmRead
  <2>2. node = Zero
    BY <2>1 DEF Zero
  <2>3. node.clientID = NoClient /\ c # NoClient
    BY <2>2, Constants DEF Zero
  <2> QED
    BY <1>2, <2>1, <2>2, <2>3, ShmWriteOthers
<1>4. CASE SlotsOf(t, c) # {}
  <2>1. First(SlotsOf(t, c)) \in SlotsOf(t, c)
    BY <1>4, WriteSlotsInTable
  <2>2. ShmRead(t, c).clientID = c
    BY <1>4, <2>1 DEF ShmRead, SlotsOf
  <2>3. WriteSlots(t, c) # {}
    BY <1>4 DEF WriteSlots
  <2> QED
    BY <1>2, <2>2, <2>3, ShmReadAfterWrite
<1> QED
  BY <1>3, <1>4

\* A zeroed table holds nothing of anybody.
LEMMA ReadZeroes ==
    ASSUME NEW n \in Nat, NEW c \in Client
    PROVE  ShmRead(ZeroTable(n), c) = Zero
BY Constants DEF ShmRead, SlotsOf, ZeroTable, Zero

\* A statement changes the rows of one client.
LEMMA OtherRows ==
    ASSUME IndInv, NEW i \in Conn, UpdateRows(i) \/ InsertRow(i) \/ RevokeDb(i),
           NEW d, d # NameOf(i)
    PROVE  RowsOf(d)' = RowsOf(d)
<1>1. CASE db' = db
  BY <1>1 DEF RowsOf
<1>2. CASE UpdateRows(i) /\ db' # db
  <2>1. \A r \in db : [r EXCEPT !.state = 1, !.seckey = work[i].node.seckey].clientid
                        = r.clientid
    BY Busy DEF Row
  <2>2. db' = {IF r.clientid = NameOf(i)
               THEN [r EXCEPT !.state = 1, !.seckey = work[i].node.seckey]
               ELSE r : r \in db}
    BY <1>2 DEF UpdateRows, NameOf
  <2> QED
    BY <2>1, <2>2 DEF RowsOf
<1>3. CASE RevokeDb(i) /\ db' # db
  <2>1. \A r \in db : [r EXCEPT !.state = 0].clientid = r.clientid
    BY Busy DEF Row
  <2>2. db' = {IF r.clientid = NameOf(i) THEN [r EXCEPT !.state = 0] ELSE r : r \in db}
    BY <1>3 DEF RevokeDb, NameOf
  <2> QED
    BY <2>1, <2>2 DEF RowsOf
<1>4. CASE InsertRow(i) /\ db' # db
  <2>1. db' = db \cup {[clientid |-> NameOf(i), keyid |-> nextId, state |-> 1,
                        seckey |-> work[i].node.seckey]}
    BY <1>4 DEF InsertRow, NameOf
  <2> QED
    BY <2>1 DEF RowsOf
<1> QED
  BY <1>1, <1>2, <1>3, <1>4

\* A call changes the slot of one client.
LEMMA OtherSlots ==
    ASSUME IndInv, WriteOK, ~ met, NEW i \in Conn, WorkerStep(i),
           NEW d \in Client, d # NameOf(i)
    PROVE  ShmRead(shm', d) = ShmRead(shm, d)
<1>1. CASE shm' = shm
  BY <1>1
<1>2. CASE Copy(i)
  BY <1>2, CopyWrites, Busy, ShmWriteOthers, Constants
<1> QED
  BY <1>1, <1>2, NotWriting, WriteCalls DEF ShmWriteStep, Quiet

-----------------------------------------------------------------------------
(* A revocation that was carried out stays carried out.                    *)

\* The rows that start-up still has to copy are rows.
TodoOK == todo \subseteq db /\ (up # "loading" => todo = {})

\* A worker that writes a usable row serves a client whose last change is no
\* revocation; one that is about to write back a node has taken it from the table
\* as it is; one that updates the rows of a revoked key has written the slot.
LastChange ==
    \A i \in Conn :
        /\ work[i].pc \in AgreePc \ {"agree"} => NameOf(i) \notin revoked
        /\ work[i].pc \in WritePc /\ ~ Agrees(i) =>
              work[i].node = [ShmRead(shm, NameOf(i)) EXCEPT !.status = 0]
        /\ work[i].pc = "revokeDb" => ShmRead(shm, NameOf(i)).status = 0

RevokedOK == TodoOK /\ LastChange /\ RevokedStaysRevoked

\* Start-up, and the end of the process, lose no row.
LEMMA TodoNext ==
    ASSUME MaxWorkers = 1, AloneSafe, TodoOK, [Next]_vars
    PROVE  TodoOK'
<1>1. ASSUME NEW i \in Conn, WorkerStep(i)
      PROVE  TodoOK'
  BY <1>1, Turn DEF AloneSafe, AloneOK, TodoOK
<1>2. CASE StartUp
  BY <1>2 DEF StartUp, Boot, LoadRow, Listen, TodoOK
<1>3. CASE Crash
  BY <1>3 DEF Crash, TodoOK
<1>4. CASE UNCHANGED serverVars
  BY <1>4 DEF serverVars, TodoOK
<1> QED
  BY <1>1, <1>2, <1>3, <1>4, Kinds

\* What the state says about a worker's call.
LEMMA State ==
    ASSUME AloneSafe, NEW i \in Conn
    PROVE  /\ IndInv /\ WriteOK /\ ~ met
           /\ Alone /\ IsTable(shm, MaxNode) /\ OneSlotEach(shm)
           /\ db \subseteq Row
           /\ work[i].pc # "idle" => NameOf(i) \in Client
           /\ work[i].pc \in Past => NameOf(i) \in Registered
BY Busy DEF AloneSafe, AloneOK, Passed, NameOf, OneSlotPerClient

\* Only the worker that moved counts: the others are idle.
LEMMA LastChangeStep ==
    ASSUME MaxWorkers = 1, AloneSafe, NEW i \in Conn, WorkerStep(i),
           /\ work'[i].pc \in AgreePc \ {"agree"} => NameOf(i)' \notin revoked'
           /\ work'[i].pc \in WritePc /\ ~ Agrees(i)' =>
                 work'[i].node = [ShmRead(shm', NameOf(i)') EXCEPT !.status = 0]
           /\ work'[i].pc = "revokeDb" => ShmRead(shm', NameOf(i)').status = 0
    PROVE  LastChange'
<1>1. \A j \in Conn \ {i} : work'[j].pc = "idle"
  BY Turn, State
<1> QED
  BY <1>1 DEF LastChange, AgreePc, WritePc, NameOf, Agrees

\* A worker's step brings no revoked key back.
LEMMA WorkerKeepsRevoked ==
    ASSUME MaxWorkers = 1, "dbError" \notin Faults, AloneSafe, RevokedOK,
           NEW i \in Conn, WorkerStep(i)
    PROVE  LastChange' /\ RevokedStaysRevoked'
<1> DEFINE c == NameOf(i)
<1>0. /\ IndInv /\ WriteOK /\ ~ met
      /\ IsTable(shm, MaxNode) /\ OneSlotEach(shm) /\ db \subseteq Row
      /\ work[i].pc # "idle" => c \in Client
      /\ LastChange /\ RevokedStaysRevoked /\ revoked \subseteq Client
      /\ MaxNode \in Nat
  BY State, Constants DEF RevokedOK, AloneSafe, IndInv, TypeOK, ServerTypeOK
\* A step that leaves the stores alone.
<1>1. Quiet => RevokedStaysRevoked'
  BY <1>0 DEF Quiet, RevokedStaysRevoked, RowsOf
<1>2. CASE Receive(i)
  BY <1>1, <1>2, ReceiveCall, LastChangeStep, <1>0 DEF AgreePc, WritePc
<1>3. CASE QueryNode(i) \/ CheckId(i) \/ Send(i) \/ Check(i) \/ AgreeReject(i)
           \/ RevokeReject(i)
  <2>1. Quiet /\ work'[i].pc \notin (AgreePc \ {"agree"}) \cup WritePc \cup {"revokeDb"}
    BY <1>0, <1>3, OuterCalls, AgreeCalls, RevokeCalls DEF Moves, AgreePc, WritePc
  <2> QED
    BY <1>1, <2>1, LastChangeStep
<1>4. CASE AgreeAccept(i)
  <2>1. /\ Moves(i, "agree", "ownSlot") /\ Quiet
        /\ work[i].req.cmdType = "NewOrUpdate"
    BY <1>0, <1>4, AgreeCalls
  <2> QED
    BY <1>1, <2>1, LastChangeStep DEF Moves, Agrees, AgreePc
<1>5. CASE SelectKey(i) \/ DecideUpdate(i) \/ DecideInsert(i) \/ SelectMax(i) \/ TakeId(i)
  <2>1. /\ Quiet /\ work[i].pc \in AgreePc \ {"agree"}
        /\ work'[i].pc \in AgreePc \ {"agree"} /\ NameOf(i)' = c
    BY <1>0, <1>5, AgreeCalls DEF Moves, AgreePc
  <2>2. c \notin revoked'
    BY <1>0, <2>1 DEF LastChange, Quiet
  <2> QED
    BY <1>1, <2>1, <2>2, LastChangeStep DEF AgreePc, WritePc
<1>6. CASE UpdateRows(i) \/ InsertRow(i)
  <2>1. /\ work[i].pc \in AgreePc \ {"agree"} /\ work'[i].pc = "send"
        /\ UNCHANGED <<shm, revoked>>
    BY <1>0, <1>6, AgreeCalls DEF Moves, AgreePc
  <2>2. c \notin revoked
    BY <1>0, <2>1 DEF LastChange
  <2>3. \A d \in revoked : RowsOf(d)' = RowsOf(d)
    BY <1>0, <1>6, <2>2, OtherRows
  <2>4. RevokedStaysRevoked'
    BY <1>0, <2>1, <2>3 DEF RevokedStaysRevoked
  <2> QED
    BY <2>1, <2>4, LastChangeStep DEF AgreePc, WritePc
<1>7. CASE RevokeAccept(i)
  <2>1. /\ Moves(i, "revoke", "ownSlot") /\ Quiet
        /\ work'[i].node = [ShmRead(shm, c) EXCEPT !.status = 0]
    BY <1>0, <1>7, RevokeCalls
  <2> QED
    BY <1>1, <2>1, LastChangeStep DEF Moves, Quiet, AgreePc
<1>8. CASE OwnSlot(i) \/ FreeSlot(i)
  <2>1. /\ Quiet /\ NameOf(i)' = c /\ work'[i].node = work[i].node
        /\ work'[i].req = work[i].req
        /\ work[i].pc \in WritePc /\ work'[i].pc \in WritePc
    BY <1>0, <1>8, WriteCalls DEF Moves, WritePc
  <2>2. ~ Agrees(i) => work'[i].node = [ShmRead(shm', NameOf(i)') EXCEPT !.status = 0]
    BY <1>0, <2>1 DEF LastChange, Quiet
  <2> QED
    BY <1>1, <2>1, <2>2, LastChangeStep DEF AgreePc, WritePc, Agrees
<1>10. CASE Copy(i)
  <2>1. /\ Moves(i, "copy", IF Agrees(i) THEN "select" ELSE "revokeDb")
        /\ UNCHANGED <<db, nextId>>
        /\ revoked' = IF Agrees(i) THEN revoked \ {c} ELSE revoked
        /\ shm' = ShmWrite(shm, work[i].node)
    BY <1>0, <1>10, WriteCalls, CopyWrites
  <2>2. c \in Client
    BY <1>0, <2>1 DEF Moves
  <2>3. \A d \in revoked : d # c => ShmRead(shm', d) = ShmRead(shm, d)
    BY <1>0, OtherSlots
  <2>4. CASE Agrees(i)
    <3>1. work'[i].pc = "select" /\ NameOf(i)' \notin revoked'
      BY <2>1, <2>4 DEF Moves
    <3>2. LastChange'
      BY <3>1, LastChangeStep DEF WritePc
    <3>3. RevokedStaysRevoked'
      BY <1>0, <2>1, <2>3, <2>4 DEF RevokedStaysRevoked, RowsOf
    <3> QED
      BY <3>2, <3>3
  <2>5. CASE ~ Agrees(i)
    <3>1. work'[i].pc = "revokeDb" /\ NameOf(i)' = c /\ revoked' = revoked
      BY <2>1, <2>5 DEF Moves
    <3>2. work[i].node = [ShmRead(shm, c) EXCEPT !.status = 0]
      BY <1>0, <2>1, <2>5 DEF Moves, LastChange, WritePc
    <3>3. ShmRead(shm', c).status = 0
      BY <1>0, <2>1, <2>2, <3>2, WriteBack
    <3>4. RevokedStaysRevoked'
      BY <1>0, <2>1, <2>3, <3>1, <3>3 DEF RevokedStaysRevoked, RowsOf
    <3> QED
      BY <3>1, <3>3, <3>4, LastChangeStep DEF AgreePc, WritePc
  <2> QED
    BY <2>4, <2>5
<1>9. CASE RevokeDb(i)
  <2>1. /\ Moves(i, "revokeDb", "send") /\ UNCHANGED <<shm, nextId>>
        /\ revoked' = revoked \cup {c}
    BY <1>0, <1>9, RevokeCalls
  <2>2. ShmRead(shm', c).status = 0
    BY <1>0, <2>1 DEF Moves, LastChange
  <2>3. \A r \in db' : r.clientid = c => r.state = 0
    <3>1. db' = {IF r.clientid = c THEN [r EXCEPT !.state = 0] ELSE r : r \in db}
      BY <1>9 DEF RevokeDb, DbFails, NameOf
    <3>2. \A r \in db : [r EXCEPT !.state = 0].state = 0
      BY <1>0 DEF Row
    <3> QED
      BY <3>1, <3>2
  <2>4. \A d \in revoked : d # c => RowsOf(d)' = RowsOf(d)
    BY <1>0, <1>9, OtherRows
  <2>5. ASSUME NEW d \in revoked'
        PROVE  ShmRead(shm', d).status = 0 /\ \A r \in RowsOf(d)' : r.state = 0
    <3>1. CASE d = c
      BY <2>2, <2>3, <3>1 DEF RowsOf
    <3>2. CASE d # c
      BY <1>0, <2>1, <2>4, <3>2 DEF RevokedStaysRevoked
    <3> QED
      BY <3>1, <3>2
  <2>6. RevokedStaysRevoked'
    BY <2>5 DEF RevokedStaysRevoked
  <2> QED
    BY <2>1, <2>6, LastChangeStep DEF Moves, AgreePc, WritePc
<1> QED
  BY <1>2, <1>3, <1>4, <1>5, <1>6, <1>7, <1>8, <1>9, <1>10
     DEF WorkerStep, AgreeStep, RevokeStep, ShmWriteStep

\* A restart builds the table from the rows, so a revoked key stays revoked.
LEMMA StartUpKeepsRevoked ==
    ASSUME AloneSafe, RevokedOK, StartUp
    PROVE  LastChange' /\ RevokedStaysRevoked'
<1>0. /\ IndInv /\ IsTable(shm, MaxNode) /\ OneSlotEach(shm) /\ db \subseteq Row
      /\ todo \subseteq db /\ RevokedStaysRevoked /\ revoked \subseteq Client
      /\ MaxNode \in Nat
  BY Constants DEF RevokedOK, TodoOK, AloneSafe, AloneOK, OneSlotPerClient, IndInv, TypeOK,
     ServerTypeOK, IsTable
<1>1. UNCHANGED <<db, work, revoked>> /\ up # "up"
  BY DEF StartUp, Boot, LoadRow, Listen
<1>2. LastChange'
  <2>1. \A i \in Conn : work'[i].pc = "idle"
    BY <1>1 DEF AloneSafe, AloneOK, OnlyUp, Serving
  <2> QED
    BY <2>1 DEF LastChange, AgreePc, WritePc
<1>3. \A d \in revoked : ShmRead(shm', d).status = 0
  <2> SUFFICES ASSUME NEW d \in revoked PROVE ShmRead(shm', d).status = 0
    OBVIOUS
  <2>1. d \in Client /\ ShmRead(shm, d).status = 0 /\ \A r \in RowsOf(d) : r.state = 0
    BY <1>0 DEF RevokedStaysRevoked
  <2>2. CASE Boot
    BY <1>0, <2>1, <2>2, ReadZeroes DEF Boot, Zero
  <2>3. CASE LoadRow
    <3>1. PICK r \in todo :
            shm' = ShmWrite(shm, [status |-> r.state, seckeyID |-> r.keyid,
                                  clientID |-> r.clientid, seckey |-> r.seckey])
      BY <2>3 DEF LoadRow
    <3> DEFINE node == [status |-> r.state, seckeyID |-> r.keyid,
                        clientID |-> r.clientid, seckey |-> r.seckey]
    <3>2. r \in Row /\ r \in db
      BY <1>0
    <3>3. /\ node \in NodeSHMInfo /\ node.clientID = r.clientid
          /\ node.clientID \in Client /\ node.status = r.state
      BY <3>2 DEF NodeSHMInfo, Row
    <3>4. shm' = ShmWrite(shm, node)
      BY <3>1
    <3> HIDE DEF node
    <3>5. CASE r.clientid = d
      <4>1. node.status = 0
        BY <2>1, <3>2, <3>3, <3>5 DEF RowsOf
      <4> QED
        BY <1>0, <2>1, <3>3, <3>4, <3>5, <4>1, WriteRead
    <3>6. CASE r.clientid # d
      BY <1>0, <2>1, <3>3, <3>4, <3>6, ShmWriteOthers
    <3> QED
      BY <3>5, <3>6
  <2>4. CASE Listen
    BY <2>1, <2>4 DEF Listen
  <2> QED
    BY <2>2, <2>3, <2>4 DEF StartUp
<1> QED
  BY <1>0, <1>1, <1>2, <1>3 DEF RevokedStaysRevoked, RowsOf

LEMMA RevokedNext ==
    ASSUME MaxWorkers = 1, "dbError" \notin Faults, AloneSafe, RevokedOK, [Next]_vars
    PROVE  RevokedOK'
<1>1. TodoOK'
  BY TodoNext DEF RevokedOK
<1>2. CASE Crash
  <2>1. \A i \in Conn : work'[i].pc = "idle"
    BY <1>2 DEF Crash, Idle
  <2>2. LastChange'
    BY <2>1 DEF LastChange, AgreePc, WritePc
  <2> QED
    BY <1>1, <1>2, <2>2 DEF Crash, RevokedOK, RevokedStaysRevoked, RowsOf
<1>3. CASE UNCHANGED serverVars
  BY <1>1, <1>3 DEF serverVars, RevokedOK, LastChange, NameOf, Agrees,
     RevokedStaysRevoked, RowsOf
<1> QED
  BY <1>1, <1>2, <1>3, Kinds, WorkerKeepsRevoked, StartUpKeepsRevoked DEF RevokedOK

\* Requests that do not overlap and statements that do not fail: what was
\* revoked is unusable in shared memory and in the database until the client
\* agrees on a new key, across crashes between the two writes, restarts, late
\* requests and full tables.
THEOREM RevocationLasts ==
    ASSUME MaxWorkers = 1, "dbError" \notin Faults
    PROVE  Spec => []RevokedStaysRevoked
<1>1. Init => RevokedOK
  BY DEF Init, ServerInit, Idle, RevokedOK, TodoOK, LastChange, AgreePc, WritePc,
     RevokedStaysRevoked
<1>2. RevokedOK => RevokedStaysRevoked
  BY DEF RevokedOK
<1> QED
  BY <1>1, <1>2, RevokedNext, AlwaysAlone, PTL DEF Spec

-----------------------------------------------------------------------------
(* The two stores tell the same.                                           *)

\* The numbers of clients that the table and the column keyid can take.
Enough ==
    /\ MaxWorkers = 1
    /\ "dbError" \notin Faults
    /\ IsFiniteSet(Registered)
    /\ Cardinality(Registered) <= MaxNode
    /\ Cardinality(Registered) <= MaxKeyId

\* What a slot and the rows of its client have in common while the state of
\* the rows is still to be written, and afterwards.
SameKey(slot, R) ==
    IF slot = Zero THEN R = {}
    ELSE \E r \in R : R = {r} /\ r.seckey = slot.seckey

Same(slot, R) ==
    IF slot = Zero THEN R = {}
    ELSE \E r \in R : R = {r} /\ r.seckey = slot.seckey /\ r.state = slot.status

Told(c) == Same(ShmRead(shm, c), RowsOf(c))

Tidy == \A k \in 1..MaxNode : shm[k].clientID = NoClient => shm[k] = Zero

OneRow == \A r, q \in db : r.clientid = q.clientid => r = q

\* An id is taken for every client that has a row, and no other.
Names == {r.clientid : r \in db}

Count == nextId = Cardinality(Names) + 1

\* The rows that start-up has copied.
Copied(c) == {r \in db \ todo : r.clientid = c}

Loading == up = "loading" => \A c \in Client : Same(ShmRead(shm, c), Copied(c))

\* What the one worker knows between its calls.
Halfway ==
    \A i \in Conn :
        /\ work[i].pc \in WritePc /\ Agrees(i) => work[i].node.status = 1
        /\ work[i].pc \in AgreePc \ {"agree"} =>
              /\ ShmRead(shm, NameOf(i)) = work[i].node
              /\ work[i].node.status = 1
              /\ work[i].node.clientID = NameOf(i)
        /\ work[i].pc = "decide" =>
              res.by = i /\ (res.val = 0 <=> RowsOf(NameOf(i)) = {})
        /\ work[i].pc \in {"max", "takeId", "insert"} => RowsOf(NameOf(i)) = {}
        /\ work[i].pc = "update" => RowsOf(NameOf(i)) # {}
        /\ work[i].pc = "revokeDb" =>
              SameKey(ShmRead(shm, NameOf(i)), RowsOf(NameOf(i)))

BothOK == Tidy /\ OneRow /\ Count /\ Loading /\ Halfway /\ StoresAgree

ChangingPc == (AgreePc \ {"agree"}) \cup {"revokeDb"}

\* StoresAgree, said with Told.
LEMMA AgreeIsTold ==
    StoresAgree <=> (up = "up" => \A c \in Client : ~ Changing(c) => Told(c))
BY DEF StoresAgree, Told, Same

\* What shmRead returns is somebody's only if it is the client's.
LEMMA ReadOwn ==
    ASSUME NEW n \in Nat, NEW t, IsTable(t, n), NEW c \in Client
    PROVE  /\ ShmRead(t, c) = Zero <=> SlotsOf(t, c) = {}
           /\ ShmRead(t, c) # Zero => ShmRead(t, c).clientID = c
<1>1. CASE SlotsOf(t, c) = {}
  BY <1>1 DEF ShmRead
<1>2. CASE SlotsOf(t, c) # {}
  <2>1. First(SlotsOf(t, c)) \in SlotsOf(t, c)
    BY <1>2, WriteSlotsInTable
  <2>2. ShmRead(t, c).clientID = c
    BY <1>2, <2>1 DEF ShmRead, SlotsOf
  <2> QED
    BY <1>2, <2>2, Constants DEF Zero
<1> QED
  BY <1>1, <1>2

\* A registered client finds room, and reads what was written for it.
LEMMA RegisteredWrite ==
    ASSUME Enough, AloneSafe, Tidy, NEW node \in NodeSHMInfo,
           node.clientID \in Registered
    PROVE  ShmRead(ShmWrite(shm, node), node.clientID) = node
<1>1. IsTable(shm, MaxNode) /\ OneSlotEach(shm) /\ MaxNode \in Nat
  BY Constants DEF AloneSafe, AloneOK, OneSlotPerClient, IndInv, TypeOK, ServerTypeOK, IsTable
<1>2. WriteSlots(shm, node.clientID) # {}
  BY <1>1, RoomForAll DEF Enough, AloneSafe, AloneOK, SlotNames, Tidy
<1> QED
  BY <1>1, <1>2, ShmReadAfterWrite, Constants

\* A node that is a client's, or zeroes, leaves the table tidy.
LEMMA WriteTidy ==
    ASSUME IsTable(shm, MaxNode), Tidy, NEW node,
           node = Zero \/ node.clientID # NoClient, shm' = ShmWrite(shm, node)
    PROVE  Tidy'
<1>1. DOMAIN shm = 1..MaxNode
  BY DEF IsTable
<1> QED
  BY <1>1 DEF Tidy, ShmWrite

\* The facts that the cases below start from.
LEMMA Facts ==
    ASSUME AloneSafe, NEW i \in Conn
    PROVE  /\ IndInv /\ WriteOK /\ ~ met
           /\ Alone /\ IsTable(shm, MaxNode) /\ OneSlotEach(shm)
           /\ MaxNode \in Nat /\ db \subseteq Row /\ Registered \subseteq Client
           /\ NoClient \notin Client
           /\ work[i].pc # "idle" => NameOf(i) \in Client
           /\ work[i].pc \in Past => NameOf(i) \in Registered
BY State, Constants

\* What a step does to the others: nothing. What is left to show is about the
\* client that is served.
LEMMA OneToShow ==
    ASSUME MaxWorkers = 1, AloneSafe, StoresAgree, NEW i \in Conn, WorkerStep(i),
           NameOf(i)' = NameOf(i), work[i].pc # "idle",
           work'[i].pc \notin ChangingPc => Told(NameOf(i))'
    PROVE  StoresAgree'
<1> DEFINE c == NameOf(i)
<1>0. up = "up" /\ up' = "up" /\ \A j \in Conn \ {i} : work[j].pc = "idle" /\ work'[j] = work[j]
  BY Turn, Facts
<1>1. ASSUME NEW d \in Client, d # c
      PROVE  Told(d)'
  <2>1. ~ Changing(d)
    BY <1>0, <1>1 DEF Changing, Serving, NameOf
  <2>2. Told(d)
    BY <1>0, <2>1, AgreeIsTold
  <2>3. ShmRead(shm', d) = ShmRead(shm, d)
    BY <1>1, Facts, OtherSlots
  <2>4. RowsOf(d)' = RowsOf(d)
    <3>1. CASE UpdateRows(i) \/ InsertRow(i) \/ RevokeDb(i)
      BY <1>1, <3>1, Facts, OtherRows
    <3>2. CASE ~ (UpdateRows(i) \/ InsertRow(i) \/ RevokeDb(i))
      <4>1. db' = db
        <5>1. CASE ShmWriteStep(i)
          BY <5>1, Facts, WriteCalls DEF ShmWriteStep, Quiet
        <5> QED
          BY <3>2, <5>1, Facts, ReceiveCall, OuterCalls, AgreeCalls, RevokeCalls
             DEF WorkerStep, AgreeStep, RevokeStep, Quiet
      <4> QED
        BY <4>1 DEF RowsOf
    <3> QED
      BY <3>1, <3>2
  <2> QED
    BY <2>2, <2>3, <2>4 DEF Told
<1>2. ASSUME ~ Changing(c)'
      PROVE  Told(NameOf(i))'
  <2>1. work'[i].pc \notin ChangingPc
    BY <1>0, <1>2 DEF Changing, Serving, NameOf, ChangingPc, AgreePc
  <2> QED
    BY <2>1
<1>3. ASSUME NEW d \in Client, ~ Changing(d)'
      PROVE  Told(d)'
  <2>1. CASE d = c
    BY <1>2, <1>3, <2>1 DEF Told
  <2> QED
    BY <1>1, <2>1
<1> QED
  BY <1>3, AgreeIsTold DEF StoresAgree, Told, Same

\* Only the worker that moved counts.
LEMMA HalfwayStep ==
    ASSUME MaxWorkers = 1, AloneSafe, NEW i \in Conn, WorkerStep(i),
           /\ work'[i].pc \in WritePc /\ Agrees(i)' => work'[i].node.status = 1
           /\ work'[i].pc \in AgreePc \ {"agree"} =>
                 /\ ShmRead(shm', NameOf(i)') = work'[i].node
                 /\ work'[i].node.status = 1
                 /\ work'[i].node.clientID = NameOf(i)'
           /\ work'[i].pc = "decide" =>
                 res'.by = i /\ (res'.val = 0 <=> RowsOf(NameOf(i))' = {})
           /\ work'[i].pc \in {"max", "takeId", "insert"} => RowsOf(NameOf(i))' = {}
           /\ work'[i].pc = "update" => RowsOf(NameOf(i))' # {}
           /\ work'[i].pc = "revokeDb" =>
                 SameKey(ShmRead(shm', NameOf(i)'), RowsOf(NameOf(i))')
    PROVE  Halfway'
<1>1. \A j \in Conn \ {i} : work'[j].pc = "idle"
  BY Turn, Facts
<1>2. ASSUME NEW j \in Conn \ {i}
      PROVE  work'[j].pc \notin AgreePc \cup WritePc \cup {"revokeDb"}
  BY <1>1 DEF AgreePc, WritePc
<1> QED
  BY <1>2 DEF Halfway, NameOf, RowsOf, AgreePc, SameKey, Agrees

\* The steps that leave the stores alone.
LEMMA QuietCalls ==
    ASSUME Enough, AloneSafe, BothOK, NEW i \in Conn,
           \/ Receive(i) \/ QueryNode(i) \/ CheckId(i) \/ Send(i) \/ Check(i)
           \/ AgreeReject(i) \/ SelectKey(i) \/ DecideUpdate(i) \/ DecideInsert(i)
           \/ SelectMax(i) \/ TakeId(i) \/ RevokeAccept(i) \/ RevokeReject(i)
           \/ AgreeAccept(i) \/ OwnSlot(i) \/ FreeSlot(i)
    PROVE  Quiet /\ Halfway' /\ StoresAgree'
<1> DEFINE c == NameOf(i)
<1>0. /\ IndInv /\ MaxWorkers = 1 /\ Halfway /\ StoresAgree /\ WorkerStep(i)
      /\ Quiet /\ UNCHANGED <<shm, db>>
      /\ RowsOf(c)' = {r \in db : r.clientid = c'}
  <2>1. IndInv /\ WorkerStep(i)
    BY Facts DEF WorkerStep, AgreeStep, RevokeStep, ShmWriteStep
  <2>2. Quiet
    BY <2>1, ReceiveCall, OuterCalls, AgreeCalls, RevokeCalls, WriteCalls
  <2> QED
    BY <2>1, <2>2 DEF Enough, BothOK, Quiet, RowsOf
\* Between two calls of the same request.
<1>1. ASSUME NameOf(i)' = NameOf(i), work[i].pc # "idle",
             work[i].pc \in ChangingPc => work'[i].pc \in ChangingPc
      PROVE  StoresAgree'
  <2>1. ASSUME work[i].pc \notin ChangingPc
        PROVE  Told(NameOf(i))'
    <3>1. ~ Changing(c) /\ c \in Client /\ up = "up"
      BY <1>0, <1>1, <2>1, Turn, Facts DEF Changing, Serving, ChangingPc, AgreePc, NameOf
    <3>2. Told(c)
      BY <1>0, <3>1, AgreeIsTold
    <3> QED
      BY <1>0, <1>1, <3>2 DEF Told, RowsOf
  <2> QED
    BY <1>0, <1>1, <2>1, OneToShow
\* At the ends of a request everything is told.
<1>2. ASSUME \A j \in Conn : work[j].pc \notin ChangingPc,
             \A j \in Conn : work'[j].pc \notin ChangingPc
      PROVE  StoresAgree'
  <2>1. up = "up" /\ \A d \in Client : ~ Changing(d)
    <3>1. up = "up"
      BY <1>0, Turn, Facts
    <3> QED
      BY <1>2, <3>1 DEF Changing, ChangingPc, AgreePc, Serving
  <2>2. \A d \in Client : Told(d)
    BY <1>0, <2>1, AgreeIsTold
  <2>3. \A d \in Client : Told(d)'
    BY <1>0, <2>2 DEF Told, RowsOf
  <2> QED
    BY <2>3, AgreeIsTold DEF StoresAgree, Told, Same
<1>3. CASE Receive(i) \/ Send(i)
  <2>1. /\ work[i].pc \in {"idle", "send"} /\ work'[i].pc \in {"query", "idle"}
        /\ \A j \in Conn \ {i} : work[j].pc = "idle" /\ work'[j].pc = "idle"
    BY <1>0, <1>3, Turn, Facts, ReceiveCall, OuterCalls
  <2>2. \A j \in Conn : /\ work[j].pc \notin ChangingPc
                        /\ work'[j].pc \notin ChangingPc
    BY <2>1 DEF ChangingPc, AgreePc
  <2> QED
    BY <1>0, <1>2, <2>1, <2>2, HalfwayStep DEF AgreePc, WritePc
<1>4. CASE QueryNode(i) \/ CheckId(i) \/ Check(i) \/ AgreeReject(i) \/ RevokeAccept(i)
           \/ RevokeReject(i) \/ OwnSlot(i) \/ FreeSlot(i) \/ AgreeAccept(i)
  <2>1. /\ NameOf(i)' = NameOf(i) /\ work[i].pc # "idle"
        /\ work[i].pc \notin ChangingPc /\ work'[i].pc \notin ChangingPc
        /\ work'[i].pc \notin {"decide", "max", "takeId", "insert", "update", "revokeDb"}
        /\ work'[i].pc \in WritePc /\ Agrees(i)' => work'[i].node.status = 1
    <3>1. CASE OwnSlot(i) \/ FreeSlot(i)
      <4>1. /\ work[i].pc \in WritePc /\ work'[i].pc \in WritePc
            /\ work'[i].node = work[i].node /\ work'[i].req = work[i].req
            /\ NameOf(i)' = NameOf(i)
        BY <1>0, <3>1, WriteCalls DEF Moves, WritePc
      <4> QED
        BY <1>0, <4>1 DEF ChangingPc, AgreePc, WritePc, Halfway, Agrees
    <3>2. CASE AgreeAccept(i)
      BY <1>0, <3>2, AgreeCalls DEF Moves, ChangingPc, AgreePc
    <3>3. CASE RevokeAccept(i)
      BY <1>0, <3>3, RevokeCalls DEF Moves, ChangingPc, AgreePc, Agrees
    <3>4. CASE ~ (OwnSlot(i) \/ FreeSlot(i) \/ AgreeAccept(i) \/ RevokeAccept(i))
      BY <1>0, <1>4, <3>4, OuterCalls, AgreeCalls, RevokeCalls
         DEF Moves, ChangingPc, AgreePc, WritePc
    <3> QED
      BY <3>1, <3>2, <3>3, <3>4
  <2> QED
    BY <1>0, <1>1, <2>1, HalfwayStep DEF ChangingPc
<1>5. CASE SelectKey(i) \/ DecideUpdate(i) \/ DecideInsert(i) \/ SelectMax(i) \/ TakeId(i)
  <2>1. /\ NameOf(i)' = NameOf(i) /\ work'[i].node = work[i].node
        /\ work[i].pc \in AgreePc \ {"agree"} /\ work'[i].pc \in AgreePc \ {"agree"}
    BY <1>0, <1>5, AgreeCalls DEF Moves, AgreePc
  <2>2. StoresAgree'
    BY <1>1, <2>1 DEF ChangingPc, AgreePc
  <2>3. RowsOf(c)' = RowsOf(c)
    BY <1>0, <2>1 DEF RowsOf
  <2>4. /\ ShmRead(shm', NameOf(i)') = work'[i].node
        /\ work'[i].node.status = 1
        /\ work'[i].node.clientID = NameOf(i)'
    BY <1>0, <2>1 DEF Halfway
  <2>5. /\ work'[i].pc = "decide" => res'.by = i /\ (res'.val = 0 <=> RowsOf(NameOf(i)) = {})
        /\ work'[i].pc \in {"max", "takeId", "insert"} => RowsOf(NameOf(i)) = {}
        /\ work'[i].pc = "update" => RowsOf(NameOf(i)) # {}
    <3>1. CASE SelectKey(i)
      BY <1>0, <3>1, AgreeCalls DEF Moves
    <3>2. CASE DecideUpdate(i) \/ DecideInsert(i)
      <4>1. res.by = i /\ (res.val = 0 <=> RowsOf(NameOf(i)) = {})
        BY <1>0, <3>2, AgreeCalls DEF Moves, Halfway
      <4>2. Read(i) = {res.val}
        BY <4>1 DEF Read
      <4> QED
        BY <1>0, <3>2, <4>1, <4>2, AgreeCalls DEF Moves
    <3>3. CASE SelectMax(i) \/ TakeId(i)
      BY <1>0, <3>3, AgreeCalls DEF Moves, Halfway
    <3> QED
      BY <1>5, <3>1, <3>2, <3>3
  <2>6. work'[i].pc # "revokeDb" /\ work'[i].pc \notin WritePc
    BY <2>1 DEF AgreePc, WritePc
  <2> QED
    BY <1>0, <2>2, <2>3, <2>4, <2>5, <2>6, HalfwayStep
<1> QED
  BY <1>0, <1>3, <1>4, <1>5

\* An agreement's copy: the slot is written first, the row has yet to follow.
LEMMA AcceptTells ==
    ASSUME Enough, AloneSafe, BothOK, NEW i \in Conn, Copy(i), Agrees(i)
    PROVE  Tidy' /\ Halfway' /\ StoresAgree'
<1>0. /\ IndInv /\ WriteOK /\ ~ met /\ MaxWorkers = 1 /\ Tidy /\ StoresAgree /\ Halfway
      /\ WorkerStep(i) /\ NoClient \notin Client /\ Registered \subseteq Client
  BY Facts DEF Enough, BothOK, WorkerStep, ShmWriteStep
<1>1. /\ Moves(i, "copy", "select") /\ work'[i].node = work[i].node
      /\ work[i].node \in NodeSHMInfo
      /\ work[i].node.clientID = NameOf(i)
      /\ shm' = ShmWrite(shm, work[i].node)
  BY <1>0, WriteCalls, CopyWrites
<1>2. NameOf(i) \in Registered /\ work[i].node.status = 1
  BY <1>0, <1>1, Facts DEF Moves, Past, Pc, Halfway, WritePc
<1>3. ShmRead(shm', NameOf(i)') = work'[i].node
  BY <1>0, <1>1, <1>2, RegisteredWrite DEF Moves
<1>4. Tidy'
  BY <1>0, <1>1, <1>2, Facts, WriteTidy
<1>5. Halfway'
  BY <1>0, <1>1, <1>2, <1>3, HalfwayStep DEF Moves, WritePc
<1>6. StoresAgree'
  BY <1>0, <1>1, OneToShow DEF Moves, ChangingPc, AgreePc
<1> QED
  BY <1>4, <1>5, <1>6

\* An update reaches the one row of the client, and no other.
LEMMA UpdateTells ==
    ASSUME Enough, AloneSafe, BothOK, NEW i \in Conn, UpdateRows(i)
    PROVE  OneRow' /\ Count' /\ Halfway' /\ StoresAgree'
<1> DEFINE c == NameOf(i)
           key == work[i].node.seckey
           set(r) == [r EXCEPT !.state = 1, !.seckey = key]
           after(r) == IF r.clientid = c THEN set(r) ELSE r
<1>0. /\ IndInv /\ MaxWorkers = 1 /\ OneRow /\ Count /\ Halfway /\ StoresAgree
      /\ WorkerStep(i) /\ db \subseteq Row /\ NoClient \notin Client
  BY Facts DEF Enough, BothOK, WorkerStep, AgreeStep
<1>1. Moves(i, "update", "send") /\ UNCHANGED <<shm, nextId>>
  BY <1>0, AgreeCalls
<1>2. c \in Client
  BY <1>1, Facts DEF Moves
<1>3. db' = {after(r) : r \in db}
  BY DEF UpdateRows, DbFails, Enough, NameOf
<1>4. \A r \in db : /\ after(r).clientid = r.clientid
                    /\ r.clientid = c => after(r).state = 1 /\ after(r).seckey = key
  BY <1>0 DEF Row
<1> HIDE DEF after
<1>5. OneRow'
  BY <1>0, <1>3, <1>4 DEF OneRow
<1>6. Count'
  <2>1. Names' = Names
    BY <1>3, <1>4 DEF Names
  <2> QED
    BY <1>0, <1>1, <2>1 DEF Count
<1>7. /\ ShmRead(shm, c) = work[i].node
      /\ work[i].node.status = 1 /\ work[i].node.clientID = c
      /\ RowsOf(c) # {}
  BY <1>0, <1>1 DEF Moves, Halfway, AgreePc
<1>8. Told(NameOf(i))'
  <2>1. ShmRead(shm', NameOf(i)') = work[i].node /\ work[i].node # Zero
    BY <1>0, <1>1, <1>2, <1>7 DEF Moves, Zero
  <2>2. PICK r \in db : RowsOf(c) = {r} /\ r.clientid = c
    BY <1>0, <1>7 DEF RowsOf, OneRow
  <2>3. \A q \in db : q.clientid = c => q = r
    BY <2>2 DEF RowsOf
  <2>4. RowsOf(NameOf(i))' = {after(r)}
    BY <1>1, <1>3, <1>4, <2>2, <2>3 DEF RowsOf, Moves
  <2>5. after(r).state = 1 /\ after(r).seckey = key
    BY <1>4, <2>2
  <2> QED
    BY <1>7, <2>1, <2>4, <2>5 DEF Told, Same
<1>9. Halfway'
  BY <1>0, <1>1, HalfwayStep DEF Moves, AgreePc, WritePc
<1>10. StoresAgree'
  BY <1>0, <1>1, <1>8, OneToShow DEF Moves
<1> QED
  BY <1>5, <1>6, <1>9, <1>10

\* AUTO_INCREMENT has an id left for every registered client, so the insert
\* goes through.
LEMMA Inserted ==
    ASSUME Enough, AloneSafe, BothOK, NEW i \in Conn, InsertRow(i)
    PROVE  /\ NameOf(i) \in Registered /\ RowsOf(NameOf(i)) = {}
           /\ ShmRead(shm, NameOf(i)) = work[i].node
           /\ work[i].node.status = 1 /\ work[i].node.clientID = NameOf(i)
           /\ Cardinality(Names \cup {NameOf(i)}) = Cardinality(Names) + 1
           /\ Cardinality(Names) \in Nat
           /\ db' = db \cup {[clientid |-> NameOf(i), keyid |-> nextId, state |-> 1,
                              seckey |-> work[i].node.seckey]}
           /\ nextId' = nextId + 1
<1> DEFINE c == NameOf(i)
<1>0. /\ IndInv /\ Count /\ Halfway /\ MaxKeyId \in Nat /\ "dbError" \notin Faults
  BY Facts, Constants DEF Enough, BothOK
<1>1. Moves(i, "insert", "send")
  BY <1>0, AgreeCalls
<1>2. c \in Registered
  BY <1>1, Facts DEF Moves, Past, Pc
<1>3. /\ ShmRead(shm, c) = work[i].node
      /\ work[i].node.status = 1 /\ work[i].node.clientID = c
      /\ RowsOf(c) = {}
  BY <1>0, <1>1 DEF Moves, Halfway, AgreePc
<1>4. c \notin Names
  BY <1>3 DEF RowsOf, Names
\* One id fewer is taken than there are registered clients.
<1>5. /\ Cardinality(Names) \in Nat
      /\ Cardinality(Names \cup {c}) = Cardinality(Names) + 1
      /\ nextId <= MaxKeyId
  <2>1. Names \cup {c} \subseteq Registered /\ Names \subseteq Registered
    BY <1>2 DEF Names, AloneSafe, AloneOK, RowNames
  <2>2. /\ IsFiniteSet(Names) /\ IsFiniteSet(Names \cup {c})
        /\ Cardinality(Names \cup {c}) <= Cardinality(Registered)
    BY <2>1, FS_Subset DEF Enough
  <2>3. Cardinality(Names) \in Nat /\ Cardinality(Registered) \in Nat
    BY <2>2, FS_CardinalityType DEF Enough
  <2>4. Cardinality(Names \cup {c}) = Cardinality(Names) + 1
    BY <1>4, <2>2, FS_AddElement
  <2>5. nextId = Cardinality(Names) + 1 /\ Cardinality(Registered) <= MaxKeyId
    BY <1>0 DEF Count, Enough
  <2> QED
    BY <1>0, <2>2, <2>3, <2>4, <2>5
<1>6. ~ (nextId > MaxKeyId)
  BY <1>0, <1>5 DEF Count
<1>7. c \in Registered /\ ~ DbFails
  BY <1>0, <1>2 DEF DbFails
<1>8. /\ nextId' = nextId + 1
      /\ db' = db \cup {[clientid |-> c, keyid |-> nextId, state |-> 1,
                         seckey |-> work[i].node.seckey]}
  BY <1>6, <1>7 DEF InsertRow, NameOf
<1> QED
  BY <1>2, <1>3, <1>5, <1>8

\* The client has its one row.
LEMMA InsertTells ==
    ASSUME Enough, AloneSafe, BothOK, NEW i \in Conn, InsertRow(i)
    PROVE  OneRow' /\ Count' /\ Halfway' /\ StoresAgree'
<1> DEFINE c == NameOf(i)
           row == [clientid |-> c, keyid |-> nextId, state |-> 1,
                   seckey |-> work[i].node.seckey]
<1>0. /\ IndInv /\ MaxWorkers = 1 /\ OneRow /\ Count /\ Halfway /\ StoresAgree
      /\ WorkerStep(i) /\ db \subseteq Row /\ NoClient \notin Client
      /\ Registered \subseteq Client
  BY Facts, Constants DEF Enough, BothOK, WorkerStep, AgreeStep
<1>1. Moves(i, "insert", "send") /\ UNCHANGED shm
  BY <1>0, AgreeCalls
<1>2. c \in Client
  BY <1>0, Inserted
<1>3. /\ ShmRead(shm, c) = work[i].node
      /\ work[i].node.status = 1 /\ work[i].node.clientID = c
      /\ RowsOf(c) = {}
  BY Inserted
<1>4. /\ Cardinality(Names) \in Nat
      /\ Cardinality(Names \cup {c}) = Cardinality(Names) + 1
  BY Inserted
<1>5. db' = db \cup {row} /\ nextId' = nextId + 1
  BY Inserted
<1>6. OneRow'
  <2>1. \A r \in db : r.clientid # c
    BY <1>3 DEF RowsOf
  <2> QED
    BY <1>0, <1>5, <2>1 DEF OneRow
<1>7. Count'
  <2>1. Names' = Names \cup {c}
    <3>1. row.clientid = c /\ row \in db'
      BY <1>5
    <3>2. Names' = {r.clientid : r \in db'}
      BY DEF Names
    <3>3. db' = db \cup {row}
      BY <1>5
    <3> HIDE DEF row, c
    <3>4. Names' \subseteq Names \cup {c}
      BY <3>1, <3>2, <3>3 DEF Names
    <3>5. Names \cup {c} \subseteq Names'
      BY <3>1, <3>2, <3>3 DEF Names
    <3> QED
      BY <3>4, <3>5
  <2> QED
    BY <1>0, <1>4, <1>5, <2>1 DEF Count
<1>8. Told(NameOf(i))'
  <2>1. ShmRead(shm', NameOf(i)') = work[i].node /\ work[i].node # Zero
    BY <1>0, <1>1, <1>2, <1>3 DEF Moves, Zero
  <2>2. RowsOf(NameOf(i))' = {row}
    <3>1. NameOf(i)' = c
      BY <1>1 DEF Moves
    <3>2. \A r \in db : r.clientid # c
      BY <1>3 DEF RowsOf
    <3>3. RowsOf(NameOf(i))' = {r \in db \cup {row} : r.clientid = c}
      BY <1>5, <3>1 DEF RowsOf
    <3> QED
      BY <3>2, <3>3
  <2>3. row.state = 1 /\ row.seckey = work[i].node.seckey
    OBVIOUS
  <2> QED
    BY <1>3, <2>1, <2>2, <2>3 DEF Told, Same
<1>9. Halfway'
  BY <1>0, <1>1, HalfwayStep DEF Moves, AgreePc, WritePc
<1>10. StoresAgree'
  BY <1>0, <1>1, <1>8, OneToShow DEF Moves
<1> QED
  BY <1>6, <1>7, <1>9, <1>10

\* The slot is revoked first: its key is still that of the row.
LEMMA RevokeCopyTells ==
    ASSUME Enough, AloneSafe, RevokedOK, BothOK, NEW i \in Conn, Copy(i), ~ Agrees(i)
    PROVE  Tidy' /\ Halfway' /\ StoresAgree'
<1> DEFINE c == NameOf(i)
           slot == ShmRead(shm, c)
           node == work[i].node
<1>0. /\ IndInv /\ WriteOK /\ ~ met /\ MaxWorkers = 1 /\ Tidy /\ StoresAgree
      /\ WorkerStep(i) /\ NoClient \notin Client
      /\ IsTable(shm, MaxNode) /\ OneSlotEach(shm) /\ MaxNode \in Nat
  BY Facts DEF Enough, BothOK, WorkerStep, ShmWriteStep
<1>1. /\ Moves(i, "copy", "revokeDb") /\ UNCHANGED <<db, nextId>>
      /\ shm' = ShmWrite(shm, node)
  BY <1>0, WriteCalls, CopyWrites
<1>2. c \in Client
  BY <1>1, Facts DEF Moves
<1>3. node = [slot EXCEPT !.status = 0]
  BY <1>1 DEF Moves, RevokedOK, LastChange, WritePc
<1>4. ShmRead(shm', c) = node
  BY <1>0, <1>1, <1>2, <1>3, WriteBack
<1>5. Told(c)
  <2>1. ~ Changing(c)
    BY <1>0, <1>1, Turn, Facts DEF Changing, Serving, Moves
  <2> QED
    BY <1>0, <1>1, <1>2, <2>1, AgreeIsTold DEF Moves
<1>6. /\ slot \in NodeSHMInfo
      /\ slot # Zero => slot.clientID = c
  BY <1>0, <1>2, ReadOwn, ShmReadType
<1>7. /\ node.clientID = slot.clientID /\ node.seckey = slot.seckey
      /\ slot = Zero => node = Zero
  BY <1>3, <1>6 DEF NodeSHMInfo, Zero
<1>8. c # NoClient
  BY <1>0, <1>2
<1> HIDE DEF slot, node
<1>9. slot # Zero => node # Zero /\ node.clientID # NoClient
  BY <1>6, <1>7, <1>8 DEF Zero
<1>10. SameKey(node, RowsOf(c))
  BY <1>5, <1>7, <1>9 DEF Told, Same, SameKey, slot
<1>11. Tidy'
  BY <1>0, <1>1, <1>7, <1>9, WriteTidy
<1>12. RowsOf(NameOf(i))' = RowsOf(c) /\ ShmRead(shm', NameOf(i)') = node
  BY <1>1, <1>4 DEF RowsOf, Moves
<1>13. Halfway'
  BY <1>0, <1>1, <1>10, <1>12, HalfwayStep DEF Moves, AgreePc, WritePc
<1>14. StoresAgree'
  BY <1>0, <1>1, OneToShow DEF Moves, ChangingPc
<1> QED
  BY <1>11, <1>13, <1>14

\* The row follows.
LEMMA RevokeDbTells ==
    ASSUME Enough, AloneSafe, RevokedOK, BothOK, NEW i \in Conn, RevokeDb(i)
    PROVE  OneRow' /\ Count' /\ Halfway' /\ StoresAgree'
<1> DEFINE c == NameOf(i)
           after(r) == IF r.clientid = c THEN [r EXCEPT !.state = 0] ELSE r
<1>0. /\ IndInv /\ MaxWorkers = 1 /\ OneRow /\ Count /\ Halfway /\ StoresAgree
      /\ WorkerStep(i) /\ db \subseteq Row
  BY Facts DEF Enough, BothOK, WorkerStep, RevokeStep
<1>1. Moves(i, "revokeDb", "send") /\ UNCHANGED <<shm, nextId>>
  BY <1>0, RevokeCalls
<1>2. db' = {after(r) : r \in db}
  BY DEF RevokeDb, DbFails, Enough, NameOf
<1>3. \A r \in db : /\ after(r).clientid = r.clientid
                    /\ r.clientid = c => after(r).state = 0 /\ after(r).seckey = r.seckey
  BY <1>0 DEF Row
<1> HIDE DEF after
<1>4. OneRow'
  BY <1>0, <1>2, <1>3 DEF OneRow
<1>5. Count'
  <2>1. Names' = Names
    BY <1>2, <1>3 DEF Names
  <2> QED
    BY <1>0, <1>1, <2>1 DEF Count
<1>6. SameKey(ShmRead(shm, c), RowsOf(c)) /\ ShmRead(shm, c).status = 0
  BY <1>0, <1>1 DEF Moves, Halfway, RevokedOK, LastChange
<1>7. Told(NameOf(i))'
  <2>1. NameOf(i)' = c /\ ShmRead(shm', c) = ShmRead(shm, c)
    BY <1>1 DEF Moves
  <2>2. RowsOf(NameOf(i))' = {after(r) : r \in RowsOf(c)}
    BY <1>2, <1>3, <2>1 DEF RowsOf
  <2>3. CASE ShmRead(shm, c) = Zero
    BY <1>6, <2>1, <2>2, <2>3 DEF SameKey, Told, Same
  <2>4. CASE ShmRead(shm, c) # Zero
    <3>1. PICK r \in RowsOf(c) : RowsOf(c) = {r} /\ r.seckey = ShmRead(shm, c).seckey
      BY <1>6, <2>4 DEF SameKey
    <3>2. RowsOf(NameOf(i))' = {after(r)}
      BY <2>2, <3>1
    <3>3. after(r).state = 0 /\ after(r).seckey = r.seckey
      BY <1>3, <3>1 DEF RowsOf
    <3> QED
      BY <1>6, <2>1, <2>4, <3>1, <3>2, <3>3 DEF Told, Same
  <2> QED
    BY <2>3, <2>4
<1>8. Halfway'
  BY <1>0, <1>1, HalfwayStep DEF Moves, AgreePc, WritePc
<1>9. StoresAgree'
  BY <1>0, <1>1, <1>7, OneToShow DEF Moves
<1> QED
  BY <1>4, <1>5, <1>8, <1>9

\* Start-up copies the rows one by one; every one of them finds room.
LEMMA StartUpTells ==
    ASSUME Enough, AloneSafe, RevokedOK, BothOK, StartUp
    PROVE  BothOK'
<1>0. /\ IsTable(shm, MaxNode) /\ OneSlotEach(shm) /\ MaxNode \in Nat
      /\ db \subseteq Row /\ todo \subseteq db /\ Registered \subseteq Client
      /\ NoClient \notin Client
      /\ Tidy /\ OneRow /\ Count /\ Loading
  BY Constants DEF AloneSafe, AloneOK, OneSlotPerClient, IndInv, TypeOK, ServerTypeOK,
     IsTable, RevokedOK, TodoOK, BothOK
<1>1. UNCHANGED <<db, nextId, work>> /\ up # "up" /\ \A i \in Conn : work'[i].pc = "idle"
  BY DEF StartUp, Boot, LoadRow, Listen, AloneSafe, AloneOK, OnlyUp, Serving
<1>2. OneRow' /\ Count' /\ Halfway'
  BY <1>0, <1>1 DEF OneRow, Count, Names, Halfway, AgreePc, WritePc
<1>3. CASE Boot
  <2>1. Tidy'
    BY <1>3 DEF Boot, Tidy, ZeroTable
  <2>2. ASSUME NEW c \in Client
        PROVE  Same(ShmRead(shm', c), Copied(c)')
    BY <1>0, <1>3, ReadZeroes DEF Boot, Copied, Same
  <2>3. up' = "loading"
    BY <1>3 DEF Boot
  <2> QED
    BY <1>2, <2>1, <2>2, <2>3 DEF BothOK, Loading, StoresAgree
<1>4. CASE LoadRow
  <2>1. PICK r \in todo :
          /\ shm' = ShmWrite(shm, [status |-> r.state, seckeyID |-> r.keyid,
                                   clientID |-> r.clientid, seckey |-> r.seckey])
          /\ todo' = todo \ {r}
    BY <1>4 DEF LoadRow
  <2> DEFINE node == [status |-> r.state, seckeyID |-> r.keyid,
                      clientID |-> r.clientid, seckey |-> r.seckey]
  <2>2. r \in db /\ r \in Row /\ r.clientid \in Registered
    BY <1>0 DEF AloneSafe, AloneOK, RowNames
  <2>3. /\ node \in NodeSHMInfo /\ node.clientID = r.clientid
        /\ node.status = r.state /\ node.seckey = r.seckey
    BY <2>2 DEF NodeSHMInfo, Row
  <2>4. shm' = ShmWrite(shm, node) /\ up' = "loading" /\ up = "loading"
    BY <1>4, <2>1 DEF LoadRow
  <2> HIDE DEF node
  <2>5. node # Zero /\ node.clientID # NoClient
    BY <1>0, <2>2, <2>3 DEF Zero
  <2>6. Tidy'
    BY <1>0, <2>4, <2>5, WriteTidy
  <2>7. ASSUME NEW c \in Client
        PROVE  Same(ShmRead(shm', c), Copied(c)')
    <3>1. Same(ShmRead(shm, c), Copied(c))
      BY <1>0, <2>4 DEF Loading
    <3>2. CASE c = r.clientid
      <4>1. ShmRead(shm', c) = node
        BY <1>0, <2>2, <2>3, <2>4, <3>2, RegisteredWrite
      <4>2. Copied(c)' = {r}
        <5>1. \A q \in db : q.clientid = c => q = r
          BY <1>0, <2>2, <3>2 DEF OneRow
        <5> QED
          BY <1>1, <2>1, <2>2, <3>2, <5>1 DEF Copied
      <4> QED
        BY <2>3, <2>5, <4>1, <4>2 DEF Same
    <3>3. CASE c # r.clientid
      <4>1. ShmRead(shm', c) = ShmRead(shm, c)
        BY <1>0, <2>3, <2>4, <3>3, ShmWriteOthers
      <4>2. Copied(c)' = Copied(c)
        BY <1>1, <2>1, <3>3 DEF Copied
      <4> QED
        BY <3>1, <4>1, <4>2
    <3> QED
      BY <3>2, <3>3
  <2> QED
    BY <1>2, <2>4, <2>6, <2>7 DEF BothOK, Loading, StoresAgree
<1>5. CASE Listen
  <2>1. UNCHANGED shm /\ todo = {} /\ up = "loading" /\ up' = "up"
    BY <1>5 DEF Listen
  <2>2. ASSUME NEW c \in Client
        PROVE  Told(c)'
    <3>1. Copied(c) = RowsOf(c) /\ RowsOf(c)' = RowsOf(c)
      BY <1>1, <2>1 DEF Copied, RowsOf
    <3> QED
      BY <1>0, <2>1, <3>1 DEF Loading, Told
  <2>3. StoresAgree'
    BY <2>2, AgreeIsTold DEF StoresAgree, Told, Same
  <2> QED
    BY <1>0, <1>2, <2>1, <2>3 DEF BothOK, Tidy, Loading
<1> QED
  BY <1>3, <1>4, <1>5 DEF StartUp

LEMMA BothNext ==
    ASSUME Enough, AloneSafe, RevokedOK, BothOK, [Next]_vars
    PROVE  BothOK'
<1>1. ASSUME NEW i \in Conn, WorkerStep(i)
      PROVE  BothOK'
  <2>0. /\ Tidy /\ OneRow /\ Count /\ up' = "up" /\ IndInv
    BY <1>1, Turn, Facts DEF Enough, BothOK
  <2>1. Loading'
    BY <2>0 DEF Loading
  <2>2. Quiet => Tidy' /\ OneRow' /\ Count'
    BY <2>0 DEF Quiet, Tidy, OneRow, Count, Names
  <2>3. CASE Copy(i)
    <3>1. UNCHANGED <<db, nextId>>
      BY <2>0, <2>3, WriteCalls
    <3>2. OneRow' /\ Count'
      BY <2>0, <3>1 DEF OneRow, Count, Names
    <3> QED
      BY <2>1, <2>3, <3>2, AcceptTells, RevokeCopyTells DEF BothOK
  <2>4. CASE UpdateRows(i) \/ InsertRow(i) \/ RevokeDb(i)
    <3>1. UNCHANGED shm
      BY <2>0, <2>4, AgreeCalls, RevokeCalls
    <3>2. Tidy'
      BY <2>0, <3>1 DEF Tidy
    <3> QED
      BY <2>1, <2>4, <3>2, UpdateTells, InsertTells, RevokeDbTells DEF BothOK
  <2> QED
    BY <1>1, <2>1, <2>2, <2>3, <2>4, QuietCalls
       DEF BothOK, WorkerStep, AgreeStep, RevokeStep, ShmWriteStep
<1>2. CASE Crash
  <2>1. /\ \A i \in Conn : work'[i].pc = "idle"
        /\ UNCHANGED <<shm, db, nextId>> /\ up' = "down"
    BY <1>2 DEF Crash, Idle
  <2> QED
    BY <2>1 DEF BothOK, Tidy, OneRow, Count, Names, Loading, Halfway, AgreePc, WritePc,
       StoresAgree
<1>3. CASE UNCHANGED serverVars
  <2>1. UNCHANGED <<up, shm, db, nextId, todo, res, work, revoked>>
    BY <1>3 DEF serverVars
  <2>2. StoresAgree'
    BY <2>1 DEF BothOK, StoresAgree, Changing, Serving, RowsOf
  <2> QED
    BY <2>1, <2>2 DEF BothOK, Tidy, OneRow, Count, Names, Loading, Copied, Halfway, NameOf,
       RowsOf, Agrees
<1> QED
  BY <1>1, <1>2, <1>3, Kinds, StartUpTells

\* The first state: nothing in either store.
LEMMA BothInit == Init => BothOK
<1> SUFFICES ASSUME Init PROVE BothOK
  OBVIOUS
<1>1. /\ up = "down" /\ shm = ZeroTable(MaxNode) /\ db = {} /\ nextId = 1
      /\ \A i \in Conn : work[i].pc = "idle"
  BY DEF Init, ServerInit, Idle
<1>2. Names = {} /\ Cardinality({}) = 0
  BY <1>1, FS_EmptySet DEF Names
<1> QED
  BY <1>1, <1>2 DEF BothOK, Tidy, ZeroTable, OneRow, Count, Loading, Halfway, AgreePc,
     WritePc, StoresAgree

\* Requests that do not overlap, statements that do not fail, a slot and an id
\* for every registered client: whenever no worker stands between its write of
\* the slot and its statement, shared memory and database tell the same about
\* every client, across crashes at any point of the two writes.
THEOREM StoresTellTheSame ==
    ASSUME MaxWorkers = 1, "dbError" \notin Faults, IsFiniteSet(Registered),
           Cardinality(Registered) <= MaxNode, Cardinality(Registered) <= MaxKeyId
    PROVE  Spec => []StoresAgree
<1>1. Enough
  BY DEF Enough
<1>2. Init => RevokedOK
  BY DEF Init, ServerInit, Idle, RevokedOK, TodoOK, LastChange, AgreePc, WritePc,
     RevokedStaysRevoked
<1>3. AloneSafe /\ RevokedOK /\ BothOK /\ [Next]_vars => RevokedOK' /\ BothOK'
  BY <1>1, RevokedNext, BothNext
<1>4. BothOK => StoresAgree
  BY DEF BothOK
<1> QED
  BY <1>2, <1>3, <1>4, BothInit, AlwaysAlone, PTL DEF Spec
============================================================================
