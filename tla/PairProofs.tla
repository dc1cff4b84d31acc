----------------------------- MODULE PairProofs -----------------------------
(***************************************************************************)
(* The system implements KeyPair. A row is written by the last call of an  *)
(* agreement or of a revocation, in the same step in which its answer      *)
(* becomes ready, and a client's table by the receipt of that answer; what *)
(* happens before, between and after is no step of the pair.               *)
(***************************************************************************)
EXTENDS EndsProofs

-----------------------------------------------------------------------------
(* The mapping, client by client.                                          *)

AtServer(c) ==
    IF RowsOf(c) = {} THEN [seckey |-> NoKey, status |-> 0]
    ELSE LET r == CHOOSE r \in RowsOf(c) : TRUE
         IN  [seckey |-> r.seckey, status |-> r.state]

AtClient(c) == [seckey |-> OwnKey(c).seckey, status |-> OwnKey(c).status]

OnWay(c) ==
    LET rsp == ResponseTo(c)
    IN  IF rsp = NoRsp \/ rsp.rv # 0 \/ creq[c].cmdType = "Check"
        THEN [seckey |-> NoKey, status |-> 0]
        ELSE IF creq[c].cmdType = "NewOrUpdate"
        THEN [seckey |-> <<creq[c].r1, rsp.r2>>, status |-> 1]
        ELSE [seckey |-> OwnKey(c).seckey, status |-> 0]

Still(c) == AtServer(c)' = AtServer(c) /\ AtClient(c)' = AtClient(c) /\ OnWay(c)' = OnWay(c)

LEMMA Sides ==
    /\ ServerSide = [c \in Client |-> AtServer(c)]
    /\ ServerSide' = [c \in Client |-> AtServer(c)']
    /\ ClientSide = [c \in Client |-> AtClient(c)]
    /\ ClientSide' = [c \in Client |-> AtClient(c)']
    /\ OnItsWay = [c \in Client |-> OnWay(c)]
    /\ OnItsWay' = [c \in Client |-> OnWay(c)']
<1>1. ServerSide = [c \in Client |-> AtServer(c)]
  BY DEF ServerSide, AtServer
<1>2. ServerSide' = [c \in Client |-> AtServer(c)']
  BY DEF ServerSide, AtServer
<1>3. ClientSide = [c \in Client |-> AtClient(c)]
  BY DEF ClientSide, AtClient
<1>4. ClientSide' = [c \in Client |-> AtClient(c)']
  BY DEF ClientSide, AtClient
<1>5. OnItsWay = [c \in Client |-> OnWay(c)]
  BY DEF OnItsWay, OnWay
<1>6. OnItsWay' = [c \in Client |-> OnWay(c)']
  BY DEF OnItsWay, OnWay
<1> QED
  BY <1>1, <1>2, <1>3, <1>4, <1>5, <1>6

-----------------------------------------------------------------------------
(* The steps of the pair, client by client.                                *)

LEMMA NobodyMoves ==
    ASSUME \A d \in Client : Still(d)
    PROVE  UNCHANGED Pair!pairVars
<1>1. ServerSide' = ServerSide
  BY Sides DEF Still
<1>2. ClientSide' = ClientSide
  BY Sides DEF Still
<1>3. OnItsWay' = OnItsWay
  BY Sides DEF Still
<1> QED
  BY <1>1, <1>2, <1>3 DEF Pair!pairVars

LEMMA PairAgrees ==
    ASSUME NEW c \in Registered, c \in Client, NEW k \in Key,
           \A d \in Client \ {c} : Still(d),
           AtServer(c)' = [seckey |-> k, status |-> 1],
           AtClient(c)' = AtClient(c),
           OnWay(c)' \in {OnWay(c), [seckey |-> k, status |-> 1]}
    PROVE  Pair!Next
<1> DEFINE pair == [seckey |-> k, status |-> 1]
<1>1. ServerSide' = [ServerSide EXCEPT ![c] = pair]
  BY Sides DEF Still
<1>2. ClientSide' = ClientSide
  BY Sides DEF Still
<1>3. OnItsWay' = OnItsWay \/ OnItsWay' = [OnItsWay EXCEPT ![c] = pair]
  <2>1. CASE OnWay(c)' = OnWay(c)
    <3>1. \A d \in Client : OnWay(d)' = OnWay(d)
      BY <2>1 DEF Still
    <3> QED
      BY <3>1, Sides
  <2>2. CASE OnWay(c)' = pair
    <3>1. \A d \in Client : OnWay(d)' = IF d = c THEN pair ELSE OnWay(d)
      BY <2>2 DEF Still
    <3> HIDE DEF pair
    <3> QED
      BY <3>1, Sides
  <2> QED
    BY <2>1, <2>2
<1>4. Pair!Agree(c)
  BY <1>1, <1>2, <1>3 DEF Pair!Agree, Pair!Tell
<1> QED
  BY <1>4 DEF Pair!Next

LEMMA PairRevokes ==
    ASSUME NEW c \in Client, NEW k \in Key, NEW s,
           AtServer(c) = [seckey |-> k, status |-> s],
           \A d \in Client \ {c} : Still(d),
           AtServer(c)' = [seckey |-> k, status |-> 0],
           AtClient(c)' = AtClient(c),
           OnWay(c)' \in {OnWay(c), [seckey |-> k, status |-> 0]}
    PROVE  Pair!Next
<1> DEFINE pair == [seckey |-> k, status |-> 0]
<1>0. ServerSide[c] = AtServer(c) /\ pair = [ServerSide[c] EXCEPT !.status = 0]
  BY Sides
<1>1. ServerSide' = [ServerSide EXCEPT ![c] = pair]
  BY Sides DEF Still
<1>2. ClientSide' = ClientSide
  BY Sides DEF Still
<1>3. OnItsWay' = OnItsWay \/ OnItsWay' = [OnItsWay EXCEPT ![c] = pair]
  <2>1. CASE OnWay(c)' = OnWay(c)
    <3>1. \A d \in Client : OnWay(d)' = OnWay(d)
      BY <2>1 DEF Still
    <3> QED
      BY <3>1, Sides
  <2>2. CASE OnWay(c)' = pair
    <3>1. \A d \in Client : OnWay(d)' = IF d = c THEN pair ELSE OnWay(d)
      BY <2>2 DEF Still
    <3> HIDE DEF pair
    <3> QED
      BY <3>1, Sides
  <2> QED
    BY <2>1, <2>2
<1>4. ServerSide[c].seckey # NoKey
  BY <1>0, NoKeyAssumption
<1> HIDE DEF pair
<1>5. Pair!Revoke(c)
  BY <1>0, <1>1, <1>2, <1>3, <1>4 DEF Pair!Revoke, Pair!Tell
<1> QED
  BY <1>5 DEF Pair!Next

LEMMA PairLearns ==
    ASSUME NEW c \in Client,
           \A d \in Client \ {c} : Still(d),
           OnWay(c).seckey # NoKey,
           OnWay(c).status = 0 => OnWay(c).seckey = AtClient(c).seckey,
           AtServer(c)' = AtServer(c),
           AtClient(c)' = OnWay(c),
           OnWay(c)' = [seckey |-> NoKey, status |-> 0]
    PROVE  Pair!Next
<1> DEFINE none == [seckey |-> NoKey, status |-> 0]
<1>1. OnItsWay[c] = OnWay(c) /\ ClientSide[c] = AtClient(c)
  BY Sides
<1>2. ServerSide' = ServerSide
  BY Sides DEF Still
<1>3. ClientSide' = [ClientSide EXCEPT ![c] = OnItsWay[c]]
  BY <1>1, Sides DEF Still
<1>4. OnItsWay' = [OnItsWay EXCEPT ![c] = none]
  BY Sides DEF Still
<1>5. OnItsWay[c] # none
  BY <1>1
<1>6. Pair!NoNews = none
  BY DEF Pair!NoNews
<1> HIDE DEF none
<1>7. Pair!Learn(c)
  BY <1>1, <1>2, <1>3, <1>4, <1>5, <1>6 DEF Pair!Learn
<1> QED
  BY <1>7 DEF Pair!Next

LEMMA PairLoses ==
    ASSUME \A d \in Client : /\ AtServer(d)' = AtServer(d) /\ AtClient(d)' = AtClient(d)
                             /\ OnWay(d)' \in {OnWay(d), [seckey |-> NoKey, status |-> 0]}
    PROVE  Pair!Next
<1> DEFINE none == [seckey |-> NoKey, status |-> 0]
<1>1. ServerSide' = ServerSide
  BY Sides
<1>2. ClientSide' = ClientSide
  BY Sides
<1>3. Pair!NoNews = none
  BY DEF Pair!NoNews
<1> HIDE DEF none
<1>4. \A d \in Client : OnItsWay[d] = OnWay(d) /\ OnItsWay'[d] = OnWay(d)'
  BY Sides
<1>5. \A d \in Client : OnWay(d)' \in {none, OnWay(d)}
  BY DEF none
<1>6. \A d \in Client : OnItsWay'[d] \in {none, OnItsWay[d]}
  BY <1>4, <1>5
<1>7. OnItsWay' \in [Client -> {none} \cup {OnItsWay[d] : d \in Client}]
  BY <1>6, Sides
<1>8. Pair!Lose
  BY <1>1, <1>2, <1>3, <1>6, <1>7 DEF Pair!Lose
<1> QED
  BY <1>8 DEF Pair!Next

-----------------------------------------------------------------------------
(* What the mapping needs beyond the layers below.                         *)

\* Nobody keeps an old response.
BufOK == \A c \in Client : cbuf[c] = NoRsp

\* A revocation under way was asked for with the key of the slot.
RevokeFits ==
    \A i \in Conn :
        (work[i].pc \in WritePc /\ ~Agrees(i)) \/ work[i].pc = "revokeDb" =>
        work[i].req.authCode = Mac(NameOf(i), ShmRead(shm, NameOf(i)).seckey)

\* Whoever was let in is in secnode.
Served ==
    \A i \in Conn :
        /\ work[i].pc = "send" /\ work[i].rsp.rv # 2 => NameOf(i) \in Registered
        /\ conn[i].st = "answered" /\ conn[i].rsp.rv # 2 => conn[i].client \in Registered

\* So a client with a usable key is.
KeyHolders == \A c \in Client : OwnKey(c).status = 1 => c \in Registered

PairOK == BufOK /\ RevokeFits /\ Served /\ KeyHolders

LEMMA RevokeFitsNext ==
    ASSUME MaxWorkers = 1, AloneSafe, RevokedOK, RevokeFits, [Next]_vars
    PROVE  RevokeFits'
<1>1. ASSUME NEW i \in Conn, WorkerStep(i)
      PROVE  RevokeFits'
  <2>0. \A j \in Conn \ {i} : work[j].pc = "idle" /\ work'[j] = work[j]
    BY <1>1, Turn, State
  <2>1. ASSUME \/ work'[i].pc \in WritePc /\ work'[i].req.cmdType # "NewOrUpdate"
               \/ work'[i].pc = "revokeDb"
               => work'[i].req.authCode =
                     Mac(NameOf(i)', ShmRead(shm', NameOf(i)').seckey)
        PROVE  RevokeFits'
    BY <2>0, <2>1 DEF RevokeFits, NameOf, Agrees, WritePc
  <2>2. CASE RevokeAccept(i)
    <3>1. /\ work'[i].req = work[i].req /\ NameOf(i)' = NameOf(i) /\ shm' = shm
      BY <2>2, State, RevokeCalls DEF Moves, Quiet
    <3>2. work[i].req.authCode = Mac(NameOf(i), ShmRead(shm, NameOf(i)).seckey)
      BY <2>2 DEF RevokeAccept, KeyMatches, NameOf
    <3> QED
      BY <2>1, <3>1, <3>2
  <2>3. CASE Copy(i) /\ ~Agrees(i)
    <3>1. /\ work[i].pc = "copy" /\ work'[i].req = work[i].req
          /\ NameOf(i)' = NameOf(i) /\ shm' = ShmWrite(shm, work[i].node)
      BY <2>3, State, WriteCalls, CopyWrites DEF Moves
    <3> DEFINE slot == ShmRead(shm, NameOf(i))
    <3>2. work[i].node = [slot EXCEPT !.status = 0] /\ NameOf(i) \in Client
      BY <2>3, <3>1, State DEF RevokedOK, LastChange, WritePc
    <3>3. IsTable(shm, MaxNode) /\ OneSlotEach(shm) /\ MaxNode \in Nat
      BY Facts
    <3>4. ShmRead(shm', NameOf(i)) = work[i].node
      BY <3>1, <3>2, <3>3, WriteBack
    <3>5. slot \in NodeSHMInfo
      BY <3>2, <3>3, ShmReadType
    <3>6. work[i].node.seckey = slot.seckey
      BY <3>2, <3>5 DEF NodeSHMInfo
    <3>7. work[i].req.authCode = Mac(NameOf(i), slot.seckey)
      BY <2>3, <3>1 DEF RevokeFits, WritePc
    <3> HIDE DEF slot
    <3> QED
      BY <2>1, <3>1, <3>4, <3>6, <3>7
  <2>4. CASE OwnSlot(i) \/ FreeSlot(i)
    <3>1. /\ work[i].pc \in WritePc /\ work'[i].pc \in WritePc
          /\ work'[i].req = work[i].req /\ NameOf(i)' = NameOf(i) /\ shm' = shm
      BY <2>4, State, WriteCalls DEF Moves, Quiet, WritePc
    <3> QED
      BY <2>1, <3>1 DEF RevokeFits, Agrees, WritePc
  <2>5. CASE AgreeAccept(i) \/ (Copy(i) /\ Agrees(i))
    <3>1. \/ work'[i].pc = "ownSlot" /\ work'[i].req.cmdType = "NewOrUpdate"
          \/ work'[i].pc = "select"
      BY <2>5, State, AgreeCalls, WriteCalls DEF Moves
    <3> QED
      BY <2>1, <3>1 DEF WritePc
  <2>6. CASE ~RevokeAccept(i) /\ ~ShmWriteStep(i) /\ ~AgreeAccept(i)
    <3>1. work'[i].pc \notin WritePc \cup {"revokeDb"}
      BY <1>1, <2>6, State, ReceiveCall, OuterCalls, AgreeCalls, RevokeCalls
         DEF WorkerStep, AgreeStep, RevokeStep, Moves, WritePc
    <3> QED
      BY <2>1, <3>1
  <2> QED
    BY <2>2, <2>3, <2>4, <2>5, <2>6 DEF ShmWriteStep
<1>2. CASE StartUp
  <2>1. UNCHANGED work /\ Serving = {}
    BY <1>2 DEF StartUp, Boot, LoadRow, Listen, AloneSafe, AloneOK, OnlyUp
  <2> QED
    BY <2>1 DEF RevokeFits, Serving, WritePc
<1>3. CASE Crash
  BY <1>3 DEF Crash, Idle, RevokeFits, WritePc
<1>4. CASE UNCHANGED serverVars
  BY <1>4 DEF serverVars, RevokeFits, NameOf, Agrees
<1> QED
  BY <1>1, <1>2, <1>3, <1>4, Kinds

\* Who answers anything but the refusal was past the question for secnode.
LEMMA ServedNext ==
    ASSUME MaxWorkers = 1, "noSend" \notin Faults, AloneSafe, Wired, OwnTable, Served,
           [Next]_vars
    PROVE  Served'
<1>0. IndInv
  BY DEF AloneSafe
<1>1. ASSUME NEW i \in Conn, work'[i].pc = "send", work'[i].rsp.rv # 2
      PROVE  NameOf(i)' \in Registered
  <2>1. CASE work'[i] = work[i]
    BY <1>1, <2>1 DEF Served, NameOf
  <2>2. CASE WorkerStep(i)
    <3>1. CASE CheckId(i)
      BY <1>0, <1>1, <3>1, OuterRsp
    <3>2. CASE Receive(i) \/ QueryNode(i) \/ Send(i)
      <4>1. work'[i].pc # "send"
        BY <1>0, <3>2, ReceiveCall, OuterCalls DEF Moves
      <4> QED
        BY <1>1, <4>1
    <3>3. CASE ~(CheckId(i) \/ Receive(i) \/ QueryNode(i) \/ Send(i))
      <4>1. work[i].pc \in Past /\ NameOf(i)' = NameOf(i)
        BY <1>0, <2>2, <3>3, AgreeCalls, RevokeCalls, WriteCalls
           DEF WorkerStep, AgreeStep, RevokeStep, ShmWriteStep, Moves, Past, Pc
      <4> QED
        BY <4>1, State
    <3> QED
      BY <3>1, <3>2, <3>3
  <2>3. CASE \E j \in Conn : j # i /\ WorkerStep(j)
    <3>1. work'[i] = work[i]
      BY <1>0, <2>3, OneMoves
    <3> QED
      BY <2>1, <3>1
  <2>4. CASE Crash
    BY <1>1, <2>4 DEF Crash, Idle
  <2>5. CASE StartUp \/ UNCHANGED serverVars
    BY <2>1, <2>5 DEF StartUp, Boot, LoadRow, Listen, serverVars
  <2> QED
    BY <2>2, <2>3, <2>4, <2>5, Kinds
<1>2. ASSUME NEW j \in Conn, conn'[j].st = "answered", conn'[j].rsp.rv # 2
      PROVE  conn'[j].client \in Registered
  BY <1>0, <1>2, AnswerFrom DEF Served
<1> QED
  BY <1>1, <1>2 DEF Served

LEMMA BufNext ==
    ASSUME "stale" \notin Faults, IndInv, BufOK, [Next]_vars
    PROVE  BufOK'
<1>0. cbuf \in [Client -> RespondMsg \cup {NoRsp}]
  BY DEF IndInv, TypeOK, ClientTypeOK
<1>1. ASSUME NEW c \in Client, ClientStep(c)
      PROVE  cbuf' = cbuf \/ cbuf' = [cbuf EXCEPT ![c] = NoRsp]
  BY <1>1 DEF ClientStep, SecKeyAgree, SecKeyCheck, SecKeyRevoke, SendKey, Request,
     ConnectOnly, ClientReceive, ReceiveAnswer, DecodeDies, ReceiveDies, ReceiveStale
<1>2. CASE UNCHANGED clientVars
  BY <1>2 DEF clientVars, BufOK
<1>3. CASE UNCHANGED vars
  <2>1. UNCHANGED clientVars
    BY <1>3 DEF vars
  <2> QED
    BY <1>2, <2>1
<1> QED
  BY <1>0, <1>1, <1>2, <1>3 DEF Next, Server, Alter, BufOK

\* Without old responses a client believes nothing but the answer it reads.
LEMMA OnlyAnswers ==
    ASSUME IndInv, BufOK, NEW c \in Client, ClientReceive(c)
    PROVE  /\ Leaves(c)
           /\ \/ cshm' = cshm
              \/ /\ Answered(c) /\ conn[cur[c]].rsp \in RespondMsg
                 /\ cshm' = [cshm EXCEPT ![c] = TableAfter(c, conn[cur[c]].rsp)]
<1>1. Leaves(c)
  BY Ending
<1>2. Answered(c) => conn[cur[c]].rsp \in RespondMsg
  BY DEF Answered, IndInv, AnswerOK
<1>3. ~ReceiveStale(c)
  BY DEF ReceiveStale, BufOK
<1> QED
  BY <1>1, <1>2, <1>3 DEF ClientReceive, ReceiveAnswer, DecodeDies, ReceiveDies

\* What a client makes of an answer. The refusal 2, which secKeyRevoke takes
\* for a success, is sent to no client with a usable key.
LEMMA AfterAnswer ==
    ASSUME Base, KeyHolders, NEW c \in Client, Answered(c),
           NEW rsp \in RespondMsg, rsp = conn[cur[c]].rsp,
           cshm' = [cshm EXCEPT ![c] = TableAfter(c, rsp)], IndInv', OwnTable'
    PROVE  /\ rsp.rv # 0 \/ creq[c].cmdType = "Check" => OwnKey(c)' = OwnKey(c)
           /\ rsp.rv = 0 /\ creq[c].cmdType = "NewOrUpdate" => OwnKey(c)' = Agreed(c, rsp)
           /\ rsp.rv = 0 /\ creq[c].cmdType = "Revoke" =>
                 OwnKey(c)' = [OwnKey(c) EXCEPT !.status = 0]
           /\ creq[c].cmdType \in {"NewOrUpdate", "Check", "Revoke"}
<1>0. /\ IndInv /\ ConnOK /\ CurOK /\ AskedOK /\ OwnTable /\ NoConn \notin Conn
      /\ cshm \in [Client -> [1..1 -> NodeSHMInfo]]
      /\ cshm' \in [Client -> [1..1 -> NodeSHMInfo]]
  <2>1. cshm \in [Client -> [1..1 -> NodeSHMInfo]]
    BY BaseFacts DEF IndInv, TypeOK, ClientTypeOK
  <2>2. cshm' \in [Client -> [1..1 -> NodeSHMInfo]]
    BY DEF IndInv, TypeOK, ClientTypeOK
  <2> QED
    BY <2>1, <2>2, BaseFacts
<1>1. OwnKey(c) = cshm[c][1] /\ OwnKey(c)' = TableAfter(c, rsp)[1]
  <2>1. OwnKey(c) = cshm[c][1]
    BY <1>0, OneSlotTable
  <2>2. cshm'[c] \in [1..1 -> NodeSHMInfo] /\ (cshm'[c][1] = Zero \/ cshm'[c][1].clientID = c)
    BY <1>0 DEF OwnTable
  <2>3. ShmRead(cshm'[c], c) = cshm'[c][1]
    BY <2>2, ReadOneSlot
  <2>4. cshm'[c] = TableAfter(c, rsp)
    BY <1>0
  <2> QED
    BY <2>1, <2>3, <2>4 DEF OwnKey
<1>2. /\ ~AtMenu(c) /\ cur[c] \in Conn /\ conn[cur[c]].st = "answered"
      /\ rsp.rv \in {0, 1, 2}
  BY DEF Answered, RespondMsg
<1>3. creq[c].cmdType = "Revoke" => rsp.rv # 2
  <2>1. creq[c].cmdType = "Revoke" => c \in Registered
    BY <1>0, <1>2 DEF AskedOK, KeyHolders
  <2>2. conn[cur[c]].client = c
    BY <1>0, <1>2 DEF CurOK
  <2>3. rsp.rv = 2 => c \notin Registered
    BY <1>2, <2>2 DEF Base, Refused
  <2> QED
    BY <2>1, <2>3
<1> QED
  BY <1>0, <1>1, <1>2, <1>3, Stored

LEMMA KeyHoldersNext ==
    ASSUME "noSend" \notin Faults, Base, PairOK, [Next]_vars, IndInv', OwnTable'
    PROVE  KeyHolders'
<1>0. /\ IndInv /\ OwnTable /\ ConnOK /\ CurOK /\ NoConn \notin Conn
      /\ BufOK /\ Served /\ KeyHolders
  BY BaseFacts DEF PairOK
<1>1. CASE cshm' = cshm
  BY <1>0, <1>1 DEF KeyHolders, OwnKey
<1>2. ASSUME NEW c \in Client, Answered(c), conn[cur[c]].rsp \in RespondMsg,
             cshm' = [cshm EXCEPT ![c] = TableAfter(c, conn[cur[c]].rsp)]
      PROVE  KeyHolders'
  <2> DEFINE rsp == conn[cur[c]].rsp
  <2>1. ASSUME NEW d \in Client, d # c
        PROVE  OwnKey(d)' = OwnKey(d)
    BY <1>2, <2>1 DEF OwnKey, IndInv, TypeOK, ClientTypeOK
  <2>2. ASSUME OwnKey(c)'.status = 1
        PROVE  c \in Registered
    <3>1. CASE rsp.rv # 0 \/ creq[c].cmdType = "Check"
      BY <1>0, <1>2, <2>2, <3>1, AfterAnswer DEF KeyHolders
    <3>2. CASE rsp.rv = 0 /\ creq[c].cmdType = "NewOrUpdate"
      <4>1. conn[cur[c]].client = c /\ conn[cur[c]].st = "answered" /\ cur[c] \in Conn
        BY <1>0, <1>2 DEF Answered, CurOK
      <4> QED
        BY <1>0, <3>2, <4>1 DEF Served
    <3>3. CASE rsp.rv = 0 /\ creq[c].cmdType = "Revoke"
      <4>1. OwnKey(c)' = [OwnKey(c) EXCEPT !.status = 0]
        BY <1>0, <1>2, <3>3, AfterAnswer
      <4>2. OwnKey(c) \in NodeSHMInfo
        BY <1>0, OneSlotTable
      <4>3. OwnKey(c)'.status = 0
        BY <4>1, <4>2 DEF NodeSHMInfo
      <4> QED
        BY <2>2, <4>3
    <3> QED
      BY <1>0, <1>2, <3>1, <3>2, <3>3, AfterAnswer
  <2> QED
    BY <1>0, <2>1, <2>2 DEF KeyHolders
<1>3. ASSUME NEW c \in Client, ClientStep(c)
      PROVE  KeyHolders'
  <2>1. CASE \E req \in RequestMsg : Asks(c, req)
    BY <1>1, <2>1 DEF Asks, Request
  <2>2. CASE ClientReceive(c)
    BY <1>0, <1>1, <1>2, <2>2, OnlyAnswers
  <2> QED
    BY <1>0, <1>3, <2>1, <2>2, ClientKinds
<1>4. UNCHANGED clientVars => cshm' = cshm
  BY DEF clientVars
<1> QED
  BY <1>1, <1>3, <1>4 DEF Next, Server, Alter, vars

LEMMA PairInit == Init => PairOK
<1> SUFFICES ASSUME Init PROVE PairOK
  OBVIOUS
<1>1. /\ \A i \in Conn : work[i].pc = "idle" /\ conn[i].st = "free"
      /\ \A c \in Client : cbuf[c] = NoRsp /\ cshm[c] = ZeroTable(1)
  BY DEF Init, ServerInit, Idle, WireInit, FreeConn, ClientInit
<1>2. ASSUME NEW c \in Client
      PROVE  OwnKey(c) = Zero
  <2>1. 1 \in Nat /\ cshm[c] = ZeroTable(1)
    BY <1>1
  <2> QED
    BY <2>1, ReadZeroes DEF OwnKey
<1>3. Zero.status = 0
  BY DEF Zero
<1> QED
  BY <1>1, <1>2, <1>3 DEF PairOK, BufOK, RevokeFits, WritePc, Served, KeyHolders

-----------------------------------------------------------------------------
(* Every step is a step of the pair, or none.                              *)

\* A client whose table, request and response are what they were has the same
\* news on its way.
LEMMA WayKept ==
    ASSUME NEW d \in Client, creq'[d] = creq[d], OwnKey(d)' = OwnKey(d),
           ResponseTo(d)' = ResponseTo(d)
    PROVE  AtClient(d)' = AtClient(d) /\ OnWay(d)' = OnWay(d)
BY DEF AtClient, OnWay

LEMMA RowKept ==
    ASSUME NEW d \in Client, RowsOf(d)' = RowsOf(d)
    PROVE  AtServer(d)' = AtServer(d)
BY DEF AtServer

\* The one row of a client is its side.
LEMMA RowSide ==
    ASSUME NEW d \in Client, NEW r
    PROVE  /\ RowsOf(d) = {r} => AtServer(d) = [seckey |-> r.seckey, status |-> r.state]
           /\ RowsOf(d)' = {r} => AtServer(d)' = [seckey |-> r.seckey, status |-> r.state]
<1>1. ASSUME NEW S, S = {r}
      PROVE  S # {} /\ (CHOOSE q \in S : TRUE) = r
  BY <1>1
<1>2. RowsOf(d) = {r} => AtServer(d) = [seckey |-> r.seckey, status |-> r.state]
  BY <1>1 DEF AtServer
<1>3. RowsOf(d)' = {r} => AtServer(d)' = [seckey |-> r.seckey, status |-> r.state]
  BY <1>1 DEF AtServer
<1> QED
  BY <1>2, <1>3

\* A worker's step, seen by a client that does not wait for it.
LEMMA ElsewherePair ==
    ASSUME Base, NEW i \in Conn, WorkerStep(i), UNCHANGED clientVars,
           NEW d \in Client, cur[d] # i
    PROVE  AtClient(d)' = AtClient(d) /\ OnWay(d)' = OnWay(d)
<1>0. /\ IndInv /\ ConnOK /\ conn \in [Conn -> Connection]
      /\ cur[d] \in Conn \cup {NoConn} /\ UNCHANGED <<cshm, creq, cur>>
  BY BaseFacts DEF clientVars
<1>1. \A j \in Conn \ {i} : conn'[j] = conn[j] /\ work'[j] = work[j]
  <2>1. CASE Receive(i)
    BY <1>0, <2>1, Accepted
  <2>2. CASE Send(i)
    BY <1>0, <2>2, Sent
  <2>3. CASE ~Receive(i) /\ ~Send(i)
    BY <1>0, <2>3, Inner
  <2> QED
    BY <2>1, <2>2, <2>3
<1>2. ResponseTo(d)' = ResponseTo(d)
  BY <1>0, <1>1 DEF ResponseTo, AtMenu
<1>3. OwnKey(d)' = OwnKey(d)
  BY <1>0 DEF OwnKey
<1> QED
  BY <1>0, <1>2, <1>3, WayKept

\* The acceptance of a request and the sending of an answer.
LEMMA OuterPair ==
    ASSUME Base, NEW i \in Conn, Receive(i) \/ Send(i), UNCHANGED clientVars
    PROVE  UNCHANGED Pair!pairVars
<1>0. /\ IndInv /\ ConnOK /\ CurOK /\ conn \in [Conn -> Connection]
      /\ UNCHANGED <<cshm, creq, cur>> /\ WorkerStep(i)
  BY BaseFacts DEF clientVars, WorkerStep
<1>1. SUFFICES ASSUME NEW d \in Client PROVE Still(d)
  BY NobodyMoves
<1>2. AtServer(d)' = AtServer(d)
  <2>1. db' = db
    BY <1>0, ReceiveCall, OuterCalls DEF Quiet
  <2> QED
    BY <2>1, RowKept DEF RowsOf
<1>3. CASE cur[d] # i
  BY <1>0, <1>2, <1>3, ElsewherePair DEF Still
<1>4. CASE cur[d] = i
  <2>1. conn[i].open /\ i # NoConn
    BY <1>0, <1>4, BaseFacts DEF CurOK
  <2>2. ResponseTo(d)' = ResponseTo(d)
    <3>1. CASE Receive(i)
      <4>1. /\ conn[i].st = "sent" /\ work'[i].pc = "query"
            /\ conn' = [conn EXCEPT ![i] = [conn[i] EXCEPT !.st = "served", !.req = NoReq]]
        BY <1>0, <3>1, Accepted
      <4>2. conn'[i].st = "served" /\ work[i].pc = "idle"
        BY <1>0, <4>1 DEF ConnOK, Connection
      <4> QED
        BY <1>0, <1>4, <4>1, <4>2 DEF ResponseTo, AtMenu
    <3>2. CASE Send(i)
      <4>1. /\ work[i].pc = "send" /\ conn[i].st = "served"
            /\ conn'[i].st = "answered" /\ conn'[i].rsp = work[i].rsp
        BY <1>0, <2>1, <3>2, Sent
      <4> QED
        BY <1>0, <1>4, <4>1 DEF ResponseTo, AtMenu
    <3> QED
      BY <3>1, <3>2
  <2>3. OwnKey(d)' = OwnKey(d) /\ creq'[d] = creq[d]
    BY <1>0 DEF OwnKey
  <2> QED
    BY <1>2, <2>2, <2>3, WayKept DEF Still
<1> QED
  BY <1>3, <1>4

\* The client that waits for the worker, before the worker's call and after.
LEMMA OwnWay ==
    ASSUME Base, NEW i \in Conn, WorkerStep(i), ~Receive(i), ~Send(i),
           UNCHANGED clientVars, NEW d \in Client, cur[d] = i
    PROVE  /\ NameOf(i) = d /\ ~AtMenu(d)
           /\ work[i].req.cmdType = creq[d].cmdType
           /\ work[i].req.authCode = creq[d].authCode
           /\ AtClient(d)' = AtClient(d) /\ OwnKey(d)' = OwnKey(d) /\ creq'[d] = creq[d]
           /\ OnWay(d) = [seckey |-> NoKey, status |-> 0]
           /\ ResponseTo(d)' = IF work'[i].pc = "send" THEN work'[i].rsp ELSE NoRsp
<1>0. /\ IndInv /\ conn' = conn /\ work[i].pc # "idle" /\ i # NoConn
      /\ UNCHANGED <<cshm, creq, cur>>
  BY BaseFacts, Inner DEF clientVars
<1>1. /\ NameOf(i) = d /\ conn[i].st = "served" /\ ~AtMenu(d)
      /\ work[i].req.cmdType = creq[d].cmdType
      /\ work[i].req.authCode = creq[d].authCode
      /\ ResponseTo(d) = IF work[i].pc = "send" THEN work[i].rsp ELSE NoRsp
  BY <1>0, Behind
<1>2. work[i].pc # "send"
  BY <1>0, OuterCalls, AgreeCalls, RevokeCalls, WriteCalls
     DEF WorkerStep, AgreeStep, RevokeStep, ShmWriteStep, Moves
<1>3. OnWay(d) = [seckey |-> NoKey, status |-> 0]
  BY <1>1, <1>2 DEF OnWay
<1>4. OwnKey(d)' = OwnKey(d) /\ AtClient(d)' = AtClient(d)
  BY <1>0 DEF OwnKey, AtClient
<1>5. ResponseTo(d)' = IF work'[i].pc = "send" THEN work'[i].rsp ELSE NoRsp
  BY <1>0, <1>1 DEF ResponseTo, AtMenu
<1> QED
  BY <1>0, <1>1, <1>3, <1>4, <1>5

\* The last call of an agreement.
LEMMA AgreePair ==
    ASSUME Enough, Base, NEW i \in Conn, UpdateRows(i) \/ InsertRow(i),
           NEW c \in Client, c = NameOf(i), UNCHANGED clientVars, IndInv'
    PROVE  Pair!Next
<1> DEFINE key == <<work[i].req.r1, work[i].rsp.r2>>
<1>0. /\ IndInv /\ AloneSafe /\ BothOK /\ Fits /\ Ids /\ AskedOK
      /\ WorkerStep(i) /\ ~Receive(i) /\ ~Send(i) /\ NoRsp \notin RespondMsg
  <2>1. work[i].pc \in {"update", "insert"}
    BY DEF UpdateRows, InsertRow, At
  <2>2. ~Send(i)
    BY <2>1 DEF Send, At
  <2>3. ~Receive(i)
    <3>1. IndInv /\ ConnOK
      BY BaseFacts
    <3> QED
      BY <2>1, <3>1, Accepted DEF ConnOK
  <2> QED
    BY <2>2, <2>3, BaseFacts DEF Base, WorkerStep, AgreeStep
<1>1. work[i].pc \in AgreePc \ {"agree"} /\ work[i].pc \in Past
  BY DEF UpdateRows, InsertRow, At, AgreePc, Past, Pc
<1>2. c \in Registered /\ c \in Client /\ work[i].req \in AgreeRequest
      /\ work[i].rsp \in RespondMsg
  BY <1>0, <1>1, Facts, Busy DEF AgreePc
<1>3. key \in Key
  BY <1>2 DEF AgreeRequest, RespondMsg, Key
<1>4. PICK r : /\ {q \in db' : q.clientid = NameOf(i)} = {r}
               /\ r.seckey = <<work[i].req.r1, work[i].rsp.r2>>
               /\ r.state = 1
  BY <1>0, AgreeWrites
<1>5. AtServer(c)' = [seckey |-> key, status |-> 1]
  <2>1. RowsOf(c)' = {r}
    BY <1>4 DEF RowsOf
  <2> QED
    BY <1>2, <1>4, <2>1, RowSide
<1>6. /\ work'[i].pc = "send" /\ work'[i].rsp.rv = 0
      /\ work'[i].rsp.r2 = work[i].rsp.r2 /\ work'[i].rsp \in RespondMsg
  <2>1. /\ work'[i].pc = "send" /\ work'[i].rsp.rv = 0
        /\ work'[i].rsp.r2 = work[i].rsp.r2
    BY <1>0, OuterRsp
  <2> QED
    BY <2>1 DEF IndInv, WorkOK
<1>7. ASSUME NEW d \in Client, d # c
      PROVE  Still(d)
  <2>1. cur[d] # i
    BY <1>0, <1>7, OwnWay
  <2>2. RowsOf(d)' = RowsOf(d)
    BY <1>0, <1>7, RowsKept
  <2> QED
    BY <1>0, <2>1, <2>2, ElsewherePair, RowKept DEF Still
<1>8. /\ AtClient(c)' = AtClient(c)
      /\ OnWay(c)' \in {OnWay(c), [seckey |-> key, status |-> 1]}
  <2>1. CASE cur[c] # i
    BY <1>0, <1>2, <2>1, ElsewherePair
  <2>2. CASE cur[c] = i
    <3>1. /\ ~AtMenu(c) /\ creq'[c] = creq[c] /\ AtClient(c)' = AtClient(c)
          /\ work[i].req.cmdType = creq[c].cmdType
          /\ work[i].req.authCode = creq[c].authCode
          /\ ResponseTo(c)' = work'[i].rsp
      BY <1>0, <1>2, <1>6, <2>2, OwnWay
    <3>2. creq[c].cmdType = "NewOrUpdate"
      BY <1>2, <3>1 DEF AgreeRequest
    <3>3. work[i].req.authCode = Mac(c, work[i].req.r1)
      BY <1>0, <1>1 DEF Fits, KeyFits, Keyed
    <3>4. creq[c].authCode = Mac(c, creq[c].r1)
      BY <1>0, <1>2, <3>1, <3>2 DEF AskedOK
    <3>5. Mac(c, work[i].req.r1)[2] = Mac(c, creq[c].r1)[2]
      BY <3>1, <3>3, <3>4
    <3>6. work[i].req.r1 = creq[c].r1
      BY <3>5 DEF Mac
    <3>7. work'[i].rsp # NoRsp
      BY <1>0, <1>6
    <3>8. OnWay(c)' = [seckey |-> <<creq'[c].r1, work'[i].rsp.r2>>, status |-> 1]
      BY <1>6, <3>1, <3>2, <3>7 DEF OnWay
    <3>9. OnWay(c)' = [seckey |-> key, status |-> 1]
      BY <1>6, <3>1, <3>6, <3>8
    <3> QED
      BY <3>1, <3>9
  <2> QED
    BY <2>1, <2>2
<1> HIDE DEF key
<1> QED
  BY <1>2, <1>3, <1>5, <1>7, <1>8, PairAgrees

\* The last call of a revocation. The client that asked for it knew the key
\* of the slot, which is that of the row.
LEMMA RevokePair ==
    ASSUME Enough, Base, RevokeFits, NEW i \in Conn, RevokeDb(i),
           NEW c \in Client, c = NameOf(i), UNCHANGED clientVars, IndInv'
    PROVE  Pair!Next
<1> DEFINE slot == ShmRead(shm, c)
<1>0. /\ IndInv /\ AloneSafe /\ BothOK /\ AskedOK /\ Dispatched /\ OwnTable
      /\ WorkerStep(i) /\ ~Receive(i) /\ ~Send(i) /\ NoRsp \notin RespondMsg
      /\ work[i].pc = "revokeDb"
  <2>1. work[i].pc = "revokeDb"
    BY DEF RevokeDb, At
  <2>2. ~Send(i)
    BY <2>1 DEF Send, At
  <2>3. ~Receive(i)
    <3>1. IndInv /\ ConnOK
      BY BaseFacts
    <3> QED
      BY <2>1, <3>1, Accepted DEF ConnOK
  <2> QED
    BY <2>1, <2>2, <2>3, BaseFacts DEF Base, WorkerStep, RevokeStep
<1>1. /\ c \in Client /\ work[i].req \in RequestMsg
      /\ work[i].req.cmdType = "Revoke" /\ db \subseteq Row
  BY <1>0, Facts, Busy DEF Dispatched
<1>2. work[i].req.authCode = Mac(c, slot.seckey)
  BY <1>0 DEF RevokeFits
<1>3. slot.seckey # NoKey
  <2>1. work[i].req.authCode \in Client \X (Nonce1 \cup Key)
    BY <1>1 DEF RequestMsg, AgreeRequest, KeyRequest, AuthCode
  <2>2. work[i].req.authCode[2] = slot.seckey
    BY <1>2 DEF Mac
  <2>3. slot.seckey \in Nonce1 \cup Key
    BY <2>1, <2>2
  <2> QED
    BY <2>3, NoKeyAssumption
<1>4. PICK r \in RowsOf(c) : RowsOf(c) = {r} /\ r.seckey = slot.seckey
  <2>1. SameKey(slot, RowsOf(c))
    BY <1>0 DEF BothOK, Halfway
  <2>2. slot # Zero
    BY <1>3 DEF Zero
  <2> QED
    BY <2>1, <2>2 DEF SameKey
<1>5. slot.seckey \in Key
  BY <1>1, <1>4 DEF RowsOf, Row
<1>6. AtServer(c) = [seckey |-> slot.seckey, status |-> r.state]
  BY <1>1, <1>4, RowSide
<1>7. PICK q : /\ {p \in db' : p.clientid = NameOf(i)} = {q}
               /\ q.seckey = r.seckey /\ q.state = 0
  BY <1>0, <1>4, RevokeWrites
<1>8. AtServer(c)' = [seckey |-> slot.seckey, status |-> 0]
  <2>1. RowsOf(c)' = {q}
    BY <1>7 DEF RowsOf
  <2> QED
    BY <1>1, <1>4, <1>7, <2>1, RowSide
<1>9. ASSUME NEW d \in Client, d # c
      PROVE  Still(d)
  <2>1. cur[d] # i
    BY <1>0, <1>9, OwnWay
  <2>2. RowsOf(d)' = RowsOf(d)
    BY <1>0, <1>9, RowsKept
  <2> QED
    BY <1>0, <2>1, <2>2, ElsewherePair, RowKept DEF Still
<1>10. /\ AtClient(c)' = AtClient(c)
       /\ OnWay(c)' \in {OnWay(c), [seckey |-> slot.seckey, status |-> 0]}
  <2>1. CASE cur[c] # i
    BY <1>0, <1>1, <2>1, ElsewherePair
  <2>2. CASE cur[c] = i
    <3>1. /\ work'[i].pc = "send" /\ work'[i].rsp.rv = 0 /\ work'[i].rsp \in RespondMsg
      <4>1. work'[i].pc = "send" /\ work'[i].rsp.rv = 0
        BY <1>0, OuterRsp
      <4> QED
        BY <4>1 DEF IndInv, WorkOK
    <3>2. /\ ~AtMenu(c) /\ creq'[c] = creq[c] /\ AtClient(c)' = AtClient(c)
          /\ OwnKey(c)' = OwnKey(c)
          /\ work[i].req.cmdType = creq[c].cmdType
          /\ work[i].req.authCode = creq[c].authCode
          /\ ResponseTo(c)' = work'[i].rsp
      BY <1>0, <1>1, <2>2, <3>1, OwnWay
    <3>3. creq[c].cmdType = "Revoke"
      BY <1>1, <3>2
    <3>4. creq[c].authCode = Mac(c, OwnKey(c).seckey)
      BY <1>0, <1>1, <3>2, <3>3 DEF AskedOK
    <3>5. Mac(c, slot.seckey)[2] = Mac(c, OwnKey(c).seckey)[2]
      BY <1>2, <3>2, <3>4
    <3>6. slot.seckey = OwnKey(c).seckey
      BY <3>5 DEF Mac
    <3>7. work'[i].rsp # NoRsp
      BY <1>0, <3>1
    <3>8. OnWay(c)' = [seckey |-> OwnKey(c)'.seckey, status |-> 0]
      BY <3>1, <3>2, <3>3, <3>7 DEF OnWay
    <3> QED
      BY <3>2, <3>6, <3>8
  <2> QED
    BY <2>1, <2>2
<1> HIDE DEF slot
<1> QED
  BY <1>1, <1>5, <1>6, <1>8, <1>9, <1>10, PairRevokes

\* All other calls are no step of the pair, and a refusal is no news.
LEMMA QuietPair ==
    ASSUME Base, NEW i \in Conn, WorkerStep(i), ~Receive(i), ~Send(i),
           ~UpdateRows(i), ~InsertRow(i), ~RevokeDb(i), UNCHANGED clientVars
    PROVE  UNCHANGED Pair!pairVars
<1>0. IndInv /\ Dispatched
  BY BaseFacts
<1>1. SUFFICES ASSUME NEW d \in Client PROVE Still(d)
  BY NobodyMoves
<1>2. AtServer(d)' = AtServer(d)
  BY <1>0, RowsKept, RowKept
<1>3. CASE cur[d] # i
  BY <1>2, <1>3, ElsewherePair DEF Still
<1>4. CASE cur[d] = i
  <2>1. /\ work[i].req.cmdType = creq[d].cmdType /\ creq'[d] = creq[d]
        /\ AtClient(d)' = AtClient(d)
        /\ OnWay(d) = [seckey |-> NoKey, status |-> 0]
        /\ ResponseTo(d)' = IF work'[i].pc = "send" THEN work'[i].rsp ELSE NoRsp
    BY <1>4, OwnWay
  <2>2. ASSUME work'[i].pc = "send"
        PROVE  work'[i].rsp.rv # 0 \/ creq[d].cmdType = "Check"
    <3>1. CASE CheckId(i)
      <4>1. work'[i].rsp.rv = 2
        BY <1>0, <2>2, <3>1, OuterRsp
      <4> QED
        BY <4>1
    <3>2. CASE AgreeReject(i) \/ RevokeReject(i)
      <4>1. work'[i].rsp.rv = 1
        BY <1>0, <3>2, OuterRsp
      <4> QED
        BY <4>1
    <3>3. CASE Check(i)
      BY <1>0, <2>1, <3>3 DEF Check, At, Dispatched
    <3>4. CASE \/ QueryNode(i) \/ AgreeAccept(i) \/ SelectKey(i) \/ DecideUpdate(i)
               \/ DecideInsert(i) \/ SelectMax(i) \/ TakeId(i) \/ RevokeAccept(i)
               \/ ShmWriteStep(i)
      BY <1>0, <2>2, <3>4, OuterCalls, AgreeCalls, RevokeCalls, WriteCalls
         DEF Moves, ShmWriteStep
    <3> QED
      BY <3>1, <3>2, <3>3, <3>4 DEF WorkerStep, AgreeStep, RevokeStep
  <2>3. OnWay(d)' = [seckey |-> NoKey, status |-> 0]
    BY <2>1, <2>2 DEF OnWay
  <2> QED
    BY <1>2, <2>1, <2>3 DEF Still
<1> QED
  BY <1>3, <1>4

LEMMA WorkerPair ==
    ASSUME Enough, Base, RevokeFits, NEW i \in Conn, WorkerStep(i), UNCHANGED clientVars,
           IndInv'
    PROVE  Pair!Next \/ UNCHANGED Pair!pairVars
<1>1. CASE Receive(i) \/ Send(i)
  BY <1>1, OuterPair
<1>2. CASE ~Receive(i) /\ ~Send(i)
  <2>1. NameOf(i) \in Client
    BY <1>2, BaseFacts, Inner, Facts DEF Base
  <2> QED
    BY <1>2, <2>1, AgreePair, RevokePair, QuietPair
<1> QED
  BY <1>1, <1>2

\* A crash loses what is on its way and not sent yet, and changes neither side.
LEMMA CrashPair ==
    ASSUME Base, Crash, UNCHANGED clientVars
    PROVE  Pair!Next
<1>0. /\ ConnOK /\ CurOK /\ conn \in [Conn -> Connection]
      /\ cur \in [Client -> Conn \cup {NoConn}] /\ UNCHANGED <<cshm, creq, cur>>
      /\ UNCHANGED db
  BY BaseFacts DEF clientVars, Crash
<1>1. SUFFICES ASSUME NEW d \in Client
               PROVE  /\ AtServer(d)' = AtServer(d) /\ AtClient(d)' = AtClient(d)
                      /\ OnWay(d)' \in {OnWay(d), [seckey |-> NoKey, status |-> 0]}
  BY PairLoses
<1>2. AtServer(d)' = AtServer(d)
  BY <1>0, RowKept DEF RowsOf
<1>3. OwnKey(d)' = OwnKey(d) /\ AtClient(d)' = AtClient(d) /\ creq'[d] = creq[d]
  BY <1>0 DEF OwnKey, AtClient
<1>4. \A i \in Conn : /\ work'[i].pc = "idle"
                      /\ conn'[i].st = "answered" =>
                            conn[i].st = "answered" /\ conn'[i].rsp = conn[i].rsp
  BY <1>0 DEF Crash, Idle, FreeConn, Connection
<1>5. ResponseTo(d)' = NoRsp \/ ResponseTo(d)' = ResponseTo(d)
  BY <1>0, <1>4 DEF ResponseTo, AtMenu
<1>6. CASE ResponseTo(d)' = NoRsp
  <2>1. OnWay(d)' = [seckey |-> NoKey, status |-> 0]
    BY <1>6 DEF OnWay
  <2> QED
    BY <1>2, <1>3, <2>1
<1>7. CASE ResponseTo(d)' = ResponseTo(d)
  BY <1>2, <1>3, <1>7, WayKept
<1> QED
  BY <1>5, <1>6, <1>7

\* Start-up, and what happens to a request on its way.
LEMMA NoStepPair ==
    ASSUME Base, (StartUp /\ UNCHANGED clientVars) \/ Alter \/ UNCHANGED vars
    PROVE  UNCHANGED Pair!pairVars
<1>0. IndInv /\ conn \in [Conn -> Connection] /\ cur \in [Client -> Conn \cup {NoConn}]
  BY BaseFacts
<1>1. /\ UNCHANGED clientVars /\ UNCHANGED <<db, work>>
      /\ \A i \in Conn : conn'[i].st = conn[i].st /\ conn'[i].rsp = conn[i].rsp
  <2>1. CASE Alter
    <3>1. UNCHANGED clientVars /\ UNCHANGED <<db, work>>
      BY <1>0, <2>1, Altered DEF serverVars
    <3>2. PICK i \in Conn, w \in AgreeRequest :
            conn' = [conn EXCEPT ![i] = [conn[i] EXCEPT !.req = w]]
      BY <1>0, <2>1, Altered
    <3>3. \A j \in Conn : conn'[j].st = conn[j].st /\ conn'[j].rsp = conn[j].rsp
      BY <1>0, <3>2 DEF Connection
    <3> QED
      BY <3>1, <3>3
  <2>2. CASE StartUp /\ UNCHANGED clientVars
    BY <2>2 DEF StartUp, Boot, LoadRow, Listen
  <2>3. CASE UNCHANGED vars
    <3>1. conn' = conn /\ UNCHANGED serverVars /\ UNCHANGED clientVars
      BY <2>3 DEF vars
    <3> QED
      BY <3>1 DEF serverVars
  <2> QED
    BY <2>1, <2>2, <2>3
<1>2. UNCHANGED <<cshm, creq, cur>>
  BY <1>1 DEF clientVars
<1>3. SUFFICES ASSUME NEW d \in Client PROVE Still(d)
  BY NobodyMoves
<1>4. ResponseTo(d)' = ResponseTo(d)
  BY <1>0, <1>1, <1>2 DEF ResponseTo, AtMenu
<1>5. OwnKey(d)' = OwnKey(d) /\ RowsOf(d)' = RowsOf(d) /\ creq'[d] = creq[d]
  BY <1>1, <1>2 DEF OwnKey, RowsOf
<1> QED
  BY <1>4, <1>5, WayKept, RowKept DEF Still

\* A client asks.
LEMMA RequestPair ==
    ASSUME Base, NEW c \in Client, NEW req \in RequestMsg, Asks(c, req)
    PROVE  UNCHANGED Pair!pairVars
<1>0. /\ IndInv /\ ConnOK /\ CurOK /\ conn \in [Conn -> Connection]
      /\ cur \in [Client -> Conn \cup {NoConn}]
      /\ creq \in [Client -> RequestMsg \cup {NoReq}]
      /\ NoClient \notin Client /\ NoConn \notin Conn
  BY BaseFacts
<1>1. /\ AtMenu(c) /\ creq' = [creq EXCEPT ![c] = req]
      /\ cshm' = cshm /\ UNCHANGED serverVars
      /\ \/ UNCHANGED <<conn, cur>>
         \/ \E i \in Conn :
               /\ conn[i].st = "free" /\ work[i].pc = "idle"
               /\ cur' = [cur EXCEPT ![c] = i]
               /\ conn' = [conn EXCEPT ![i] =
                             [st |-> "sent", client |-> c, open |-> TRUE,
                              req |-> req, rsp |-> NoRsp]]
  BY <1>0, Requested DEF Asks
<1>2. SUFFICES ASSUME NEW d \in Client PROVE Still(d)
  BY NobodyMoves
<1>3. RowsOf(d)' = RowsOf(d) /\ OwnKey(d)' = OwnKey(d) /\ work' = work
  BY <1>1 DEF RowsOf, OwnKey, serverVars
<1>4. AtServer(d)' = AtServer(d) /\ AtClient(d)' = AtClient(d)
  BY <1>3, RowKept DEF AtClient
<1>5. CASE d # c
  <2>1. creq'[d] = creq[d]
    BY <1>0, <1>1, <1>5
  <2>2. cur'[d] = cur[d] /\ (cur[d] # NoConn => conn'[cur[d]] = conn[cur[d]])
    <3>1. \A i \in Conn : conn[i].st = "free" => cur[d] # i
      BY <1>0 DEF CurOK, ConnOK
    <3> QED
      BY <1>0, <1>1, <1>5, <3>1
  <2>3. ResponseTo(d)' = ResponseTo(d)
    BY <1>3, <2>1, <2>2 DEF ResponseTo, AtMenu
  <2> QED
    BY <1>3, <1>4, <2>1, <2>3, WayKept DEF Still
<1>6. CASE d = c
  <2>1. ResponseTo(c) = NoRsp
    BY <1>1 DEF ResponseTo
  <2>2. ResponseTo(c)' = NoRsp
    <3>1. CASE UNCHANGED <<conn, cur>>
      <4>1. cur'[c] = NoConn
        BY <1>0, <1>1, <3>1 DEF CurOK
      <4> QED
        BY <4>1 DEF ResponseTo
    <3>2. ASSUME NEW i \in Conn, work[i].pc = "idle",
                 cur' = [cur EXCEPT ![c] = i],
                 conn' = [conn EXCEPT ![i] =
                            [st |-> "sent", client |-> c, open |-> TRUE,
                             req |-> req, rsp |-> NoRsp]]
          PROVE  ResponseTo(c)' = NoRsp
      <4>1. cur'[c] = i /\ conn'[i].st = "sent" /\ work'[i].pc = "idle"
        BY <1>0, <1>3, <3>2
      <4> QED
        BY <4>1 DEF ResponseTo
    <3> QED
      BY <1>1, <3>1, <3>2
  <2>3. OnWay(c)' = OnWay(c)
    BY <2>1, <2>2 DEF OnWay
  <2> QED
    BY <1>4, <1>6, <2>3 DEF Still
<1> QED
  BY <1>5, <1>6

\* A client learns what it is told, or ends its operation without.
LEMMA ReceivePair ==
    ASSUME Base, PairOK, NEW c \in Client, ClientReceive(c), IndInv', OwnTable'
    PROVE  Pair!Next \/ UNCHANGED Pair!pairVars
<1> DEFINE none == [seckey |-> NoKey, status |-> 0]
<1>0. /\ IndInv /\ ConnOK /\ CurOK /\ AskedOK /\ OwnTable /\ Wired
      /\ cur \in [Client -> Conn \cup {NoConn}] /\ NoConn \notin Conn
      /\ creq \in [Client -> RequestMsg \cup {NoReq}]
      /\ cshm \in [Client -> [1..1 -> NodeSHMInfo]]
      /\ BufOK /\ KeyHolders /\ NoRsp \notin RespondMsg
  <2>1. cshm \in [Client -> [1..1 -> NodeSHMInfo]]
    BY BaseFacts DEF IndInv, TypeOK, ClientTypeOK
  <2> QED
    BY <2>1, BaseFacts DEF Base, PairOK
<1>1. /\ Leaves(c)
      /\ \/ cshm' = cshm
         \/ /\ Answered(c) /\ conn[cur[c]].rsp \in RespondMsg
            /\ cshm' = [cshm EXCEPT ![c] = TableAfter(c, conn[cur[c]].rsp)]
  BY <1>0, OnlyAnswers
<1>2. /\ UNCHANGED serverVars
      /\ creq' = [creq EXCEPT ![c] = NoReq] /\ AtMenu(c)' /\ ~AtMenu(c)
      /\ cur' = [cur EXCEPT ![c] = NoConn]
      /\ \A j \in Conn : j # cur[c] => conn'[j] = conn[j]
  BY <1>0, <1>1, Gone DEF Leaves
<1>3. \A d \in Client : AtServer(d)' = AtServer(d)
  BY <1>2, RowKept DEF RowsOf, serverVars
<1>4. ASSUME NEW d \in Client \ {c}
      PROVE  Still(d)
  <2>1. creq'[d] = creq[d] /\ cur'[d] = cur[d] /\ work' = work
    BY <1>0, <1>2 DEF serverVars
  <2>2. cur[d] # NoConn => cur[d] \in Conn /\ conn'[cur[d]] = conn[cur[d]]
    <3>1. cur[d] # NoConn => cur[d] # cur[c]
      BY <1>0 DEF CurOK
    <3> QED
      BY <1>0, <1>2, <3>1
  <2>3. ResponseTo(d)' = ResponseTo(d)
    BY <2>1, <2>2 DEF ResponseTo, AtMenu
  <2>4. OwnKey(d)' = OwnKey(d)
    <3>1. cshm'[d] = cshm[d]
      BY <1>0, <1>1
    <3> QED
      BY <3>1 DEF OwnKey
  <2> QED
    BY <1>3, <2>1, <2>3, <2>4, WayKept DEF Still
<1>5. OnWay(c)' = none
  BY <1>2 DEF OnWay, ResponseTo
<1>6. ASSUME OwnKey(c)' = OwnKey(c)
      PROVE  Pair!Next
  <2>1. AtClient(c)' = AtClient(c)
    BY <1>6 DEF AtClient
  <2>2. \A d \in Client : /\ AtServer(d)' = AtServer(d) /\ AtClient(d)' = AtClient(d)
                          /\ OnWay(d)' \in {OnWay(d), none}
    BY <1>3, <1>4, <1>5, <2>1 DEF Still
  <2> QED
    BY <2>2, PairLoses
<1>7. CASE cshm' = cshm
  BY <1>6, <1>7 DEF OwnKey
<1>8. ASSUME Answered(c), conn[cur[c]].rsp \in RespondMsg,
             cshm' = [cshm EXCEPT ![c] = TableAfter(c, conn[cur[c]].rsp)]
      PROVE  Pair!Next
  <2> DEFINE rsp == conn[cur[c]].rsp
  <2>1. /\ rsp.rv # 0 \/ creq[c].cmdType = "Check" => OwnKey(c)' = OwnKey(c)
        /\ rsp.rv = 0 /\ creq[c].cmdType = "NewOrUpdate" => OwnKey(c)' = Agreed(c, rsp)
        /\ rsp.rv = 0 /\ creq[c].cmdType = "Revoke" =>
              OwnKey(c)' = [OwnKey(c) EXCEPT !.status = 0]
        /\ creq[c].cmdType \in {"NewOrUpdate", "Check", "Revoke"}
    BY <1>0, <1>8, AfterAnswer
  <2>2. ResponseTo(c) = rsp /\ rsp # NoRsp
    BY <1>0, <1>8 DEF Answered, ResponseTo
  <2>3. CASE rsp.rv = 0 /\ creq[c].cmdType = "NewOrUpdate"
    <3> DEFINE key == <<creq[c].r1, rsp.r2>>
    <3>1. key \in Key
      BY <1>0, <1>2, <1>8, <2>3 DEF AskedOK, RespondMsg, Key
    <3>2. OnWay(c) = [seckey |-> key, status |-> 1]
      BY <2>2, <2>3 DEF OnWay
    <3>3. OwnKey(c)'.seckey = key /\ OwnKey(c)'.status = 1
      BY <2>1, <2>3 DEF Agreed
    <3> HIDE DEF key
    <3>4. AtClient(c)' = [seckey |-> key, status |-> 1]
      BY <3>3 DEF AtClient
    <3>5. key # NoKey
      BY <3>1, NoKeyAssumption
    <3> QED
      BY <1>3, <1>4, <1>5, <3>2, <3>4, <3>5, PairLearns
  <2>4. CASE rsp.rv = 0 /\ creq[c].cmdType = "Revoke"
    <3>1. OwnKey(c) \in NodeSHMInfo /\ OwnKey(c).status = 1
      BY <1>0, <1>2, <2>4, OneSlotTable DEF AskedOK
    <3>2. OwnKey(c).seckey # NoKey
      <4>1. OwnKey(c) = cshm[c][1]
        BY <1>0, OneSlotTable
      <4>2. OwnKey(c).seckey \in Key
        BY <1>0, <3>1, <4>1 DEF IndInv, UsableOK
      <4> QED
        BY <4>2, NoKeyAssumption
    <3>3. OnWay(c) = [seckey |-> OwnKey(c).seckey, status |-> 0]
      BY <2>2, <2>4 DEF OnWay
    <3>4. OwnKey(c)'.seckey = OwnKey(c).seckey /\ OwnKey(c)'.status = 0
      BY <2>1, <2>4, <3>1 DEF NodeSHMInfo
    <3>5. AtClient(c)' = OnWay(c) /\ OnWay(c).seckey = AtClient(c).seckey
      BY <3>3, <3>4 DEF AtClient
    <3>6. OnWay(c).seckey # NoKey
      BY <3>2, <3>3
    <3> QED
      BY <1>3, <1>4, <1>5, <3>5, <3>6, PairLearns
  <2>5. CASE rsp.rv # 0 \/ creq[c].cmdType = "Check"
    BY <1>6, <2>1, <2>5
  <2> HIDE DEF rsp
  <2> QED
    BY <2>1, <2>3, <2>4, <2>5
<1> QED
  BY <1>1, <1>7, <1>8

-----------------------------------------------------------------------------
(* The theorem.                                                            *)

LEMMA PairStep ==
    ASSUME Enough, "noSend" \notin Faults, Base, PairOK, [Next]_vars, IndInv', OwnTable'
    PROVE  [Pair!Next]_Pair!pairVars
<1>1. ASSUME NEW c \in Client, ClientStep(c)
      PROVE  Pair!Next \/ UNCHANGED Pair!pairVars
  BY <1>1, BaseFacts, ClientKinds, RequestPair, ReceivePair
<1>2. Pair!Next \/ UNCHANGED Pair!pairVars
  BY <1>1, WorkerPair, CrashPair, NoStepPair DEF Next, Server, PairOK
<1> QED
  BY <1>2

LEMMA PairStart == Init => Pair!Init
<1> SUFFICES ASSUME Init PROVE Pair!Init
  OBVIOUS
<1> DEFINE none == [seckey |-> NoKey, status |-> 0]
<1>1. /\ db = {} /\ \A c \in Client : AtMenu(c) /\ cshm[c] = ZeroTable(1)
  BY DEF Init, ServerInit, ClientInit, AtMenu
<1>2. ASSUME NEW c \in Client
      PROVE  AtServer(c) = none /\ AtClient(c) = none /\ OnWay(c) = none
  <2>1. RowsOf(c) = {} /\ ResponseTo(c) = NoRsp
    BY <1>1, <1>2 DEF RowsOf, ResponseTo
  <2>2. OwnKey(c) = Zero
    <3>1. 1 \in Nat /\ cshm[c] = ZeroTable(1)
      BY <1>1, <1>2
    <3> QED
      BY <3>1, ReadZeroes DEF OwnKey
  <2> QED
    BY <2>1, <2>2 DEF AtServer, AtClient, OnWay, Zero
<1>3. Pair!NeverAgreed = none /\ Pair!NoNews = none
  BY DEF Pair!NeverAgreed, Pair!NoNews
<1> HIDE DEF none
<1>4. /\ ServerSide = [c \in Client |-> none] /\ ClientSide = [c \in Client |-> none]
      /\ OnItsWay = [c \in Client |-> none]
  BY <1>2, Sides
<1> QED
  BY <1>3, <1>4 DEF Pair!Init

\* Requests that do not overlap, statements that do not fail, a slot and an id
\* for every registered client, clients that do not die between connect and
\* send, and buffers that do not survive an operation: the server with its
\* workers and two stores, the clients with theirs, and the connections
\* between them implement the pair of keys of KeyPair. No crash and no restart
\* changes a side, nothing but an agreement or a revocation changes the
\* server's, and nothing but the news of one the client's; across lost
\* answers, clients that give up, and nonces that change in transit.
THEOREM Refinement ==
    ASSUME MaxWorkers = 1, "dbError" \notin Faults, "noSend" \notin Faults,
           "stale" \notin Faults, IsFiniteSet(Registered),
           Cardinality(Registered) <= MaxNode, Cardinality(Registered) <= MaxKeyId
    PROVE  Spec => PairSpec
<1>1. Enough
  BY DEF Enough
<1>2. Spec => [](Base /\ EndsOK)
  BY <1>1, AlwaysBase
<1>3. ASSUME Base, Base', PairOK, [Next]_vars
      PROVE  PairOK' /\ [Pair!Next]_Pair!pairVars
  <2>1. /\ IndInv /\ AloneSafe /\ RevokedOK /\ Wired /\ OwnTable
        /\ BufOK /\ RevokeFits /\ Served /\ MaxWorkers = 1
    BY <1>3, BaseFacts DEF Base, PairOK
  <2>2. IndInv' /\ OwnTable'
    BY <1>3 DEF Base, AloneSafe, Asked3
  <2>3. BufOK' /\ RevokeFits' /\ Served'
    BY <1>3, <2>1, BufNext, RevokeFitsNext, ServedNext
  <2>4. KeyHolders'
    BY <1>3, <2>2, KeyHoldersNext
  <2>5. [Pair!Next]_Pair!pairVars
    BY <1>1, <1>3, <2>2, PairStep
  <2> QED
    BY <2>3, <2>4, <2>5 DEF PairOK
<1>4. Base /\ Base' /\ PairOK /\ [Next]_vars => PairOK' /\ [Pair!Next]_Pair!pairVars
  BY <1>3
<1> QED
  BY <1>2, <1>4, PairInit, PairStart, PTL DEF Spec, PairSpec, Pair!Spec
============================================================================
