---------------------------- MODULE ThreadProofs ----------------------------
(***************************************************************************)
(* The threads of the server, for every number of threads, connections,    *)
(* addresses, slots and clients: which socket a worker has, what the       *)
(* signal stops, what can end the process, and who is in the table and the *)
(* rows.                                                                   *)
(***************************************************************************)
EXTENDS ServerThreads, SecKeyShmProofs

\* A worker goes on with its request, and nothing of the process changes but
\* the next call of that worker.
Serve == Pc \ {"none", "lookup", "recv", "erase"}

ServeStep(t) ==
    /\ pc[t] \in Serve
    /\ \E next \in Serve : Goto(t, next)
    /\ StillRunning
    /\ UNCHANGED <<registry, st, sock, mainVars>>

\* What the steps of a process are to its sockets.
SocketStep(t) == Lookup(t) \/ Recv(t) \/ ServeStep(t) \/ Close(t) \/ Erase(t)

\* Whatever a worker does is a step of its frame or one inside its request.
LEMMA WorkerSteps ==
    ASSUME TypeOK, NEW t \in Thread, Worker(t)
    PROVE  SocketStep(t) /\ UNCHANGED request
<1> USE DEF Serve, Pc, At, DbStep, ShmStep, Reaches
<1>1. ASSUME Frame(t)
      PROVE  SocketStep(t) /\ UNCHANGED request
  BY <1>1 DEF Frame, SocketStep
<1>2. ASSUME LocalCode(t)
      PROVE  (Recv(t) \/ ServeStep(t)) /\ UNCHANGED request
  <2>1. CASE AskRegistered(t)
    BY <2>1 DEF AskRegistered
  <2>2. CASE IdChecked(t)
    <3>1. /\ pc[t] = "rows" /\ StillRunning
          /\ UNCHANGED <<registry, st, sock, mainVars, request>>
      BY <2>2 DEF IdChecked, ReadRows
    <3>2. Goto(t, "attach") \/ Goto(t, "close")
      BY <2>2, Zenon DEF IdChecked
    <3> QED
      BY <3>1, <3>2 DEF ServeStep
  <2>3. CASE AgreeWritten(t)
    BY <2>3 DEF AgreeWritten, Detach, ServeStep
  <2>4. CASE RowSelected(t)
    <3>1. /\ pc[t] = "rows" /\ StillRunning
          /\ UNCHANGED <<registry, st, sock, mainVars, request>>
      BY <2>4 DEF RowSelected, ReadRows
    <3>2. Goto(t, "doSql") \/ Goto(t, "query")
      BY <2>4 DEF RowSelected
    <3> QED
      BY <3>1, <3>2 DEF ServeStep
  <2>5. CASE NodeRead(t)
    BY <2>5 DEF NodeRead, Detach, ServeStep
  <2>6. CASE RevokeWritten(t)
    BY <2>6 DEF RevokeWritten, Detach, ServeStep
  <2> QED
    BY <1>2, <2>1, <2>2, <2>3, <2>4, <2>5, <2>6 DEF LocalCode
<1>3. ASSUME NEW c, TableStep(t, c)
      PROVE  ServeStep(t)
  <2>1. CASE Attach(t)
    BY <2>1 DEF Attach, ServeStep
  <2>6. CASE Mapped(t)
    <3>1. Goto(t, "readSlot") \/ Goto(t, "ownSlot")
      BY <2>6 DEF Mapped
    <3> QED
      BY <2>6, <3>1 DEF Mapped, ServeStep
  <2>2. CASE ReadSlot(t, c)
    BY <2>2 DEF ReadSlot, ServeStep
  <2>3. CASE OwnSlot(t)
    BY <2>3 DEF OwnSlot, ServeStep
  <2>4. CASE FreeSlot(t)
    BY <2>4 DEF FreeSlot, ServeStep
  <2>5. CASE CopyHead(t) \/ CopyKey(t)
    BY <2>5 DEF CopyHead, CopyKey, ServeStep
  <2> QED
    BY <1>3, <2>1, <2>2, <2>3, <2>4, <2>5, <2>6 DEF TableStep
<1>4. ASSUME NEW c, DatabaseStep(t, c)
      PROVE  ServeStep(t)
  <2>1. CASE Query(t, c)
    <3>1. Goto(t, "rows") \/ Goto(t, "reply")
      BY <2>1 DEF Query
    <3> QED
      BY <2>1, <3>1 DEF Query, ServeStep
  <2>2. CASE Reply(t) \/ ClearResult(t) \/ Return(t) \/ SqlReply(t, c)
    BY <2>2 DEF Reply, ClearResult, Return, SqlReply, ServeStep
  <2>3. CASE FreeResult(t)
    BY <2>3 DEF FreeResult, ServeStep
  <2>4. CASE StoreResult(t)
    BY <2>4 DEF StoreResult, ServeStep
  <2>5. CASE DoSql(t)
    <3>1. Goto(t, "close") \/ Goto(t, "sqlReply")
      BY <2>5 DEF DoSql
    <3> QED
      BY <2>5, <3>1 DEF DoSql, ServeStep
  <2> QED
    BY <1>4, <2>1, <2>2, <2>3, <2>4, <2>5 DEF DatabaseStep
<1> QED
  BY <1>1, <1>2, <1>3, <1>4 DEF Worker, SocketStep

\* The steps of the process, and who takes them.
LEMMA ProcessSteps ==
    ASSUME TypeOK, [Next]_vars
    PROVE  \/ UNCHANGED <<processVars, request>>
           \/ \E i \in Conn : Request(i)
           \/ \E t \in Thread : SocketStep(t) /\ UNCHANGED request
           \/ MainStep /\ UNCHANGED request
           \/ CatchSignal /\ UNCHANGED request
           \/ (\E cause \in Causes : Die(cause)) /\ UNCHANGED request
BY WorkerSteps DEF Next, vars, MainThread, End

\* What the proofs use of the assumptions on the markers.
LEMMA Markers ==
    /\ Null \notin Conn /\ Absent \notin Conn /\ BadFd \notin Conn
    /\ Null # Absent /\ Null # BadFd /\ Absent # BadFd
    /\ Absent \notin Socket /\ NoThread \notin Thread
BY ProcessAssumption DEF Socket

-----------------------------------------------------------------------------
(* The sockets.                                                            *)

\* Every worker keeps the socket that it found, every connection that somebody
\* has was made and has a request.
LEMMA SocketsStep ==
    ASSUME TypeOK, SocketsOK, [Next]_vars
    PROVE  SocketsOK'
<1> USE Markers DEF TypeOK, ProcessTypeOK
<1>1. CASE UNCHANGED <<processVars, request>>
  BY <1>1 DEF SocketsOK, processVars
<1>2. ASSUME NEW i \in Conn, Request(i)
      PROVE  SocketsOK'
  BY <1>2 DEF SocketsOK, Request, Connect, mainVars
<1>3. ASSUME NEW t \in Thread, SocketStep(t), UNCHANGED request
      PROVE  SocketsOK'
  <2>1. CASE Lookup(t)
    BY <1>3, <2>1 DEF SocketsOK, Lookup, LookupAs, At, Goto
  <2>2. CASE Recv(t)
    BY <1>3, <2>2 DEF SocketsOK, Recv, At, Goto, mainVars
  <2>3. CASE ServeStep(t)
    BY <1>3, <2>3 DEF SocketsOK, ServeStep, Serve, Goto, mainVars
  <2>4. CASE Close(t)
    BY <1>3, <2>4 DEF SocketsOK, Close, At, Goto, mainVars
  <2>5. CASE Erase(t)
    BY <1>3, <2>5 DEF SocketsOK, Erase, At, Goto, mainVars
  <2> QED
    BY <1>3, <2>1, <2>2, <2>3, <2>4, <2>5 DEF SocketStep
<1>4. ASSUME MainStep, UNCHANGED request
      PROVE  SocketsOK'
  <2>1. CASE CheckStop
    BY <1>4, <2>1 DEF SocketsOK, CheckStop, CheckStopIf, Main
  <2>2. CASE Accept
    BY <1>4, <2>2 DEF SocketsOK, Accept, Main
  <2>3. CASE AcceptTimeout
    BY <1>4, <2>3 DEF SocketsOK, AcceptTimeout, Main
  <2>4. CASE AcceptError
    BY <1>4, <2>4 DEF SocketsOK, AcceptError, Main
  <2>5. CASE Create
    BY <1>4, <2>5 DEF SocketsOK, Create, Main
  <2>6. CASE Insert
    BY <1>4, <2>6 DEF SocketsOK, Insert, Main
  <2> QED
    BY <1>4, <2>1, <2>2, <2>3, <2>4, <2>5, <2>6 DEF MainStep
<1>5. CASE CatchSignal /\ UNCHANGED request
  BY <1>5 DEF SocketsOK, CatchSignal
<1>6. ASSUME NEW cause \in Causes, Die(cause), UNCHANGED request
      PROVE  SocketsOK'
  BY <1>6 DEF SocketsOK, Die
<1> QED
  BY <1>1, <1>2, <1>3, <1>4, <1>5, <1>6, ProcessSteps

\* Unless accept fails, no two hold one connection.
LEMMA OwnersStep ==
    ASSUME TypeOK, SocketsOK, OwnersOK, [Next]_vars
    PROVE  OwnersOK'
<1> USE Markers DEF TypeOK, ProcessTypeOK
<1>1. CASE UNCHANGED <<processVars, request>>
  BY <1>1 DEF OwnersOK, processVars
<1>2. ASSUME NEW i \in Conn, Request(i)
      PROVE  OwnersOK'
  BY <1>2 DEF OwnersOK, SocketsOK, Request, Connect, mainVars
<1>3. ASSUME NEW t \in Thread, SocketStep(t)
      PROVE  OwnersOK'
  <2>1. CASE Lookup(t)
    BY <2>1 DEF OwnersOK, SocketsOK, Lookup, LookupAs, At, Goto
  <2>2. CASE Recv(t)
    BY <2>2 DEF OwnersOK, Recv, At, Goto, mainVars
  <2>3. CASE ServeStep(t)
    BY <2>3 DEF OwnersOK, ServeStep, Serve, Goto, mainVars
  <2>4. CASE Close(t)
    <3> SUFFICES ASSUME "failed" \notin mishaps
                 PROVE  OwnersOK'
      BY <2>4 DEF OwnersOK, Close, mainVars
    <3>1. /\ sock[t] = registry[t] /\ sock[t] \in Conn
          /\ UNCHANGED <<registry, mainVars>>
          /\ pc' = [pc EXCEPT ![t] = "erase"]
          /\ st' = [st EXCEPT ![sock[t]] = "closed"]
      BY <2>4 DEF SocketsOK, Close, At, Goto
    <3>2. main \in {"create", "insert"} /\ accepted \in Conn => accepted # sock[t]
      BY <3>1 DEF OwnersOK
    <3>3. \A u \in Thread : registry[u] \in Conn =>
             st'[registry[u]] = IF pc'[u] = "erase" THEN "closed" ELSE "open"
      BY <3>1 DEF OwnersOK
    <3> QED
      BY <3>1, <3>2, <3>3 DEF OwnersOK, mainVars
  <2>5. CASE Erase(t)
    BY <2>5 DEF OwnersOK, Erase, At, Goto, mainVars
  <2> QED
    BY <1>3, <2>1, <2>2, <2>3, <2>4, <2>5 DEF SocketStep
<1>4. ASSUME MainStep
      PROVE  OwnersOK'
  <2>1. CASE CheckStop
    BY <2>1 DEF OwnersOK, CheckStop, CheckStopIf, Main
  <2>2. CASE Accept
    <3> SUFFICES ASSUME "failed" \notin mishaps
                 PROVE  OwnersOK'
      BY <2>2 DEF OwnersOK, Accept
    <3>1. PICK i \in Conn : /\ st[i] = "queued" /\ accepted' = i
                            /\ st' = [st EXCEPT ![i] = "open"]
                            /\ UNCHANGED <<registry, pc, mishaps>>
      BY <2>2 DEF Accept
    <3>2. \A u \in Thread : registry[u] # i
      BY <3>1 DEF OwnersOK
    <3> QED
      BY <3>1, <3>2 DEF OwnersOK
  <2>3. CASE AcceptTimeout
    BY <2>3 DEF OwnersOK, AcceptTimeout, Main
  <2>4. CASE AcceptError
    BY <2>4 DEF OwnersOK, AcceptError, Main
  <2>5. CASE Create
    BY <2>5 DEF OwnersOK, SocketsOK, Create, Main
  <2>6. CASE Insert
    BY <2>6 DEF OwnersOK, SocketsOK, Insert, Main
  <2> QED
    BY <1>4, <2>1, <2>2, <2>3, <2>4, <2>5, <2>6 DEF MainStep
<1>5. CASE CatchSignal
  BY <1>5 DEF OwnersOK, CatchSignal
<1>6. ASSUME NEW cause \in Causes, Die(cause)
      PROVE  OwnersOK'
  BY <1>6 DEF OwnersOK, Die
<1> QED
  BY <1>1, <1>2, <1>3, <1>4, <1>5, <1>6, ProcessSteps

\* No null pointer gets into the registry unnoticed.
LEMMA NullsStep ==
    ASSUME TypeOK, SocketsOK, NullsOK, [Next]_vars
    PROVE  NullsOK'
<1> USE Markers DEF TypeOK, ProcessTypeOK
<1>1. CASE UNCHANGED <<processVars, request>>
  BY <1>1 DEF NullsOK, processVars
<1>2. ASSUME NEW i \in Conn, Request(i)
      PROVE  NullsOK'
  BY <1>2 DEF NullsOK, Request, Connect, mainVars
<1>3. ASSUME NEW t \in Thread, SocketStep(t)
      PROVE  NullsOK'
  <2>1. CASE Lookup(t)
    BY <2>1 DEF NullsOK, Lookup, LookupAs
  <2>2. CASE Recv(t) \/ ServeStep(t) \/ Close(t)
    BY <2>2 DEF NullsOK, Recv, ServeStep, Close, mainVars
  <2>3. CASE Erase(t)
    BY <2>3 DEF NullsOK, Erase, mainVars
  <2> QED
    BY <1>3, <2>1, <2>2, <2>3 DEF SocketStep
<1>4. ASSUME MainStep
      PROVE  NullsOK'
  BY <1>4 DEF NullsOK, SocketsOK, MainStep, CheckStop, CheckStopIf, Accept, AcceptTimeout,
     AcceptError, Create, Insert, Main
<1>5. CASE CatchSignal
  BY <1>5 DEF NullsOK, CatchSignal
<1>6. ASSUME NEW cause \in Causes, Die(cause)
      PROVE  NullsOK'
  BY <1>6 DEF NullsOK, Die
<1> QED
  BY <1>1, <1>2, <1>3, <1>4, <1>5, <1>6, ProcessSteps

\* Once the signal was caught no check of m_stop lets the main thread go on.
LEMMA LateStep ==
    ASSUME TypeOK, LateOK, [Next]_vars
    PROVE  LateOK'
<1> USE DEF TypeOK, ProcessTypeOK
<1>1. CASE UNCHANGED mainVars
  BY <1>1 DEF LateOK, mainVars
<1>2. CASE MainStep
  BY <1>2 DEF LateOK, MainStep, CheckStop, CheckStopIf, Accept, AcceptTimeout,
     AcceptError, Create, Insert, Main
<1>3. CASE CatchSignal
  BY <1>3 DEF LateOK, CatchSignal
<1>4. ASSUME NEW cause \in Causes, Die(cause)
      PROVE  LateOK'
  BY <1>4 DEF LateOK, Die
<1>5. ASSUME NEW t \in Thread, SocketStep(t)
      PROVE  LateOK'
  BY <1>5 DEF LateOK, SocketStep, Lookup, LookupAs, Recv, ServeStep, Close, Erase, mainVars
<1> QED
  BY <1>1, <1>2, <1>3, <1>4, <1>5, ProcessSteps DEF Request, Connect, processVars, mainVars

-----------------------------------------------------------------------------
(* The types of the process.                                               *)

\* The process's own variables keep their types.
LEMMA ProcessTypeStep ==
    ASSUME TypeOK, SocketsOK, [Next]_vars
    PROVE  ProcessTypeOK'
<1> USE DEF TypeOK, ProcessTypeOK, Socket
<1>1. CASE UNCHANGED <<processVars, request>>
  BY <1>1 DEF processVars
<1>2. ASSUME NEW i \in Conn, Request(i)
      PROVE  ProcessTypeOK'
  BY <1>2 DEF Request, Connect, mainVars
<1>3. ASSUME NEW t \in Thread, SocketStep(t)
      PROVE  ProcessTypeOK'
  <2>1. CASE Lookup(t)
    BY <2>1 DEF Lookup, LookupAs, StillRunning
  <2>2. CASE Recv(t) \/ ServeStep(t)
    BY <2>2 DEF Recv, ServeStep, StillRunning, mainVars
  <2>3. CASE Close(t)
    BY <2>3 DEF Close, StillRunning, mainVars
  <2>4. CASE Erase(t)
    BY <2>4 DEF Erase, StillRunning, mainVars
  <2> QED
    BY <1>3, <2>1, <2>2, <2>3, <2>4 DEF SocketStep
<1>4. ASSUME MainStep
      PROVE  ProcessTypeOK'
  <2>1. CASE CheckStop \/ AcceptTimeout \/ AcceptError \/ Create
    BY <2>1 DEF CheckStop, CheckStopIf, AcceptTimeout, AcceptError, Create, StillRunning
  <2>2. CASE Accept
    BY <2>2 DEF Accept, StillRunning
  <2>3. CASE Insert
    BY <2>3 DEF Insert, StillRunning
  <2> QED
    BY <1>4, <2>1, <2>2, <2>3 DEF MainStep
<1>5. CASE CatchSignal
  BY <1>5 DEF CatchSignal
<1>6. ASSUME NEW cause \in Causes, Die(cause)
      PROVE  ProcessTypeOK'
  BY <1>6 DEF Die
<1> QED
  BY <1>1, <1>2, <1>3, <1>4, <1>5, <1>6, ProcessSteps

\* Each thread has a next call, a death has a cause, and a connection has the
\* request that its client made.
LEMMA FrameTypeStep ==
    ASSUME TypeOK, [Next]_vars
    PROVE  /\ why' \in Causes \cup {"alive"}
           /\ pc' \in [Thread -> Pc]
           /\ request' \in [Conn -> Requests \cup {NoRequest}]
<1> USE DEF TypeOK, Pc
<1>1. CASE UNCHANGED <<processVars, request>>
  BY <1>1 DEF processVars
<1>2. ASSUME NEW i \in Conn, Request(i)
      PROVE  /\ UNCHANGED <<why, pc>>
             /\ request' \in [Conn -> Requests \cup {NoRequest}]
  BY <1>2 DEF Request, Connect
<1>3. ASSUME NEW t \in Thread, SocketStep(t)
      PROVE  UNCHANGED why /\ pc' \in [Thread -> Pc]
  BY <1>3 DEF SocketStep, Lookup, LookupAs, Recv, ServeStep, Serve, Close, Erase, Goto,
     StillRunning
<1>4. ASSUME MainStep \/ CatchSignal
      PROVE  UNCHANGED why /\ pc' \in [Thread -> Pc]
  BY <1>4 DEF MainStep, CheckStop, CheckStopIf, Accept, AcceptTimeout,
     AcceptError, Create, Insert, StillRunning, CatchSignal
<1>5. ASSUME NEW cause \in Causes, Die(cause)
      PROVE  why' = cause /\ pc' \in [Thread -> Pc]
  BY <1>5 DEF Die
<1> QED
  BY <1>1, <1>2, <1>3, <1>4, <1>5, ProcessSteps

-----------------------------------------------------------------------------
(* The calls on the segment.                                               *)

InCall == {"mapped", "readSlot", "ownSlot", "freeSlot", "copyHead", "copyKey", "detach"}

\* Nothing happens to the segment, nor in a call on it.
ShmQuiet ==
    /\ UNCHANGED shmVars
    /\ \A t \in Thread : pc'[t] = pc[t] \/ (pc[t] \notin InCall /\ pc'[t] \notin InCall)

\* A step of a call, or of its caller before and after it.
ShmMove(t) ==
    \/ Attach(t) \/ Mapped(t) \/ (\E c : ReadSlot(t, c)) \/ OwnSlot(t) \/ FreeSlot(t)
    \/ CopyHead(t) \/ CopyKey(t)
    \/ IdChecked(t) \/ AgreeWritten(t) \/ NodeRead(t) \/ RevokeWritten(t)

\* The steps of the threads, as the segment sees them.
LEMMA ShmSteps ==
    ASSUME TypeOK, [Next]_vars
    PROVE  \/ ShmQuiet
           \/ \E t \in Thread : ShmMove(t)
           \/ /\ ShmGone
              /\ pc' = [t \in Thread |-> "none"]
<1> USE DEF TypeOK, InCall
<1>1. CASE UNCHANGED vars
  BY <1>1 DEF vars, processVars, ShmQuiet
<1>2. ASSUME NEW i \in Conn, Request(i)
      PROVE  ShmQuiet
  BY <1>2 DEF Request, Connect, ShmQuiet
<1>3. ASSUME NEW t \in Thread, Worker(t)
      PROVE  ShmQuiet \/ ShmMove(t)
  <2>1. CASE Frame(t)
    BY <2>1 DEF Frame, Lookup, LookupAs, Close, Erase, At, Goto, ShmQuiet
  <2>2. CASE AskRegistered(t)
    BY <2>2 DEF AskRegistered, Recv, At, Goto, ShmQuiet
  <2>3. CASE RowSelected(t)
    <3>1. pc[t] = "rows" /\ UNCHANGED shmVars /\ (Goto(t, "doSql") \/ Goto(t, "query"))
      BY <2>3 DEF RowSelected, ReadRows, At
    <3> QED
      BY <3>1 DEF Goto, ShmQuiet
  <2>4. ASSUME NEW c, DatabaseStep(t, c), UNCHANGED shmVars
        PROVE  ShmQuiet
    <3>1. CASE Query(t, c)
      <4>1. pc[t] = "query" /\ (Goto(t, "rows") \/ Goto(t, "reply"))
        BY <3>1 DEF Query, At, DbStep
      <4> QED
        BY <2>4, <4>1 DEF Goto, ShmQuiet
    <3>2. CASE Reply(t) \/ ClearResult(t) \/ Return(t) \/ SqlReply(t, c)
      BY <2>4, <3>2 DEF Reply, ClearResult, Return, SqlReply, At, DbStep, Goto, ShmQuiet
    <3>3. CASE FreeResult(t)
      BY <2>4, <3>3 DEF FreeResult, At, DbStep, Goto, ShmQuiet
    <3>4. CASE StoreResult(t)
      BY <2>4, <3>4 DEF StoreResult, At, DbStep, Goto, ShmQuiet
    <3>5. CASE DoSql(t)
      <4>1. pc[t] = "doSql" /\ (Goto(t, "close") \/ Goto(t, "sqlReply"))
        BY <3>5 DEF DoSql, At, DbStep
      <4> QED
        BY <2>4, <4>1 DEF Goto, ShmQuiet
    <3> QED
      BY <2>4, <3>1, <3>2, <3>3, <3>4, <3>5 DEF DatabaseStep
  <2> QED
    BY <1>3, <2>1, <2>2, <2>3, <2>4 DEF Worker, LocalCode, TableStep, ShmMove
<1>4. CASE MainThread(MainStep) \/ MainThread(CatchSignal)
  <2>1. pc' = pc \/ \E t \in Thread : pc[t] = "none" /\ pc' = [pc EXCEPT ![t] = "lookup"]
    BY <1>4 DEF MainThread, MainStep, CatchSignal, CheckStop, CheckStopIf, Accept,
       AcceptTimeout, AcceptError, Create, Insert
  <2> QED
    BY <1>4, <2>1 DEF MainThread, ShmQuiet
<1>5. CASE End
  BY <1>5 DEF End, Die
<1> QED
  BY <1>1, <1>2, <1>3, <1>4, <1>5 DEF Next

\* The scan for a slot of zeros stops inside the table.
LEMMA FirstFree ==
    ASSUME tab \in [1..MaxNode -> NodeSHMInfo], FreeSlots(tab) # {}
    PROVE  /\ First(FreeSlots(tab)) \in FreeSlots(tab)
           /\ First(FreeSlots(tab)) \in 1..MaxNode
<1>1. FreeSlots(tab) \subseteq 1..MaxNode
  BY DEF FreeSlots
<1>2. FreeSlots(tab) \subseteq Nat
  BY <1>1, ShmCallsAssumption
<1> QED
  BY <1>1, <1>2, FirstInSet

\* unmapShm keeps the types of what it changes.
LEMMA DetachType ==
    ASSUME ShmTypeOK, NEW t \in Thread, Detach(t),
           node' \in [Thread -> NodeSHMInfo], use' \in [Thread -> {"read", "write"}]
    PROVE  ShmTypeOK'
<1>1. 0 \in 0..MaxNode
  BY ShmCallsAssumption
<1>2. p' \in [Thread -> Addr \cup {NoAddr}] /\ slot' \in [Thread -> 0..MaxNode]
  BY <1>1 DEF Detach, ShmTypeOK
<1> QED
  BY <1>2 DEF Detach, ShmTypeOK

\* What a call copies is a node, and the table stays a table.
LEMMA ShmTypeStep ==
    ASSUME TypeOK, SocketsOK, ScanOK, [Next]_vars
    PROVE  ShmTypeOK'
<1>0. ShmTypeOK /\ sock \in [Thread -> Socket] /\ request \in [Conn -> Requests \cup {NoRequest}]
  BY DEF TypeOK, ProcessTypeOK
<1> USE <1>0 DEF ShmTypeOK
<1>1. CASE UNCHANGED shmVars
  BY <1>1 DEF shmVars
<1>2. ASSUME NEW t \in Thread, ShmMove(t)
      PROVE  ShmTypeOK'
  <2> IsTable(tab, MaxNode) /\ MaxNode \in Nat
    BY ShmCallsAssumption DEF IsTable
  <2>1. CASE Attach(t)
    BY <2>1 DEF Attach
  <2>9. CASE Mapped(t)
    BY <2>9 DEF Mapped
  <2>2. ASSUME NEW c, ReadSlot(t, c)
        PROVE  ShmTypeOK'
    BY <2>2, ShmReadType DEF ReadSlot, ShmStep
  <2>3. CASE OwnSlot(t)
    <3> DEFINE own == SlotsOf(tab, node[t].clientID)
    <3>1. own # {} => First(own) \in 1..MaxNode
      BY WriteSlotsInTable
    <3>2. UNCHANGED <<tab, maps, m_shmAddr, p, use, node, before, shmOverlap>>
      BY <2>3 DEF OwnSlot, ShmStep
    <3>3. slot' = slot \/ (own # {} /\ slot' = [slot EXCEPT ![t] = First(own)])
      BY <2>3, Zenon DEF OwnSlot
    <3> QED
      BY <3>1, <3>2, <3>3
  <2>4. CASE FreeSlot(t)
    <3>1. FreeSlots(tab) # {} => First(FreeSlots(tab)) \in 1..MaxNode
      BY FirstFree
    <3>2. UNCHANGED <<tab, maps, m_shmAddr, p, use, node, before, shmOverlap>>
      BY <2>4 DEF FreeSlot, ShmStep
    <3>3. \/ slot' = slot
          \/ FreeSlots(tab) # {} /\ slot' = [slot EXCEPT ![t] = First(FreeSlots(tab))]
      BY <2>4 DEF FreeSlot, Claimable
    <3>4. FreeSlots(tab) # {} => First(FreeSlots(tab)) \in 0..MaxNode
      BY <3>1, ShmCallsAssumption
    <3>5. slot' \in [Thread -> 0..MaxNode]
      BY <3>3, <3>4
    <3> QED
      BY <3>2, <3>5
  <2>5. CASE CopyHead(t) \/ CopyKey(t)
    <3>1. slot[t] \in 1..MaxNode
      BY <2>5 DEF ScanOK, CopyHead, CopyKey, Reaches, At
    <3>2. tab[slot[t]] \in NodeSHMInfo /\ node[t] \in NodeSHMInfo
      BY <3>1
    <3>3. /\ [node[t] EXCEPT !.seckey = tab[slot[t]].seckey] \in NodeSHMInfo
          /\ [tab[slot[t]] EXCEPT !.seckey = node[t].seckey] \in NodeSHMInfo
      BY <3>2 DEF NodeSHMInfo
    <3>4. UNCHANGED <<slot, node, maps, m_shmAddr, p, use, before, shmOverlap>>
      BY <2>5 DEF CopyHead, CopyKey, ShmStep
    <3>5. tab' \in [1..MaxNode -> NodeSHMInfo]
      BY <2>5, <3>1, <3>3 DEF CopyHead, CopyKey
    <3> QED
      BY <3>4, <3>5
  <2>6. CASE IdChecked(t)
    <3>1. UNCHANGED <<tab, maps, m_shmAddr, p, slot, before, shmOverlap>>
      BY <2>6 DEF IdChecked
    <3>2. sock[t] \in Conn
      BY <2>6 DEF IdChecked, ReadRows, At, SocketsOK
    <3>3. NewNode(t) \in NodeSHMInfo
      <4>1. ClientOf(t) \in Client \cup {NoClient}
        BY <3>2, RequestsAssumption DEF ClientOf, NoRequest
      <4>2. <<sock[t], CHOOSE r2 \in R2 : TRUE>> \in Key
        BY <3>2, RequestsAssumption DEF Key, R2
      <4> QED
        BY <4>1, <4>2 DEF NewNode, NodeSHMInfo
    <3>4. \/ UNCHANGED <<node, use>>
          \/ node' = [node EXCEPT ![t] = NewNode(t)] /\ use' = [use EXCEPT ![t] = "write"]
      BY <2>6, Zenon DEF IdChecked
    <3> QED
      BY <3>1, <3>3, <3>4
  <2>7. CASE AgreeWritten(t) \/ RevokeWritten(t)
    <3>1. node' = [node EXCEPT ![t] = Zero] /\ use' = [use EXCEPT ![t] = "read"]
      BY <2>7 DEF AgreeWritten, RevokeWritten
    <3>2. node' \in [Thread -> NodeSHMInfo] /\ use' \in [Thread -> {"read", "write"}]
      BY <3>1, ZeroType
    <3> QED
      BY <2>7, <3>2, DetachType DEF AgreeWritten, RevokeWritten
  <2>8. CASE NodeRead(t)
    <3>1. [node[t] EXCEPT !.status = 0] \in NodeSHMInfo
      BY DEF NodeSHMInfo
    <3>2. node' \in [Thread -> NodeSHMInfo]
      BY <2>8, <3>1, ZeroType DEF NodeRead
    <3>3. use' \in [Thread -> {"read", "write"}]
      BY <2>8 DEF NodeRead
    <3> QED
      BY <2>8, <3>2, <3>3, DetachType DEF NodeRead
  <2> QED
    BY <1>2, <2>1, <2>2, <2>3, <2>4, <2>5, <2>6, <2>7, <2>8, <2>9 DEF ShmMove
<1>3. CASE ShmGone
  <2>1. [t \in Thread |-> Zero] \in [Thread -> NodeSHMInfo]
    BY ZeroType
  <2> QED
    BY <1>3, <2>1, ShmCallsAssumption DEF ShmGone
<1> QED
  BY <1>1, <1>2, <1>3, ShmSteps DEF ShmQuiet

\* A step within a call: everybody stays in or out of the calls, and where the
\* segment is attached does not change.
LEMMA WithinCall ==
    ASSUME TypeOK, NEW t \in Thread,
           \/ \E c : ReadSlot(t, c)
           \/ OwnSlot(t) \/ FreeSlot(t) \/ CopyHead(t) \/ CopyKey(t)
    PROVE  /\ pc[t] # "mapped" /\ pc'[t] # "mapped"
           /\ \A u \in Thread : InShm(u)' = InShm(u)
           /\ \A u \in Thread \ {t} : pc'[u] = pc[u]
           /\ UNCHANGED <<maps, m_shmAddr, p, use, before, shmOverlap>>
<1> USE DEF TypeOK, Reaches, At, Goto, InShm, ShmStep
<1>1. ASSUME NEW c, ReadSlot(t, c)
      PROVE  /\ pc[t] = "readSlot" /\ ShmStep(t, "detach")
  BY <1>1 DEF ReadSlot
<1>2. CASE OwnSlot(t)
  <2>1. pc[t] = "ownSlot" /\ (ShmStep(t, "copyHead") \/ ShmStep(t, "freeSlot"))
    BY <1>2 DEF OwnSlot
  <2> QED
    BY <2>1
<1>3. CASE FreeSlot(t)
  <2>1. pc[t] = "freeSlot" /\ (ShmStep(t, "copyHead") \/ ShmStep(t, "detach"))
    BY <1>3 DEF FreeSlot
  <2> QED
    BY <2>1
<1>4. CASE CopyHead(t) \/ CopyKey(t)
  BY <1>4 DEF CopyHead, CopyKey
<1> QED
  BY <1>1, <1>2, <1>3, <1>4

\* The caller goes on: it is not in a call before, or not any more.
LEMMA CallerSteps ==
    ASSUME TypeOK, NEW t \in Thread
    PROVE  /\ IdChecked(t) =>
                /\ pc[t] = "rows" /\ pc' \in {[pc EXCEPT ![t] = "attach"], [pc EXCEPT ![t] = "close"]}
                /\ UNCHANGED <<tab, maps, m_shmAddr, p, slot, before, shmOverlap>>
                /\ \A u \in Thread \ {t} : node'[u] = node[u] /\ use'[u] = use[u]
           /\ AgreeWritten(t) \/ NodeRead(t) \/ RevokeWritten(t) =>
                /\ Detach(t) /\ pc[t] = "detach"
                /\ \E next \in {"query", "attach", "close", "doSql"} :
                      pc' = [pc EXCEPT ![t] = next]
                /\ \A u \in Thread \ {t} : node'[u] = node[u] /\ use'[u] = use[u]
<1>1. ASSUME IdChecked(t)
      PROVE  /\ pc[t] = "rows" /\ pc' \in {[pc EXCEPT ![t] = "attach"], [pc EXCEPT ![t] = "close"]}
             /\ UNCHANGED <<tab, maps, m_shmAddr, p, slot, before, shmOverlap>>
             /\ \A u \in Thread \ {t} : node'[u] = node[u] /\ use'[u] = use[u]
  <2>1. \/ UNCHANGED <<node, use>>
        \/ node' = [node EXCEPT ![t] = NewNode(t)] /\ use' = [use EXCEPT ![t] = "write"]
    BY <1>1, Zenon DEF IdChecked
  <2>2. \A u \in Thread \ {t} : node'[u] = node[u] /\ use'[u] = use[u]
    BY <2>1 DEF TypeOK, ShmTypeOK
  <2>3. Goto(t, "attach") \/ Goto(t, "close")
    BY <1>1, Zenon DEF IdChecked
  <2>4. At(t, "rows") /\ UNCHANGED <<tab, maps, m_shmAddr, p, slot, before, shmOverlap>>
    BY <1>1, Zenon DEF IdChecked, ReadRows
  <2> QED
    BY <2>2, <2>3, <2>4 DEF At, Goto
<1>2. ASSUME AgreeWritten(t) \/ RevokeWritten(t)
      PROVE  /\ Detach(t) /\ pc[t] = "detach"
             /\ \E next \in {"query", "doSql"} : pc' = [pc EXCEPT ![t] = next]
             /\ \A u \in Thread \ {t} : node'[u] = node[u] /\ use'[u] = use[u]
  BY <1>2 DEF AgreeWritten, RevokeWritten, Detach, At, Goto, TypeOK, ShmTypeOK
<1>3. ASSUME NodeRead(t)
      PROVE  /\ Detach(t) /\ pc[t] = "detach"
             /\ \E next \in {"attach", "close"} : pc' = [pc EXCEPT ![t] = next]
             /\ \A u \in Thread \ {t} : node'[u] = node[u] /\ use'[u] = use[u]
  BY <1>3 DEF NodeRead, Detach, At, Goto, TypeOK, ShmTypeOK
<1> QED
  BY <1>1, <1>2, <1>3

\* Calls that do not overlap are one after the other, each with its address.
LEMMA SegmentStep ==
    ASSUME TypeOK, SegmentOK, [Next]_vars
    PROVE  SegmentOK'
<1> USE DEF SegmentOK
<1>1. CASE ShmQuiet
  BY <1>1 DEF ShmQuiet, shmVars, InShm, InCall
<1>2. ASSUME NEW t \in Thread, Attach(t)
      PROVE  SegmentOK'
  <2> SUFFICES ASSUME ~ shmOverlap'
               PROVE  SegmentOK'
    OBVIOUS
  <2>1. \A u \in Thread : ~ InShm(u)
    BY <1>2 DEF Attach
  <2>2. \A u \in Thread \ {t} : pc'[u] = pc[u]
    BY <1>2 DEF Attach, Goto, TypeOK
  <2>3. pc'[t] = "mapped" /\ m_shmAddr' \in maps'
    BY <1>2 DEF Attach, Goto, TypeOK
  <2> QED
    BY <2>1, <2>2, <2>3 DEF InShm
<1>7. ASSUME NEW t \in Thread, Mapped(t)
      PROVE  SegmentOK'
  <2>1. /\ InShm(t) /\ p'[t] = m_shmAddr
        /\ UNCHANGED <<maps, m_shmAddr, shmOverlap>>
    BY <1>7 DEF Mapped, At, InShm, TypeOK, ShmTypeOK
  <2>2. \A u \in Thread \ {t} : InShm(u)' = InShm(u)
    BY <1>7 DEF Mapped, Goto, InShm, TypeOK
  <2> QED
    BY <2>1, <2>2
<1>3. ASSUME NEW t \in Thread,
             \/ \E c : ReadSlot(t, c)
             \/ OwnSlot(t) \/ FreeSlot(t) \/ CopyHead(t) \/ CopyKey(t)
      PROVE  SegmentOK'
  BY <1>3, WithinCall
<1>4. ASSUME NEW t \in Thread, IdChecked(t)
      PROVE  SegmentOK'
  <2>1. /\ ~ InShm(t) /\ ~ InShm(t)'
        /\ \A u \in Thread \ {t} : InShm(u)' = InShm(u) /\ pc'[u] = pc[u]
    BY <1>4, CallerSteps DEF InShm, TypeOK
  <2> QED
    BY <1>4, <2>1, CallerSteps
<1>5. ASSUME NEW t \in Thread, AgreeWritten(t) \/ NodeRead(t) \/ RevokeWritten(t)
      PROVE  SegmentOK'
  <2>1. /\ InShm(t) /\ ~ InShm(t)'
        /\ \A u \in Thread \ {t} : InShm(u)' = InShm(u)
    BY <1>5, CallerSteps DEF InShm, TypeOK
  <2>2. UNCHANGED shmOverlap
    BY <1>5, CallerSteps DEF Detach
  <2> QED
    BY <2>1, <2>2
<1>6. CASE pc' = [t \in Thread |-> "none"]
  BY <1>6 DEF InShm
<1> QED
  BY <1>1, <1>2, <1>3, <1>4, <1>5, <1>6, <1>7, ShmSteps DEF ShmMove

\* A caller that says read gets the parts of shmRead, and none of shmWrite.
LEMMA UseStep ==
    ASSUME TypeOK, UseOK, [Next]_vars
    PROVE  UseOK'
<1> USE DEF UseOK
<1>1. CASE ShmQuiet
  BY <1>1 DEF ShmQuiet, shmVars, InCall
<1>2. ASSUME NEW t \in Thread, Attach(t)
      PROVE  UseOK'
  BY <1>2 DEF Attach, Goto, TypeOK
<1>7. ASSUME NEW t \in Thread, Mapped(t)
      PROVE  UseOK'
  <2>1. /\ pc' = [pc EXCEPT ![t] = IF use[t] = "read" THEN "readSlot" ELSE "ownSlot"]
        /\ UNCHANGED use
    BY <1>7 DEF Mapped, Goto
  <2> QED
    BY <2>1 DEF TypeOK, ShmTypeOK
<1>3. ASSUME NEW t \in Thread, \E c : ReadSlot(t, c)
      PROVE  UseOK'
  BY <1>3 DEF ReadSlot, ShmStep, Goto, TypeOK
<1>4. ASSUME NEW t \in Thread, OwnSlot(t) \/ FreeSlot(t) \/ CopyHead(t) \/ CopyKey(t)
      PROVE  UseOK'
  <2>1. /\ pc[t] \in {"ownSlot", "freeSlot", "copyHead", "copyKey"}
        /\ pc'[t] # "readSlot"
    BY <1>4 DEF OwnSlot, FreeSlot, CopyHead, CopyKey, Reaches, At, ShmStep, Goto, TypeOK
  <2>2. UNCHANGED use /\ \A u \in Thread \ {t} : pc'[u] = pc[u]
    BY <1>4, WithinCall
  <2> QED
    BY <2>1, <2>2
<1>5. ASSUME NEW t \in Thread,
             IdChecked(t) \/ AgreeWritten(t) \/ NodeRead(t) \/ RevokeWritten(t)
      PROVE  UseOK'
  BY <1>5, CallerSteps DEF TypeOK
<1>6. CASE pc' = [t \in Thread |-> "none"]
  BY <1>6
<1> QED
  BY <1>1, <1>2, <1>3, <1>4, <1>5, <1>6, <1>7, ShmSteps DEF ShmMove

\* No scan stops at the first slot for another client, because it is neither
\* that client's nor free; so no copy goes there.
LEMMA ScanStep ==
    ASSUME TypeOK, ScanOK, LoadedSlotKept, [Next]_vars
    PROVE  ScanOK' /\ LoadedSlotKept'
<1> USE DEF ScanOK, LoadedSlotKept
<1>0. /\ ShmTypeOK /\ pc \in [Thread -> Pc] /\ IsTable(tab, MaxNode)
      /\ MaxNode \in Nat /\ 1 \in 1..MaxNode
  BY ShmCallsAssumption DEF TypeOK, ShmTypeOK, IsTable
<1>1. CASE ShmQuiet
  BY <1>1 DEF ShmQuiet, shmVars, InCall
<1>2. ASSUME NEW t \in Thread, Attach(t) \/ Mapped(t)
      PROVE  ScanOK' /\ LoadedSlotKept'
  <2>1. /\ pc'[t] \in {"mapped", "readSlot", "ownSlot"}
        /\ \A u \in Thread \ {t} : pc'[u] = pc[u]
    BY <1>0, <1>2 DEF Attach, Mapped, Goto
  <2>2. UNCHANGED <<tab, slot, node>>
    BY <1>2 DEF Attach, Mapped
  <2> QED
    BY <2>1, <2>2
<1>3. ASSUME NEW t \in Thread, NEW c, ReadSlot(t, c)
      PROVE  ScanOK' /\ LoadedSlotKept'
  <2>1. pc'[t] = "detach" /\ \A u \in Thread \ {t} : pc'[u] = pc[u] /\ node'[u] = node[u]
    BY <1>0, <1>3 DEF ReadSlot, ShmStep, Goto, ShmTypeOK
  <2> QED
    BY <1>3, <2>1 DEF ReadSlot
<1>4. ASSUME NEW t \in Thread, NEW k \in 1..MaxNode,
             slot' = [slot EXCEPT ![t] = k],
             Tab0[k].clientID \in {NoClient, node[t].clientID},
             UNCHANGED <<tab, node>>, pc' = [pc EXCEPT ![t] = "copyHead"]
      PROVE  ScanOK' /\ LoadedSlotKept'
  <2>1. slot'[t] = k /\ k # 0
    BY <1>0, <1>4 DEF ShmTypeOK
  <2>2. \A u \in Thread \ {t} : slot'[u] = slot[u] /\ pc'[u] = pc[u]
    BY <1>0, <1>4 DEF ShmTypeOK
  <2> QED
    BY <1>4, <2>1, <2>2
<1>5. ASSUME NEW t \in Thread, NEW pc1 \in Pc \ {"copyHead", "copyKey"},
             UNCHANGED <<slot, tab, node>>, pc' = [pc EXCEPT ![t] = pc1]
      PROVE  ScanOK' /\ LoadedSlotKept'
  BY <1>0, <1>5
<1>6. ASSUME NEW t \in Thread, OwnSlot(t)
      PROVE  ScanOK' /\ LoadedSlotKept'
  <2> DEFINE own == SlotsOf(tab, node[t].clientID)
  <2>1. UNCHANGED <<tab, node>>
    BY <1>6 DEF OwnSlot
  <2>2. \/ own # {} /\ slot' = [slot EXCEPT ![t] = First(own)] /\ Goto(t, "copyHead")
        \/ UNCHANGED slot /\ Goto(t, "freeSlot")
    BY <1>6, Zenon DEF OwnSlot, ShmStep
  <2>3. own # {} => /\ First(own) \in 1..MaxNode
                    /\ Tab0[First(own)].clientID \in {NoClient, node[t].clientID}
    <3>1. own \subseteq 1..MaxNode /\ (own # {} => First(own) \in own)
      BY <1>0, WriteSlotsInTable
    <3>2. own # {} => tab[First(own)].clientID = node[t].clientID
      BY <3>1 DEF SlotsOf
    <3> QED
      BY <3>1, <3>2
  <2>4. CASE own # {} /\ slot' = [slot EXCEPT ![t] = First(own)] /\ Goto(t, "copyHead")
    BY <1>4, <2>1, <2>3, <2>4 DEF Goto
  <2>5. CASE UNCHANGED slot /\ Goto(t, "freeSlot")
    BY <1>5, <2>1, <2>5 DEF Goto, Pc
  <2> QED
    BY <2>2, <2>4, <2>5
<1>7. ASSUME NEW t \in Thread, FreeSlot(t)
      PROVE  ScanOK' /\ LoadedSlotKept'
  <2> DEFINE free == FreeSlots(tab)
  <2>1. UNCHANGED <<tab, node>>
    BY <1>7 DEF FreeSlot
  <2>2. \/ free # {} /\ slot' = [slot EXCEPT ![t] = First(free)] /\ Goto(t, "copyHead")
        \/ UNCHANGED slot /\ Goto(t, "detach")
    BY <1>7, Zenon DEF FreeSlot, ShmStep, Claimable
  <2>3. free # {} => First(free) \in 1..MaxNode /\ Tab0[First(free)].clientID = NoClient
    <3>1. \A k \in free : k \in 1..MaxNode /\ tab[k].clientID = NoClient
      BY <1>0 DEF FreeSlots, Zero, ShmTypeOK
    <3>2. free # {} => First(free) \in free
      BY <1>0, FirstFree DEF ShmTypeOK
    <3> QED
      BY <3>1, <3>2
  <2>4. CASE free # {} /\ slot' = [slot EXCEPT ![t] = First(free)] /\ Goto(t, "copyHead")
    BY <1>4, <2>1, <2>3, <2>4 DEF Goto
  <2>5. CASE UNCHANGED slot /\ Goto(t, "detach")
    BY <1>5, <2>1, <2>5 DEF Goto, Pc
  <2> QED
    BY <2>2, <2>4, <2>5
<1>8. ASSUME NEW t \in Thread, CopyHead(t) \/ CopyKey(t)
      PROVE  ScanOK' /\ LoadedSlotKept'
  <2>1. pc[t] \in {"copyHead", "copyKey"} /\ \E next \in {"copyKey", "detach"} : Goto(t, next)
    BY <1>8 DEF CopyHead, CopyKey, Reaches, At, ShmStep
  <2>2. UNCHANGED <<slot, node>> /\ slot[t] \in 1..MaxNode
    BY <1>0, <1>8, <2>1 DEF CopyHead, CopyKey, ShmTypeOK
  <2>3. ScanOK'
    BY <1>0, <2>1, <2>2 DEF Goto
  <2>4. ASSUME NEW k \in 1..MaxNode, Tab0[k].clientID # NoClient
        PROVE  tab'[k].clientID = Tab0[k].clientID
    <3>1. tab[k] \in NodeSHMInfo /\ node[t] \in NodeSHMInfo
          /\ tab[k].clientID = Tab0[k].clientID
      BY <1>0, <2>4 DEF ShmTypeOK
    <3>2. CASE slot[t] = k
      <4>1. \/ tab'[k] = [node[t] EXCEPT !.seckey = tab[k].seckey]
            \/ tab'[k] = [tab[k] EXCEPT !.seckey = node[t].seckey]
        BY <1>0, <1>8, <3>1, <3>2 DEF CopyHead, CopyKey, ShmTypeOK
      <4>2. node[t].clientID = Tab0[k].clientID
        BY <2>1, <2>4, <3>2
      <4> QED
        BY <3>1, <4>1, <4>2 DEF NodeSHMInfo
    <3>3. CASE slot[t] # k
      <4>1. tab'[k] = tab[k]
        BY <1>0, <1>8, <2>2, <3>3 DEF CopyHead, CopyKey, ShmTypeOK
      <4> QED
        BY <3>1, <4>1
    <3> QED
      BY <3>2, <3>3
  <2> QED
    BY <2>3, <2>4
<1>9. ASSUME NEW t \in Thread,
             IdChecked(t) \/ AgreeWritten(t) \/ NodeRead(t) \/ RevokeWritten(t)
      PROVE  ScanOK' /\ LoadedSlotKept'
  <2>1. UNCHANGED tab /\ \A u \in Thread \ {t} : slot'[u] = slot[u] /\ node'[u] = node[u]
    BY <1>0, <1>9, CallerSteps DEF Detach, ShmTypeOK
  <2>2. /\ pc'[t] \notin {"copyHead", "copyKey"}
        /\ \A u \in Thread \ {t} : pc'[u] = pc[u]
    BY <1>0, <1>9, CallerSteps
  <2> QED
    BY <2>1, <2>2
<1>10. CASE ShmGone /\ pc' = [t \in Thread |-> "none"]
  BY <1>10 DEF ShmGone
<1> QED
  BY <1>1, <1>2, <1>3, <1>6, <1>7, <1>8, <1>9, <1>10, ShmSteps DEF ShmMove

\* The two halves of the copy, one after the other, are the write of the node.
FirstHalf(t, k, new) == [t EXCEPT ![k] = [new EXCEPT !.seckey = t[k].seckey]]

SecondHalf(t, k, new) == [t EXCEPT ![k].seckey = new.seckey]

LEMMA CopyHalves ==
    ASSUME NEW n \in Nat, NEW t, IsTable(t, n), NEW new \in NodeSHMInfo,
           NEW k, WriteSlots(t, new.clientID) # {}, k = First(WriteSlots(t, new.clientID))
    PROVE  SecondHalf(FirstHalf(t, k, new), k, new) = ShmWrite(t, new)
<1>1. k \in 1..n
  BY WriteSlotsInTable
<1>2. DOMAIN t = 1..n
  BY DEF IsTable
<1>3. SecondHalf(FirstHalf(t, k, new), k, new) = [t EXCEPT ![k] = new]
  BY <1>1, <1>2 DEF FirstHalf, SecondHalf, IsTable, NodeSHMInfo
<1>4. ShmWrite(t, new) = [t EXCEPT ![k] = new]
  BY <1>1, <1>2 DEF ShmWrite, IsTable
<1> QED
  BY <1>3, <1>4

\* Without a slot to write to, shmWrite leaves the table as it is.
LEMMA NoRoom ==
    ASSUME NEW n \in Nat, NEW t, IsTable(t, n), NEW new, WriteSlots(t, new.clientID) = {}
    PROVE  ShmWrite(t, new) = t
BY DEF ShmWrite, IsTable

\* How far a call has come, and what a write that has ended has done.
Written(t) == pc[t] = "detach" /\ use[t] = "write" => tab = ShmWrite(before, node[t])

\* The parts of a write that nobody disturbs add up to shmWrite.
LEMMA WriteStep ==
    ASSUME TypeOK, SegmentOK, UseOK, WriteOK, WriteIsAtomic, [Next]_vars
    PROVE  WriteOK' /\ WriteIsAtomic'
<1>0. /\ pc \in [Thread -> Pc] /\ ShmTypeOK /\ MaxNode \in Nat
      /\ IsTable(tab, MaxNode) /\ IsTable(before, MaxNode)
  BY ShmCallsAssumption DEF TypeOK, ShmTypeOK, IsTable
<1>1. (WriteOK' /\ WriteIsAtomic') <=> (~ shmOverlap' => \A t \in Thread : (Progress(t) /\ Written(t))')
  BY DEF WriteOK, WriteIsAtomic, Written
<1>2. \A t \in Thread : ~ InShm(t)' => (Progress(t) /\ Written(t))'
  BY DEF InShm, Progress, Written
<1>3. ASSUME NEW t \in Thread, ~ shmOverlap, InShm(t)
      PROVE  /\ Progress(t) /\ Written(t)
             /\ \A u \in Thread \ {t} : ~ InShm(u)
  BY <1>3 DEF WriteOK, WriteIsAtomic, Written, SegmentOK
<1>4. CASE ShmQuiet
  <2> SUFFICES ASSUME ~ shmOverlap, NEW t \in Thread, InShm(t)'
               PROVE  (Progress(t) /\ Written(t))'
    BY <1>1, <1>2, <1>4 DEF ShmQuiet, shmVars
  <2>1. pc'[t] = pc[t] /\ InShm(t)
    BY <1>4 DEF ShmQuiet, InShm, InCall
  <2>2. Progress(t) /\ Written(t)
    BY <1>3, <2>1
  <2> QED
    BY <1>4, <2>1, <2>2 DEF ShmQuiet, shmVars, Progress, Written
<1>5. ASSUME NEW t \in Thread, Attach(t)
      PROVE  WriteOK' /\ WriteIsAtomic'
  <2> SUFFICES ASSUME ~ shmOverlap', NEW u \in Thread, InShm(u)'
               PROVE  (Progress(u) /\ Written(u))'
    BY <1>1, <1>2
  <2>1. u = t
    BY <1>0, <1>5 DEF Attach, Goto, InShm
  <2>2. pc'[t] = "mapped" /\ tab' = before'
    BY <1>0, <1>5 DEF Attach, Goto
  <2> QED
    BY <2>1, <2>2 DEF Progress, Written
<1>9. ASSUME NEW t \in Thread, Mapped(t)
      PROVE  WriteOK' /\ WriteIsAtomic'
  <2> SUFFICES ASSUME ~ shmOverlap, NEW u \in Thread, InShm(u)'
               PROVE  (Progress(u) /\ Written(u))'
    BY <1>1, <1>2, <1>9 DEF Mapped
  <2>1. pc[t] = "mapped" /\ InShm(t)
    BY <1>9 DEF Mapped, At, InShm
  <2>2. u = t /\ tab = before
    BY <1>0, <1>3, <1>9, <2>1 DEF Mapped, Goto, InShm, Progress
  <2>3. pc'[t] \in {"readSlot", "ownSlot"} /\ UNCHANGED <<tab, before>>
    BY <1>0, <1>9 DEF Mapped, Goto
  <2> QED
    BY <2>2, <2>3 DEF Progress, Written
<1>6. ASSUME NEW t \in Thread,
             \/ \E c : ReadSlot(t, c)
             \/ OwnSlot(t) \/ FreeSlot(t) \/ CopyHead(t) \/ CopyKey(t)
      PROVE  WriteOK' /\ WriteIsAtomic'
  <2>1. /\ InShm(t) /\ UNCHANGED <<use, before, shmOverlap>>
        /\ \A u \in Thread : InShm(u)' = InShm(u)
    BY <1>6, WithinCall DEF ReadSlot, OwnSlot, FreeSlot, CopyHead, CopyKey, Reaches, At, InShm
  <2> SUFFICES ASSUME ~ shmOverlap
               PROVE  (Progress(t) /\ Written(t))'
    BY <1>1, <1>2, <1>3, <2>1
  <2>2. Progress(t) /\ Written(t)
    BY <1>3, <2>1
  <2> DEFINE c == node[t].clientID
  <2>3. CASE \E d : ReadSlot(t, d)
    <3>1. pc'[t] = "detach" /\ use'[t] = "read"
      BY <1>0, <2>1, <2>3 DEF ReadSlot, Reaches, At, ShmStep, Goto, UseOK
    <3> QED
      BY <3>1 DEF Progress, Written
  <2>4. CASE OwnSlot(t)
    <3>1. pc[t] = "ownSlot" /\ tab = before /\ UNCHANGED <<tab, node>>
      BY <2>2, <2>4 DEF OwnSlot, Reaches, At, Progress
    <3>2. CASE SlotsOf(tab, c) # {}
      <4>1. pc'[t] = "copyHead" /\ slot'[t] = First(SlotsOf(tab, c))
        BY <1>0, <2>4, <3>2 DEF OwnSlot, ShmStep, Goto, ShmTypeOK
      <4> QED
        BY <2>1, <3>1, <3>2, <4>1 DEF Progress, Written, WriteSlots
    <3>3. CASE SlotsOf(tab, c) = {}
      <4>1. pc'[t] = "freeSlot"
        BY <1>0, <2>4, <3>3 DEF OwnSlot, ShmStep, Goto
      <4> QED
        BY <2>1, <3>1, <3>3, <4>1 DEF Progress, Written
    <3> QED
      BY <3>2, <3>3
  <2>5. CASE FreeSlot(t)
    <3>1. /\ pc[t] = "freeSlot" /\ tab = before /\ SlotsOf(before, c) = {}
          /\ UNCHANGED <<tab, node>>
      BY <2>2, <2>5 DEF FreeSlot, Reaches, At, Progress
    <3>2. WriteSlots(before, c) = FreeSlots(tab)
      BY <3>1 DEF WriteSlots
    <3>3. CASE FreeSlots(tab) # {}
      <4>1. pc'[t] = "copyHead" /\ slot'[t] = First(FreeSlots(tab))
        BY <1>0, <2>5, <3>3 DEF FreeSlot, Claimable, ShmStep, Goto, ShmTypeOK
      <4> QED
        BY <2>1, <3>1, <3>2, <3>3, <4>1 DEF Progress, Written
    <3>4. CASE FreeSlots(tab) = {}
      <4>1. pc'[t] = "detach"
        BY <1>0, <2>5, <3>4 DEF FreeSlot, Claimable, ShmStep, Goto
      <4>2. ShmWrite(before, node[t]) = before
        BY <1>0, <3>2, <3>4, NoRoom
      <4> QED
        BY <2>1, <3>1, <4>1, <4>2 DEF Progress, Written
    <3> QED
      BY <3>3, <3>4
  <2>6. CASE CopyHead(t)
    <3>1. /\ pc[t] = "copyHead" /\ pc'[t] = "copyKey" /\ tab = before
          /\ WriteSlots(before, c) # {} /\ slot[t] = First(WriteSlots(before, c))
          /\ UNCHANGED <<slot, node>>
      BY <1>0, <2>2, <2>6 DEF CopyHead, Reaches, At, ShmStep, Goto, Progress
    <3>2. tab' = [tab EXCEPT ![slot[t]] = [node[t] EXCEPT !.seckey = tab[slot[t]].seckey]]
      BY <2>6 DEF CopyHead
    <3> QED
      BY <2>1, <3>1, <3>2 DEF Progress, Written
  <2>7. CASE CopyKey(t)
    <3>1. /\ pc[t] = "copyKey" /\ pc'[t] = "detach"
          /\ WriteSlots(before, c) # {} /\ slot[t] = First(WriteSlots(before, c))
          /\ tab = FirstHalf(before, slot[t], node[t])
          /\ UNCHANGED node
      BY <1>0, <2>2, <2>7 DEF CopyKey, Reaches, At, ShmStep, Goto, Progress, FirstHalf
    <3>2. tab' = SecondHalf(tab, slot[t], node[t])
      BY <2>7 DEF CopyKey, SecondHalf
    <3>3. node[t] \in NodeSHMInfo
      BY <1>0 DEF ShmTypeOK
    <3>4. tab' = ShmWrite(before, node[t])
      BY <1>0, <3>1, <3>2, <3>3, CopyHalves
    <3> QED
      BY <2>1, <3>1, <3>4 DEF Progress, Written
  <2> QED
    BY <1>6, <2>3, <2>4, <2>5, <2>6, <2>7
<1>7. ASSUME NEW t \in Thread,
             IdChecked(t) \/ AgreeWritten(t) \/ NodeRead(t) \/ RevokeWritten(t)
      PROVE  WriteOK' /\ WriteIsAtomic'
  <2> SUFFICES ASSUME ~ shmOverlap, NEW u \in Thread, InShm(u)'
               PROVE  (Progress(u) /\ Written(u))'
    BY <1>1, <1>2, <1>7, CallerSteps DEF Detach
  <2>1. u # t /\ InShm(u)
    BY <1>0, <1>7, CallerSteps DEF InShm
  <2>2. IdChecked(t)
    <3>1. ~ InShm(t)
      BY <1>3, <2>1
    <3> QED
      BY <1>7, <3>1, CallerSteps DEF InShm
  <2>3. /\ UNCHANGED <<tab, before, slot>>
        /\ pc'[u] = pc[u] /\ node'[u] = node[u] /\ use'[u] = use[u]
    BY <1>0, <2>1, <2>2, CallerSteps
  <2> QED
    BY <1>3, <2>1, <2>3 DEF Progress, Written
<1>8. CASE pc' = [t \in Thread |-> "none"]
  BY <1>1, <1>2, <1>8 DEF InShm
<1> QED
  BY <1>4, <1>5, <1>6, <1>7, <1>8, <1>9, ShmSteps DEF ShmMove

-----------------------------------------------------------------------------
(* The calls on the database connection.                                   *)

InQuery ==
    {"reply", "freeResult", "clearResult", "storeResult", "return", "rows", "sqlReply"}

\* Nothing happens to the connection and the results, nor in a query.
DbQuiet ==
    /\ UNCHANGED dbVars
    /\ \A t \in Thread : \/ pc'[t] = pc[t] /\ (InDb(t) => sock'[t] = sock[t])
                         \/ pc[t] \notin InQuery /\ pc'[t] \notin InQuery

\* A step of a query, or of its caller before and after it.
DbMove(t) ==
    \/ Query(t, ClientOf(t)) \/ Reply(t) \/ FreeResult(t) \/ ClearResult(t)
    \/ StoreResult(t) \/ Return(t) \/ DoSql(t) \/ SqlReply(t, ClientOf(t))
    \/ AskRegistered(t) \/ IdChecked(t) \/ AgreeWritten(t) \/ RowSelected(t)

\* The steps of the threads, as the connection sees them.
LEMMA DbSteps ==
    ASSUME TypeOK, [Next]_vars
    PROVE  \/ DbQuiet
           \/ \E t \in Thread : DbMove(t)
           \/ /\ DbGone
              /\ pc' = [t \in Thread |-> "none"]
<1>0. pc \in [Thread -> Pc] /\ sock \in [Thread -> Socket]
  BY DEF TypeOK, ProcessTypeOK
<1> USE <1>0 DEF InQuery, InDb
<1>1. CASE UNCHANGED vars
  BY <1>1 DEF vars, processVars, DbQuiet
<1>2. ASSUME NEW i \in Conn, Request(i)
      PROVE  DbQuiet
  BY <1>2 DEF Request, Connect, DbQuiet
<1>3. ASSUME NEW t \in Thread, UNCHANGED dbVars, UNCHANGED sock,
             pc[t] \notin InQuery,
             \E next : next \notin InQuery /\ pc' = [pc EXCEPT ![t] = next]
      PROVE  DbQuiet
  BY <1>3 DEF DbQuiet
<1>4. ASSUME NEW t \in Thread, Worker(t)
      PROVE  DbQuiet \/ DbMove(t)
  <2>1. CASE Frame(t)
    BY <2>1 DEF Frame, Lookup, LookupAs, Close, Erase, At, Goto, DbQuiet
  <2>2. CASE NodeRead(t) \/ RevokeWritten(t)
    <3>1. pc[t] = "detach" /\ UNCHANGED dbVars /\ UNCHANGED sock
      BY <2>2 DEF NodeRead, RevokeWritten, Detach, At
    <3>2. Goto(t, "attach") \/ Goto(t, "close") \/ Goto(t, "doSql")
      BY <2>2 DEF NodeRead, RevokeWritten
    <3> QED
      BY <1>3, <3>1, <3>2 DEF Goto
  <2>3. ASSUME NEW c, TableStep(t, c), UNCHANGED dbVars
        PROVE  DbQuiet
    <3>1. CASE Attach(t) \/ Mapped(t)
      <4>1. /\ pc[t] \in {"attach", "mapped"} /\ UNCHANGED sock
            /\ Goto(t, "mapped") \/ Goto(t, "readSlot") \/ Goto(t, "ownSlot")
        BY <3>1 DEF Attach, Mapped, At
      <4> QED
        BY <1>3, <2>3, <4>1 DEF Goto
    <3>2. CASE ~ (Attach(t) \/ Mapped(t))
      <4>1. pc[t] \in InCall \ {"detach"}
        BY <2>3, <3>2 DEF TableStep, ReadSlot, OwnSlot, FreeSlot, CopyHead, CopyKey,
           Reaches, At, InCall
      <4>2. \E next \in InCall : ShmStep(t, next)
        BY <2>3, <3>2 DEF TableStep, ReadSlot, OwnSlot, FreeSlot, CopyHead, CopyKey, InCall
      <4> QED
        BY <1>3, <2>3, <4>1, <4>2 DEF ShmStep, Goto, InCall
    <3> QED
      BY <3>1, <3>2
  <2> QED
    BY <1>4, <2>1, <2>2, <2>3 DEF Worker, LocalCode, DatabaseStep, DbMove
<1>5. CASE MainThread(MainStep) \/ MainThread(CatchSignal)
  <2>1. /\ UNCHANGED sock
        /\ pc' = pc \/ \E t \in Thread : pc[t] = "none" /\ pc' = [pc EXCEPT ![t] = "lookup"]
    BY <1>5 DEF MainThread, MainStep, CatchSignal, CheckStop, CheckStopIf, Accept,
       AcceptTimeout, AcceptError, Create, Insert
  <2> QED
    BY <1>5, <2>1 DEF MainThread, DbQuiet
<1>6. CASE End
  BY <1>6 DEF End, Die
<1> QED
  BY <1>1, <1>2, <1>4, <1>5, <1>6 DEF Next

\* What a caller of GetSqlRes does before and after it, to the variables of the
\* queries.
LEMMA AskerSteps ==
    ASSUME TypeOK, NEW t \in Thread
    PROVE  /\ AskRegistered(t) \/ AgreeWritten(t) =>
                /\ pc[t] \notin InQuery /\ pc' = [pc EXCEPT ![t] = "query"]
                /\ call' \in {[call EXCEPT ![t] = "check"], [call EXCEPT ![t] = "select"]}
                /\ UNCHANGED <<sock, unread, result, freed, res, found, rows, dbOverlap>>
           /\ IdChecked(t) \/ RowSelected(t) =>
                /\ pc[t] = "rows"
                /\ \E next \in {"attach", "close", "doSql", "query"} :
                      pc' = [pc EXCEPT ![t] = next]
                /\ res' = [res EXCEPT ![t] = NoResult]
                /\ found' = [found EXCEPT ![t] = FALSE]
                /\ \/ UNCHANGED call
                   \/ call' \in {[call EXCEPT ![t] = NoQuery], [call EXCEPT ![t] = "max"]}
                /\ UNCHANGED <<sock, unread, result, freed, rows, dbOverlap>>
<1>1. CASE AskRegistered(t) \/ AgreeWritten(t)
  BY <1>1 DEF AskRegistered, AgreeWritten, Recv, Detach, At, Goto, InQuery, IdChecked,
     RowSelected, ReadRows
<1>2. CASE IdChecked(t)
  <2>1. Goto(t, "attach") \/ Goto(t, "close")
    BY <1>2, Zenon DEF IdChecked
  <2>2. call' = [call EXCEPT ![t] = NoQuery] /\ \E answer : ReadRows(t, answer)
    BY <1>2, Zenon DEF IdChecked
  <2> QED
    BY <2>1, <2>2 DEF ReadRows, At, Goto, InQuery, AskRegistered, AgreeWritten, Recv, Detach
<1>3. CASE RowSelected(t)
  <2>1. \/ UNCHANGED call /\ Goto(t, "doSql")
        \/ call' = [call EXCEPT ![t] = "max"] /\ Goto(t, "query")
    BY <1>3 DEF RowSelected
  <2>2. \E answer : ReadRows(t, answer)
    BY <1>3 DEF RowSelected
  <2> QED
    BY <2>1, <2>2 DEF ReadRows, At, Goto, InQuery, AskRegistered, AgreeWritten, Recv, Detach
<1> QED
  BY <1>1, <1>2, <1>3

\* A worker that is past recvMsg serves a request.
LEMMA ServedRequest ==
    ASSUME TypeOK, SocketsOK, NEW t \in Thread, pc[t] \notin {"none", "lookup", "recv"}
    PROVE  /\ sock[t] \in Conn
           /\ request[sock[t]] \in Requests
           /\ ClientOf(t) \in Client
<1>1. sock[t] \in Conn /\ request[sock[t]] \in Requests
  BY DEF SocketsOK
<1> QED
  BY <1>1, RequestsAssumption DEF ClientOf

\* The variables of the queries keep their types.
LEMMA DbTypeStep ==
    ASSUME TypeOK, SocketsOK, [Next]_vars
    PROVE  DbTypeOK' /\ rows' \subseteq Client
<1>0. DbTypeOK /\ rows \subseteq Client /\ sock \in [Thread -> Socket]
  BY DEF TypeOK, ProcessTypeOK
<1> USE <1>0 DEF DbTypeOK
<1>1. CASE UNCHANGED dbVars
  BY <1>1 DEF dbVars
<1>2. ASSUME NEW t \in Thread, NEW c, Query(t, c)
      PROVE  DbTypeOK' /\ rows' \subseteq Client
  BY <1>2 DEF Query
<1>3. ASSUME NEW t \in Thread, Reply(t) \/ ClearResult(t)
      PROVE  DbTypeOK' /\ rows' \subseteq Client
  BY <1>3 DEF Reply, ClearResult
<1>4. ASSUME NEW t \in Thread, FreeResult(t)
      PROVE  DbTypeOK' /\ rows' \subseteq Client
  BY <1>4 DEF FreeResult
<1>5. ASSUME NEW t \in Thread, StoreResult(t)
      PROVE  DbTypeOK' /\ rows' \subseteq Client
  <2>1. \A u \in Unstored : <<sock[u], call[u], found[u]>> \in Results
    BY DEF Unstored, Results
  <2>2. result' \in Results \cup {NoResult} /\ freed' \subseteq Results
    BY <1>5, <2>1 DEF StoreResult
  <2> QED
    BY <1>5, <2>2 DEF StoreResult
<1>6. ASSUME NEW t \in Thread, Return(t)
      PROVE  DbTypeOK' /\ rows' \subseteq Client
  BY <1>6 DEF Return
<1>7. ASSUME NEW t \in Thread, AskRegistered(t) \/ AgreeWritten(t)
      PROVE  DbTypeOK' /\ rows' \subseteq Client
  <2>1. call' \in [Thread -> Queries \cup {NoQuery}]
    BY <1>7, AskerSteps DEF Queries
  <2> QED
    BY <1>7, <2>1, AskerSteps
<1>8. ASSUME NEW t \in Thread, IdChecked(t) \/ RowSelected(t)
      PROVE  DbTypeOK' /\ rows' \subseteq Client
  <2>1. call' \in [Thread -> Queries \cup {NoQuery}]
    BY <1>8, AskerSteps DEF Queries
  <2>2. found' \in [Thread -> BOOLEAN] /\ res' \in [Thread -> Results \cup {NoResult}]
    BY <1>8, AskerSteps
  <2> QED
    BY <1>8, <2>1, <2>2, AskerSteps
<1>9. ASSUME NEW t \in Thread, SqlReply(t, ClientOf(t))
      PROVE  DbTypeOK' /\ rows' \subseteq Client
  <2>1. ClientOf(t) \in Client
    BY <1>9, ServedRequest DEF SqlReply, At
  <2> QED
    BY <1>9, <2>1 DEF SqlReply
<1>11. ASSUME NEW t \in Thread, DoSql(t)
       PROVE  DbTypeOK' /\ rows' \subseteq Client
  <2>1. call' \in [Thread -> Queries \cup {NoQuery}]
    BY <1>11 DEF DoSql
  <2> QED
    BY <1>11, <2>1 DEF DoSql
<1>10. CASE DbGone
  BY <1>10 DEF DbGone
<1> QED
  BY <1>1, <1>2, <1>3, <1>4, <1>5, <1>6, <1>7, <1>8, <1>9, <1>10, <1>11, DbSteps
     DEF DbMove, DbQuiet

\* What a query that nobody disturbs has got so far, and what its rows will be.
Reached(t) ==
    /\ unread <=> (pc[t] \in {"freeResult", "clearResult", "storeResult"})
    /\ pc[t] = "return" => result = <<sock[t], call[t], found[t]>>
    /\ pc[t] = "rows" => res[t] = <<sock[t], call[t], found[t]>> /\ res[t] \notin freed

Undisturbed ==
    /\ unread => \E t \in Thread : InDb(t)
    /\ result \in freed => \E t \in Thread : pc[t] = "clearResult"
    /\ \A t \in Thread : InDb(t) => Reached(t) /\ \A u \in Thread \ {t} : ~ InDb(u)

\* A reply is stored by the thread whose query it is, and a result is freed once,
\* as long as queries come one after the other.
LEMMA QueriesStep ==
    ASSUME TypeOK, QueriesOK, OwnRows, [Next]_vars
    PROVE  QueriesOK' /\ OwnRows'
<1>0. /\ pc \in [Thread -> Pc] /\ DbTypeOK /\ NoResult \notin Results
  BY DbCallsAssumption DEF TypeOK
<1> USE <1>0
<1>1. (QueriesOK /\ OwnRows) <=> (~ dbOverlap => Undisturbed)
  BY DEF QueriesOK, OwnRows, Undisturbed, Reached, InDb
<1>2. (QueriesOK' /\ OwnRows') <=> (~ dbOverlap' => Undisturbed')
  BY DEF QueriesOK, OwnRows, Undisturbed, Reached, InDb
<1>3. CASE DbQuiet
  <2> SUFFICES ASSUME Undisturbed
               PROVE  Undisturbed'
    BY <1>1, <1>2, <1>3 DEF DbQuiet, dbVars
  <2>1. \A t \in Thread : /\ InDb(t)' = InDb(t)
                          /\ InDb(t) => pc'[t] = pc[t] /\ sock'[t] = sock[t]
    BY <1>3 DEF DbQuiet, InDb, InQuery
  <2>2. \A t \in Thread : pc[t] = "clearResult" => pc'[t] = "clearResult"
    BY <1>3 DEF DbQuiet, InQuery
  <2> QED
    BY <1>3, <2>1, <2>2 DEF Undisturbed, Reached, DbQuiet, dbVars
<1>4. ASSUME NEW t \in Thread, Query(t, ClientOf(t))
      PROVE  ~ dbOverlap' => Undisturbed'
  <2> SUFFICES ASSUME ~ dbOverlap'
               PROVE  Undisturbed'
    OBVIOUS
  <2>1. /\ ~ dbOverlap /\ \A u \in Thread : ~ InDb(u)
        /\ pc[t] = "query"
        /\ pc' = [pc EXCEPT ![t] = IF unread THEN "rows" ELSE "reply"]
        /\ UNCHANGED <<sock, unread, result, freed, res, call>>
    BY <1>4 DEF Query, DbStep, At, Goto
  <2>2. ~ unread /\ result \notin freed
    BY <1>1, <2>1 DEF Undisturbed, InDb
  <2>3. pc'[t] = "reply" /\ \A u \in Thread \ {t} : ~ InDb(u)'
    BY <2>1, <2>2 DEF InDb
  <2> QED
    BY <2>1, <2>2, <2>3 DEF Undisturbed, Reached, InDb
<1>5. ASSUME NEW t \in Thread,
             Reply(t) \/ FreeResult(t) \/ ClearResult(t) \/ StoreResult(t) \/ Return(t),
             Undisturbed
      PROVE  Undisturbed'
  <2>1. /\ InDb(t) /\ Reached(t)
        /\ \A u \in Thread \ {t} : ~ InDb(u) /\ pc'[u] = pc[u]
        /\ UNCHANGED <<sock, call, found>>
    BY <1>5 DEF Undisturbed, Reply, FreeResult, ClearResult, StoreResult, Return, At, InDb,
       DbStep, Goto
  <2>2. \A u \in Thread \ {t} : ~ InDb(u)'
    BY <2>1 DEF InDb
  <2> SUFFICES /\ InDb(t)'
               /\ result' \in freed' => pc'[t] = "clearResult"
               /\ Reached(t)'
    BY <2>2 DEF Undisturbed
  <2>3. CASE Reply(t)
    <3>1. result \notin freed
      BY <1>5, <2>1, <2>3 DEF Undisturbed, Reply, At, InDb
    <3> QED
      BY <2>3, <3>1 DEF Reply, DbStep, Goto, InDb, Reached
  <2>4. CASE FreeResult(t)
    <3>1. unread /\ UNCHANGED <<unread, result>> /\ pc[t] = "freeResult" /\ result \notin freed
      BY <2>1, <2>4 DEF FreeResult, At, Reached
    <3>2. \/ pc'[t] = "storeResult" /\ UNCHANGED freed
          \/ pc'[t] = "clearResult"
      BY <2>4 DEF FreeResult, DbStep, Goto
    <3> QED
      BY <3>1, <3>2 DEF InDb, Reached
  <2>5. CASE ClearResult(t)
    <3>1. NoResult \notin freed
      BY DEF DbTypeOK
    <3>2. unread
      BY <2>1, <2>5 DEF ClearResult, At, Reached
    <3> QED
      BY <2>5, <3>1, <3>2 DEF ClearResult, DbStep, Goto, InDb, Reached
  <2>6. CASE StoreResult(t)
    <3>1. unread /\ pc'[t] = "return" /\ unread' = FALSE
      BY <2>1, <2>6 DEF StoreResult, At, Reached, DbStep, Goto
    <3>2. Unstored \subseteq {t}
      BY <2>1 DEF Unstored
    <3>3. result' = <<sock[t], call[t], found[t]>> /\ result' \notin freed'
      BY <2>6, <3>1, <3>2 DEF StoreResult
    <3>4. result' = <<sock'[t], call'[t], found'[t]>>
      BY <2>1, <3>3
    <3> QED
      BY <3>1, <3>3, <3>4 DEF InDb, Reached
  <2>7. CASE Return(t)
    <3>1. /\ pc[t] = "return" /\ pc'[t] = "rows" /\ UNCHANGED <<unread, result, freed>>
          /\ res'[t] = result
      BY <2>7 DEF Return, At, DbStep, Goto, DbTypeOK
    <3>2. result \notin freed
      BY <1>5, <2>1, <3>1 DEF Undisturbed, InDb
    <3> QED
      BY <2>1, <3>1, <3>2 DEF InDb, Reached
  <2> QED
    BY <1>5, <2>3, <2>4, <2>5, <2>6, <2>7
<1>6. ASSUME NEW t \in Thread, AskRegistered(t) \/ AgreeWritten(t), Undisturbed
      PROVE  Undisturbed'
  <2>1. /\ ~ InDb(t) /\ ~ InDb(t)' /\ pc[t] # "clearResult"
        /\ UNCHANGED <<sock, unread, result, freed, res, found>>
        /\ \A u \in Thread \ {t} : pc'[u] = pc[u] /\ call'[u] = call[u]
    BY <1>6, AskerSteps DEF InDb, InQuery, DbTypeOK
  <2> QED
    BY <1>6, <2>1 DEF Undisturbed, Reached, InDb
<1>7. ASSUME NEW t \in Thread, IdChecked(t) \/ RowSelected(t), Undisturbed
      PROVE  Undisturbed'
  <2>1. /\ InDb(t) /\ ~ InDb(t)' /\ pc[t] = "rows"
        /\ UNCHANGED <<unread, result, freed>>
        /\ \A u \in Thread \ {t} : pc'[u] = pc[u]
    BY <1>7, AskerSteps DEF InDb
  <2>2. ~ unread /\ \A u \in Thread \ {t} : ~ InDb(u) /\ ~ InDb(u)'
    BY <1>7, <2>1 DEF Undisturbed, Reached, InDb
  <2>3. result \notin freed
    BY <1>7, <2>1, <2>2 DEF Undisturbed, InDb
  <2> QED
    BY <2>1, <2>2, <2>3 DEF Undisturbed
<1>8. ASSUME NEW t \in Thread, DoSql(t)
      PROVE  ~ dbOverlap' => Undisturbed'
  <2> SUFFICES ASSUME ~ dbOverlap'
               PROVE  Undisturbed'
    OBVIOUS
  <2>1. /\ ~ dbOverlap /\ \A u \in Thread : ~ InDb(u)
        /\ pc' = [pc EXCEPT ![t] = IF unread THEN "close" ELSE "sqlReply"]
        /\ UNCHANGED <<unread, result, freed>>
    BY <1>8 DEF DoSql, DbStep, Goto
  <2>2. ~ unread /\ result \notin freed
    BY <1>1, <2>1 DEF Undisturbed, InDb
  <2>3. pc'[t] = "sqlReply" /\ \A u \in Thread \ {t} : ~ InDb(u)'
    BY <2>1, <2>2 DEF InDb
  <2> QED
    BY <2>1, <2>2, <2>3 DEF Undisturbed, Reached, InDb
<1>11. ASSUME NEW t \in Thread, SqlReply(t, ClientOf(t)), Undisturbed
       PROVE  Undisturbed'
  <2>1. /\ InDb(t) /\ pc[t] = "sqlReply"
        /\ pc' = [pc EXCEPT ![t] = "close"]
        /\ UNCHANGED <<unread, result, freed>>
    BY <1>11 DEF SqlReply, At, DbStep, Goto, InDb
  <2>2. /\ ~ unread /\ result \notin freed
        /\ \A u \in Thread \ {t} : ~ InDb(u)
    BY <1>11, <2>1 DEF Undisturbed, Reached, InDb
  <2>3. \A u \in Thread : ~ InDb(u)'
    BY <2>1, <2>2 DEF InDb
  <2> QED
    BY <2>1, <2>2, <2>3 DEF Undisturbed
<1>9. CASE DbGone /\ pc' = [t \in Thread |-> "none"]
  <2>1. ~ unread' /\ result' \notin freed' /\ \A t \in Thread : ~ InDb(t)'
    BY <1>9 DEF DbGone, InDb
  <2> QED
    BY <1>2, <2>1 DEF Undisturbed
<1>10. ASSUME NEW t \in Thread, DbMove(t)
       PROVE  ~ dbOverlap' => Undisturbed'
  <2>1. CASE Query(t, ClientOf(t)) \/ DoSql(t)
    BY <1>4, <1>8, <2>1
  <2>4. CASE SqlReply(t, ClientOf(t))
    BY <1>1, <1>11, <2>4 DEF SqlReply
  <2>2. CASE Reply(t) \/ FreeResult(t) \/ ClearResult(t) \/ StoreResult(t) \/ Return(t)
    <3>1. UNCHANGED dbOverlap
      BY <2>2 DEF Reply, FreeResult, ClearResult, StoreResult, Return
    <3>2. Undisturbed => Undisturbed'
      BY <1>5, <2>2
    <3> QED
      BY <1>1, <3>1, <3>2
  <2>3. CASE AskRegistered(t) \/ AgreeWritten(t) \/ IdChecked(t) \/ RowSelected(t)
    BY <1>1, <1>6, <1>7, <2>3, AskerSteps
  <2> QED
    BY <1>10, <2>1, <2>2, <2>3, <2>4 DEF DbMove
<1> QED
  BY <1>2, <1>3, <1>9, <1>10, DbSteps

-----------------------------------------------------------------------------
(* What can end the process.                                               *)

\* What the properties look back at is never forgotten, and only the end of the
\* process has a cause.
LEMMA Histories ==
    ASSUME TypeOK, [Next]_vars
    PROVE  /\ shmOverlap => shmOverlap'
           /\ dbOverlap => dbOverlap'
           /\ mishaps \subseteq mishaps'
           /\ stop => stop'
           /\ End \/ UNCHANGED why
<1>1. shmOverlap => shmOverlap'
  <2>1. ASSUME NEW t \in Thread, ShmMove(t), shmOverlap
        PROVE  shmOverlap'
    BY <2>1, WithinCall, CallerSteps DEF ShmMove, Attach, Mapped, Detach
  <2> QED
    BY <2>1, ShmSteps DEF ShmQuiet, shmVars, ShmGone
<1>2. dbOverlap => dbOverlap'
  <2>1. ASSUME NEW t \in Thread, DbMove(t), dbOverlap
        PROVE  dbOverlap'
    BY <2>1, AskerSteps DEF DbMove, Query, DoSql, SqlReply, Reply, FreeResult, ClearResult,
       StoreResult, Return
  <2> QED
    BY <2>1, DbSteps DEF DbQuiet, dbVars, DbGone
<1>3. mishaps \subseteq mishaps' /\ (stop => stop')
  <2>1. ASSUME NEW t \in Thread, SocketStep(t)
        PROVE  mishaps \subseteq mishaps' /\ UNCHANGED stop
    BY <2>1 DEF SocketStep, Lookup, LookupAs, Recv, ServeStep, Close, Erase, mainVars
  <2>2. CASE MainStep
    BY <2>2 DEF MainStep, CheckStop, CheckStopIf, Accept, AcceptTimeout, AcceptError,
       Create, Insert
  <2>3. ASSUME NEW cause, Die(cause)
        PROVE  UNCHANGED <<mishaps, stop>>
    BY <2>3 DEF Die
  <2>4. CASE CatchSignal
    BY <2>4 DEF CatchSignal
  <2>5. ASSUME NEW i \in Conn, Request(i)
        PROVE  UNCHANGED <<mishaps, stop>>
    BY <2>5 DEF Request, Connect, mainVars
  <2> QED
    BY <2>1, <2>2, <2>3, <2>4, <2>5, ProcessSteps DEF processVars
<1>4. End \/ UNCHANGED why
  <2>1. ASSUME NEW t \in Thread, Worker(t)
        PROVE  UNCHANGED why
    BY <2>1, WorkerSteps DEF SocketStep, Lookup, LookupAs, Recv, ServeStep, Close, Erase,
       StillRunning
  <2>2. CASE MainThread(MainStep) \/ MainThread(CatchSignal)
    BY <2>2 DEF MainThread, MainStep, CheckStop, CheckStopIf, Accept, AcceptTimeout,
       AcceptError, Create, Insert, StillRunning, CatchSignal
  <2> QED
    BY <2>1, <2>2 DEF Next, Request, Connect, vars, processVars
<1> QED
  BY <1>1, <1>2, <1>3, <1>4

\* A worker at recvMsg without a socket of its own got a null pointer from the
\* registry or the socket of a failed accept.
LEMMA RecvExplained ==
    ASSUME TypeOK, SocketsOK, OwnersOK, NullsOK, NEW t \in Thread, NEW cause,
           RecvDies(t, cause)
    PROVE  \/ cause = "badSocket" /\ "failed" \in mishaps
           \/ cause = "noSocket" /\ {"idle", "hasty"} \cap mishaps # {}
<1>1. pc[t] = "recv" /\ sock[t] = registry[t]
  BY DEF RecvDies, At, SocketsOK
<1>2. CASE sock[t] = Null /\ cause = "noSocket"
  BY <1>1, <1>2 DEF NullsOK
<1>3. CASE sock[t] = BadFd /\ cause = "badSocket"
  BY <1>1, <1>3 DEF OwnersOK
<1>4. CASE sock[t] \in Conn /\ (st[sock[t]] = "closed" \/ Shared(t)) /\ cause = "badSocket"
  <2> SUFFICES ASSUME "failed" \notin mishaps
               PROVE  FALSE
    BY <1>4
  <2>1. st[sock[t]] = "open" /\ \A u \in Thread \ {t} : registry[u] # sock[t]
    BY <1>1, <1>4 DEF OwnersOK
  <2>2. PICK u \in Thread \ {t} : pc[u] # "none" /\ sock[u] = sock[t]
    BY <1>4, <2>1 DEF Shared
  <2>3. sock[u] = Null \/ sock[u] = registry[u]
    BY <2>2 DEF SocketsOK
  <2> QED
    BY <1>4, <2>1, <2>2, <2>3, Markers
<1> QED
  BY <1>2, <1>3, <1>4 DEF RecvDies

\* A query dies only when another one was on its way at the same time.
LEMMA DbExplained ==
    ASSUME TypeOK, QueriesOK, OwnRows, NEW t \in Thread, NEW cause, DbDies(t, cause)
    PROVE  /\ cause \in {"mixedReplies", "doubleFree", "nullResult", "useAfterFree"}
           /\ dbOverlap \/ Waiting # {}
<1>0. DbTypeOK /\ NoResult \notin Results /\ sock \in [Thread -> Socket]
  BY DbCallsAssumption DEF TypeOK, ProcessTypeOK
<1>1. CASE Waiting \ {t} # {} /\ cause = "mixedReplies"
  BY <1>1
<1>2. CASE pc[t] = "freeResult" /\ result \in freed /\ cause = "doubleFree"
  <2>1. SUFFICES ASSUME ~ dbOverlap
                 PROVE  FALSE
    BY <1>2
  <2>2. PICK u \in Thread : pc[u] = "clearResult"
    BY <1>2, <2>1 DEF QueriesOK
  <2>3. InDb(t) /\ InDb(u) /\ u # t
    BY <1>2, <2>2 DEF InDb
  <2> QED
    BY <2>1, <2>3 DEF QueriesOK
<1>3. CASE pc[t] = "rows" /\ (res[t] = NoResult \/ res[t] \in freed)
           /\ cause \in {"nullResult", "useAfterFree"}
  <2>1. SUFFICES ASSUME ~ dbOverlap
                 PROVE  FALSE
    BY <1>3
  <2>2. <<sock[t], call[t], found[t]>> \in Results
    BY <1>0 DEF DbTypeOK, Results
  <2>3. res[t] = <<sock[t], call[t], found[t]>> /\ res[t] \notin freed
    BY <1>3, <2>1 DEF OwnRows
  <2> QED
    BY <1>0, <1>3, <2>2, <2>3
<1> QED
  BY <1>1, <1>2, <1>3 DEF DbDies

\* Every way in which the process ends has its explanation.
LEMMA CrashStep ==
    ASSUME IndInv, [Next]_vars
    PROVE  CrashExplained'
<1> USE DEF IndInv
<1>1. CASE UNCHANGED why
  BY <1>1, Histories DEF CrashExplained
<1>2. CASE End
  <2>1. PICK cause \in Causes :
          /\ \/ Stopped(cause)
             \/ MapRace(cause)
             \/ \E t \in Thread : RecvDies(t, cause) \/ ShmDies(t, cause) \/ DbDies(t, cause)
          /\ Die(cause)
    BY <1>2 DEF End
  <2>2. /\ why' = cause /\ UNCHANGED <<stop, mishaps, shmOverlap>>
        /\ dbOverlap' = (dbOverlap \/ Waiting # {})
    BY <1>2, <2>1 DEF End, Die, ShmGone, DbGone
  <2>3. CASE Stopped(cause)
    BY <2>2, <2>3 DEF CrashExplained, Stopped
  <2>4. CASE MapRace(cause)
    BY <2>2, <2>4 DEF CrashExplained, MapRace
  <2>5. ASSUME NEW t \in Thread, RecvDies(t, cause)
        PROVE  CrashExplained'
    <3>1. \/ cause = "badSocket" /\ "failed" \in mishaps
          \/ cause = "noSocket" /\ {"idle", "hasty"} \cap mishaps # {}
      BY <2>5, RecvExplained
    <3> QED
      BY <2>2, <3>1 DEF CrashExplained
  <2>6. ASSUME NEW t \in Thread, ShmDies(t, cause)
        PROVE  CrashExplained'
    <3>1. cause = "detached" /\ InShm(t) /\ pc[t] # "mapped" /\ p[t] \notin maps
      BY <2>6 DEF ShmDies
    <3>2. shmOverlap
      BY <3>1 DEF SegmentOK
    <3> QED
      BY <2>2, <3>1, <3>2 DEF CrashExplained
  <2>7. ASSUME NEW t \in Thread, DbDies(t, cause)
        PROVE  CrashExplained'
    <3>1. /\ cause \in {"mixedReplies", "doubleFree", "nullResult", "useAfterFree"}
          /\ dbOverlap \/ Waiting # {}
      BY <2>7, DbExplained
    <3> QED
      BY <2>2, <3>1 DEF CrashExplained
  <2> QED
    BY <2>1, <2>3, <2>4, <2>5, <2>6, <2>7
<1> QED
  BY <1>1, <1>2, Histories

-----------------------------------------------------------------------------
(* The theorems.                                                           *)

\* The process starts well: the table is as the constructor filled it.
LEMMA InitInv == Init => IndInv
<1> SUFFICES ASSUME Init
             PROVE  IndInv
  OBVIOUS
<1>0. MaxNode \in Nat /\ 0 \in 0..MaxNode
  BY ShmCallsAssumption
<1>1. tab \in [1..MaxNode -> NodeSHMInfo] /\ tab = Tab0
  BY ShmCallsAssumption DEF Init, ShmInit
<1>2. ProcessTypeOK /\ why \in Causes \cup {"alive"} /\ pc \in [Thread -> Pc]
  BY DEF Init, ProcessInit, ProcessTypeOK, Socket, Pc
<1>3. ShmTypeOK
  BY <1>0, <1>1, ZeroType DEF Init, ShmInit, ShmTypeOK
<1>4. DbTypeOK /\ rows \subseteq Client
  BY <1>0, RequestsAssumption DEF Init, DbInit, DbTypeOK, Results
<1>5. TypeOK
  BY <1>2, <1>3, <1>4 DEF Init, TypeOK
<1>6. SocketsOK /\ OwnersOK /\ NullsOK /\ LateOK
  BY Markers DEF Init, ProcessInit, SocketsOK, OwnersOK, NullsOK, LateOK
<1>7. SegmentOK /\ UseOK /\ WriteOK /\ ScanOK /\ WriteIsAtomic
  BY DEF Init, ProcessInit, SegmentOK, UseOK, WriteOK, Progress, ScanOK, WriteIsAtomic, InShm
<1>8. QueriesOK /\ OwnRows /\ CrashExplained
  BY DEF Init, ProcessInit, DbInit, QueriesOK, OwnRows, CrashExplained, InDb
<1> QED
  BY <1>1, <1>5, <1>6, <1>7, <1>8 DEF IndInv, LoadedSlotKept

\* Whatever the threads, the clients and the operator do, and in whatever order,
\* all parts of the invariant hold together.
THEOREM ThreadInvariance == Spec => []IndInv
<1>1. ASSUME IndInv, [Next]_vars
      PROVE  IndInv'
  <2> USE <1>1
  <2>1. TypeOK'
    <3>1. ProcessTypeOK'
      BY ProcessTypeStep DEF IndInv
    <3>2. ShmTypeOK'
      BY ShmTypeStep DEF IndInv
    <3>3. DbTypeOK' /\ (rows \subseteq Client)'
      BY DbTypeStep DEF IndInv
    <3>4. (/\ why \in Causes \cup {"alive"}
           /\ pc \in [Thread -> Pc]
           /\ request \in [Conn -> Requests \cup {NoRequest}])'
      BY FrameTypeStep DEF IndInv
    <3> QED
      BY <3>1, <3>2, <3>3, <3>4 DEF TypeOK
  <2>2. SocketsOK' /\ OwnersOK' /\ NullsOK' /\ LateOK'
    BY SocketsStep, OwnersStep, NullsStep, LateStep DEF IndInv
  <2>3. SegmentOK' /\ UseOK' /\ ScanOK' /\ LoadedSlotKept'
    BY SegmentStep, UseStep, ScanStep DEF IndInv
  <2>4. WriteOK' /\ WriteIsAtomic'
    BY WriteStep DEF IndInv
  <2>5. QueriesOK' /\ OwnRows'
    BY QueriesStep DEF IndInv
  <2>6. CrashExplained'
    BY CrashStep
  <2> QED
    BY <2>1, <2>2, <2>3, <2>4, <2>5, <2>6 DEF IndInv
<1> QED
  BY <1>1, InitInv, PTL DEF Spec

\* A worker that has its request is alone with an open connection, unless accept
\* failed and its errno was taken for a descriptor.
THEOREM SocketOfItsOwn == Spec => []OwnSocket
<1>1. ASSUME IndInv
      PROVE  OwnSocket
  <2> SUFFICES ASSUME "failed" \notin mishaps, NEW t \in Thread,
                      pc[t] \notin {"none", "lookup", "recv", "erase"}
               PROVE  /\ sock[t] \in Conn
                      /\ st[sock[t]] = "open"
                      /\ \A u \in Thread \ {t} : pc[u] # "none" => sock[u] # sock[t]
    BY DEF OwnSocket
  <2>1. sock[t] \in Conn /\ sock[t] = registry[t]
    BY <1>1 DEF IndInv, SocketsOK
  <2>2. st[sock[t]] = "open" /\ \A u \in Thread \ {t} : registry[u] # sock[t]
    BY <1>1, <2>1 DEF IndInv, OwnersOK
  <2>3. \A u \in Thread : sock[u] \in {Null, registry[u]}
    BY <1>1 DEF IndInv, SocketsOK
  <2> QED
    BY <2>1, <2>2, <2>3, Markers
<1> QED
  BY <1>1, ThreadInvariance, PTL

\* After SIGUSR1 at most one more connection is accepted.
THEOREM OneAcceptAfterSignal == Spec => []StopAfterOne
<1>1. IndInv => StopAfterOne
  BY DEF IndInv, LateOK, StopAfterOne
<1> QED
  BY <1>1, ThreadInvariance, PTL

\* The process ends for the reasons that CrashExplained gives, and for no other.
THEOREM CrashesExplained == Spec => []CrashExplained
<1>1. IndInv => CrashExplained
  BY DEF IndInv
<1> QED
  BY <1>1, ThreadInvariance, PTL

\* The parts of a shmWrite that no other call overlaps are one step of SecKeyShm.
THEOREM PartsAreOneWrite == Spec => []WriteIsAtomic
<1>1. IndInv => WriteIsAtomic
  BY DEF IndInv
<1> QED
  BY <1>1, ThreadInvariance, PTL

\* However the calls overlap, nobody takes the slot of a client that was loaded.
THEOREM LoadedSlotStays == Spec => []LoadedSlotKept
<1>1. IndInv => LoadedSlotKept
  BY DEF IndInv
<1> QED
  BY <1>1, ThreadInvariance, PTL

\* A worker whose query no other overlapped reads its own rows, and they live.
THEOREM RowsAreOwn == Spec => []OwnRows
<1>1. IndInv => OwnRows
  BY DEF IndInv
<1> QED
  BY <1>1, ThreadInvariance, PTL

-----------------------------------------------------------------------------
(* The table and the rows. While no two calls on one object overlap, the   *)
(* same clients are in both once nobody is at work, provided every client  *)
(* has room.                                                               *)

\* The clients that have a slot.
Known == {tab[k].clientID : k \in 1..MaxNode} \ {NoClient}

\* Between the two writes of an agreement: its client is in the table, and its
\* row is not certain yet.
Pending(t) ==
    \/ pc[t] \in {"copyKey", "detach"} /\ use[t] = "write" /\ Cmd(t) = "agree"
    \/ call[t] \in {"select", "max"}

\* An empty slot is all zero, and no client has two.
TidyTable ==
    /\ OneSlotEach(tab)
    /\ \A k \in 1..MaxNode : tab[k].clientID = NoClient => tab[k] = Zero

AtTable == {"attach"} \cup InCall

\* What a worker is about to write to the table, if it writes: the node of its
\* client's agreement, or one that it has read there, or zeroes.
NodeKnown(t) ==
    /\ use[t] = "write" => pc[t] \in AtTable
    /\ pc[t] \in AtTable /\ Cmd(t) = "agree" =>
          use[t] = "write" /\ node[t].clientID = ClientOf(t)
    /\ pc[t] \in AtTable /\ Cmd(t) # "agree" /\ (use[t] = "write" \/ pc[t] = "detach") =>
          node[t] = Zero \/ node[t].clientID \in Known

\* What a worker between its queries and its statement knows of the rows.
RowKnown(t) ==
    /\ call[t] \in {"select", "max"} => pc[t] \in InQuery \cup {"query", "doSql"}
    /\ Pending(t) => ClientOf(t) \in Known
    /\ call[t] = "select"
          /\ (pc[t] \in {"doSql", "sqlReply"} \/ (pc[t] \in InQuery /\ found[t])) =>
          ClientOf(t) \in rows

Agreed(c) == \E t \in Thread : Pending(t) /\ ClientOf(t) = c

BothKnow ==
    /\ TidyTable
    /\ rows \subseteq Known
    /\ \A c \in Known \ rows : Agreed(c)
    /\ \A t \in Thread : NodeKnown(t) /\ RowKnown(t)

Calm == proc = "running" /\ ~ shmOverlap /\ ~ dbOverlap

KnownOK == Calm => BothKnow

-----------------------------------------------------------------------------

\* A table with a slot for every client is full only when they all have one.
LEMMA Room ==
    ASSUME IsFiniteSet(Client), Cardinality(Client) <= MaxNode,
           TypeOK, TidyTable, FreeSlots(tab) = {}
    PROVE  Client \subseteq Known
<1>0. /\ IsTable(tab, MaxNode) /\ MaxNode \in Nat /\ DOMAIN tab = 1..MaxNode
      /\ \A k \in 1..MaxNode : tab[k].clientID \in Client \cup {NoClient}
  BY ShmCallsAssumption DEF TypeOK, ShmTypeOK, NodeSHMInfo, IsTable
<1> SUFFICES ASSUME NEW c \in Client PROVE c \in Known
  OBVIOUS
<1>1. WriteSlots(tab, c) # {}
  BY <1>0, RoomForAll DEF TidyTable
<1>2. PICK k \in 1..MaxNode : tab[k].clientID = c
  BY <1>0, <1>1 DEF WriteSlots, SlotsOf
<1> QED
  BY <1>0, <1>2, NoClientAssumption DEF Known

\* What a step of a worker does to the variables of another.
Same(u) ==
    /\ pc'[u] = pc[u] /\ sock'[u] = sock[u] /\ use'[u] = use[u] /\ node'[u] = node[u]
    /\ call'[u] = call[u] /\ found'[u] = found[u]
    /\ UNCHANGED request

\* Nothing.
LEMMA OthersSame ==
    ASSUME TypeOK, NEW t \in Thread, Worker(t), NEW u \in Thread \ {t}
    PROVE  Same(u)
<1>0. /\ pc \in [Thread -> Pc] /\ sock \in [Thread -> Socket] /\ ShmTypeOK /\ DbTypeOK
  BY DEF TypeOK, ProcessTypeOK
<1>1. pc'[u] = pc[u] /\ sock'[u] = sock[u] /\ UNCHANGED request
  <2>1. SocketStep(t) /\ UNCHANGED request
    BY WorkerSteps
  <2> QED
    BY <1>0, <2>1 DEF SocketStep, Lookup, LookupAs, Recv, ServeStep, Close, Erase, Goto
<1>2. use'[u] = use[u] /\ node'[u] = node[u]
  <2>1. CASE IdChecked(t) \/ AgreeWritten(t) \/ NodeRead(t) \/ RevokeWritten(t)
    BY <2>1, CallerSteps
  <2>2. CASE Frame(t) \/ AskRegistered(t) \/ RowSelected(t) \/ UNCHANGED shmVars
    BY <2>2 DEF Frame, AskRegistered, RowSelected, shmVars
  <2>3. ASSUME NEW c, TableStep(t, c)
        PROVE  use'[u] = use[u] /\ node'[u] = node[u]
    <3>1. CASE Attach(t) \/ Mapped(t)
      BY <3>1 DEF Attach, Mapped
    <3>2. CASE ReadSlot(t, c)
      BY <1>0, <3>2 DEF ReadSlot, ShmStep, ShmTypeOK
    <3>3. CASE OwnSlot(t)
      BY <3>3 DEF OwnSlot, ShmStep
    <3>4. CASE FreeSlot(t) \/ CopyHead(t) \/ CopyKey(t)
      BY <3>4 DEF FreeSlot, CopyHead, CopyKey, ShmStep
    <3> QED
      BY <2>3, <3>1, <3>2, <3>3, <3>4 DEF TableStep
  <2> QED
    BY <2>1, <2>2, <2>3 DEF Worker, LocalCode
<1>3. call'[u] = call[u] /\ found'[u] = found[u]
  <2>1. CASE AskRegistered(t) \/ AgreeWritten(t) \/ IdChecked(t) \/ RowSelected(t)
    <3>1. /\ \/ UNCHANGED call
             \/ \E q : call' = [call EXCEPT ![t] = q]
          /\ UNCHANGED found \/ found' = [found EXCEPT ![t] = FALSE]
      BY <2>1, AskerSteps
    <3> QED
      BY <1>0, <3>1 DEF DbTypeOK
  <2>2. CASE Frame(t) \/ NodeRead(t) \/ RevokeWritten(t) \/ UNCHANGED dbVars
    BY <2>2 DEF Frame, NodeRead, RevokeWritten, dbVars
  <2>3. ASSUME NEW c, DatabaseStep(t, c)
        PROVE  call'[u] = call[u] /\ found'[u] = found[u]
    <3>1. CASE Query(t, c)
      BY <1>0, <3>1 DEF Query, DbTypeOK
    <3>2. CASE DoSql(t) \/ SqlReply(t, c)
      BY <1>0, <3>2 DEF DoSql, SqlReply, DbTypeOK
    <3>3. CASE ~ Query(t, c) /\ ~ DoSql(t) /\ ~ SqlReply(t, c)
      BY <2>3, <3>3 DEF DatabaseStep, Reply, FreeResult, ClearResult, StoreResult, Return
    <3> QED
      BY <3>1, <3>2, <3>3
  <2> QED
    BY <2>1, <2>2, <2>3 DEF Worker, LocalCode
<1> QED
  BY <1>1, <1>2, <1>3 DEF Same

\* So what is known of another worker stays known.
LEMMA OthersStay ==
    ASSUME NEW u \in Thread, Same(u), NodeKnown(u), RowKnown(u),
           Known \subseteq Known', rows \subseteq rows'
    PROVE  /\ NodeKnown(u)' /\ RowKnown(u)'
           /\ Pending(u) => Pending(u)' /\ ClientOf(u)' = ClientOf(u)
<1>1. Cmd(u)' = Cmd(u) /\ ClientOf(u)' = ClientOf(u)
  BY DEF Same, Cmd, ClientOf
<1>2. Pending(u)' <=> Pending(u)
  BY <1>1 DEF Same, Pending
<1>3. NodeKnown(u)'
  BY <1>1 DEF Same, NodeKnown
<1>4. RowKnown(u)'
  BY <1>1, <1>2 DEF Same, RowKnown
<1> QED
  BY <1>1, <1>2, <1>3, <1>4

\* What a step of a worker has to do for both to know its client in the end.
Advance(t) ==
    /\ TidyTable'
    /\ Known \subseteq Known' /\ rows \subseteq rows' /\ rows' \subseteq Known'
    /\ NodeKnown(t)' /\ RowKnown(t)'
    /\ \A c \in Known' \ Known : Pending(t)' /\ ClientOf(t)' = c
    /\ \/ ~ Pending(t)
       \/ Pending(t)' /\ ClientOf(t)' = ClientOf(t)
       \/ ClientOf(t) \in rows'

LEMMA AdvanceIsEnough ==
    ASSUME TypeOK, NEW t \in Thread, Worker(t), BothKnow, Advance(t)
    PROVE  BothKnow'
<1>1. ASSUME NEW u \in Thread \ {t}
      PROVE  /\ NodeKnown(u)' /\ RowKnown(u)'
             /\ Pending(u) => Pending(u)' /\ ClientOf(u)' = ClientOf(u)
  BY <1>1, OthersSame, OthersStay DEF BothKnow, Advance
<1>2. ASSUME NEW c \in Known' \ rows'
      PROVE  Agreed(c)'
  <2>1. CASE c \notin Known
    BY <2>1 DEF Advance, Agreed
  <2>2. CASE c \in Known
    <3>1. c \notin rows
      BY DEF Advance
    <3>2. PICK u \in Thread : Pending(u) /\ ClientOf(u) = c
      BY <2>2, <3>1 DEF BothKnow, Agreed
    <3>3. Pending(u)' /\ ClientOf(u)' = c
      BY <1>1, <3>2 DEF Advance
    <3> QED
      BY <3>3 DEF Agreed
  <2> QED
    BY <2>1, <2>2
<1> QED
  BY <1>1, <1>2 DEF BothKnow, Advance

\* A step that leaves the table and the rows alone.
LEMMA Steady ==
    ASSUME BothKnow, NEW t \in Thread, UNCHANGED <<tab, rows>>,
           NodeKnown(t)', RowKnown(t)',
           ~ Pending(t) \/ (Pending(t)' /\ ClientOf(t)' = ClientOf(t)) \/ ClientOf(t) \in rows'
    PROVE  Advance(t)
<1>1. Known' = Known /\ (TidyTable' <=> TidyTable)
  BY DEF Known, TidyTable, OneSlotEach
<1> QED
  BY <1>1 DEF Advance, BothKnow

-----------------------------------------------------------------------------
(* The steps that no call on the table or the database takes part in.      *)

AtRows == InQuery \cup {"query", "doSql"}

\* A worker outside its calls is about to write nothing.
LEMMA Idle ==
    ASSUME NEW t \in Thread, NodeKnown(t), RowKnown(t), pc[t] \notin AtTable \cup AtRows
    PROVE  ~ Pending(t) /\ use[t] # "write" /\ call[t] \notin {"select", "max"}
BY DEF NodeKnown, RowKnown, Pending, AtTable, AtRows, InCall

LEMMA QuietStep ==
    ASSUME BothKnow, UNCHANGED <<tab, rows, use, node, call, found>>,
           \A u \in Thread :
              \/ pc'[u] = pc[u] /\ Cmd(u)' = Cmd(u) /\ ClientOf(u)' = ClientOf(u)
              \/ {pc[u], pc'[u]} \cap (AtTable \cup AtRows) = {}
    PROVE  BothKnow'
<1>1. Known' = Known /\ TidyTable'
  BY DEF BothKnow, Known, TidyTable, OneSlotEach
<1>2. ASSUME NEW u \in Thread
      PROVE  /\ NodeKnown(u)' /\ RowKnown(u)'
             /\ Pending(u) => Pending(u)' /\ ClientOf(u)' = ClientOf(u)
  <2>0. NodeKnown(u) /\ RowKnown(u)
    BY DEF BothKnow
  <2>1. CASE pc'[u] = pc[u] /\ Cmd(u)' = Cmd(u) /\ ClientOf(u)' = ClientOf(u)
    <3>1. Pending(u)' <=> Pending(u)
      BY <2>1 DEF Pending
    <3>2. NodeKnown(u)'
      BY <1>1, <2>0, <2>1 DEF NodeKnown
    <3>3. RowKnown(u)'
      BY <1>1, <2>0, <2>1, <3>1 DEF RowKnown
    <3> QED
      BY <2>1, <3>1, <3>2, <3>3
  <2>2. CASE pc[u] \notin AtTable \cup AtRows /\ pc'[u] \notin AtTable \cup AtRows
    <3>1. ~ Pending(u) /\ use'[u] # "write" /\ call'[u] \notin {"select", "max"}
      BY <2>0, <2>2, Idle
    <3>2. ~ Pending(u)'
      BY <3>1 DEF Pending
    <3> QED
      BY <2>2, <3>1, <3>2 DEF NodeKnown, RowKnown
  <2> QED
    BY <2>1, <2>2
<1> QED
  BY <1>1, <1>2 DEF BothKnow, Agreed

\* The main thread, the clients and the frame of a worker.
LEMMA FrameSteps ==
    ASSUME TypeOK, SocketsOK, BothKnow,
           \/ UNCHANGED vars
           \/ \E i \in Conn : Request(i)
           \/ MainThread(MainStep) \/ MainThread(CatchSignal)
           \/ \E t \in Thread : Frame(t)
    PROVE  BothKnow'
<1>0. pc \in [Thread -> Pc] /\ sock \in [Thread -> Socket]
      /\ request \in [Conn -> Requests \cup {NoRequest}]
  BY DEF TypeOK, ProcessTypeOK
<1>1. CASE UNCHANGED vars
  BY <1>1, QuietStep DEF vars, processVars, shmVars, dbVars, Cmd, ClientOf
<1>2. ASSUME NEW i \in Conn, Request(i)
      PROVE  BothKnow'
  <2>1. /\ UNCHANGED <<tab, rows, use, node, call, found, pc, sock>>
        /\ st[i] = "none" /\ \A j \in Conn \ {i} : request'[j] = request[j]
    BY <1>0, <1>2 DEF Request, Connect, shmVars, dbVars
  <2>2. \A u \in Thread : \/ sock[u] \in Conn \ {i}
                          \/ pc[u] \in {"none", "lookup", "recv"}
    BY <2>1 DEF SocketsOK
  <2>3. \A u \in Thread : \/ Cmd(u)' = Cmd(u) /\ ClientOf(u)' = ClientOf(u)
                          \/ pc[u] \in {"none", "lookup", "recv"}
    BY <2>1, <2>2 DEF Cmd, ClientOf
  <2> QED
    BY <2>1, <2>3, QuietStep DEF AtTable, AtRows, InCall, InQuery
<1>3. CASE MainThread(MainStep) \/ MainThread(CatchSignal)
  <2>1. /\ UNCHANGED <<tab, rows, use, node, call, found, sock, request>>
        /\ pc' = pc \/ \E t \in Thread : pc[t] = "none" /\ pc' = [pc EXCEPT ![t] = "lookup"]
    BY <1>3 DEF MainThread, MainStep, CatchSignal, CheckStop, CheckStopIf, Accept,
       AcceptTimeout, AcceptError, Create, Insert, shmVars, dbVars
  <2>2. \A u \in Thread : pc'[u] = pc[u] \/ (pc[u] = "none" /\ pc'[u] = "lookup")
    BY <1>0, <2>1
  <2> QED
    BY <2>1, <2>2, QuietStep DEF AtTable, AtRows, InCall, InQuery, Cmd, ClientOf
<1>4. ASSUME NEW t \in Thread, Frame(t)
      PROVE  BothKnow'
  <2>1. /\ UNCHANGED <<tab, rows, use, node, call, found, request>>
        /\ pc[t] \in {"lookup", "close", "erase"} /\ pc'[t] \in {"recv", "erase", "none"}
        /\ \A u \in Thread \ {t} : pc'[u] = pc[u] /\ sock'[u] = sock[u]
    BY <1>0, <1>4 DEF Frame, Lookup, LookupAs, Close, Erase, At, Goto, shmVars, dbVars
  <2>2. {pc[t], pc'[t]} \cap (AtTable \cup AtRows) = {}
    BY <2>1 DEF AtTable, AtRows, InCall, InQuery
  <2>3. \A u \in Thread \ {t} : Cmd(u)' = Cmd(u) /\ ClientOf(u)' = ClientOf(u)
    BY <2>1 DEF Cmd, ClientOf
  <2> QED
    BY <2>1, <2>2, <2>3, QuietStep
<1> QED
  BY <1>1, <1>2, <1>3, <1>4

-----------------------------------------------------------------------------
(* The calls on the table.                                                 *)

\* A worker in a call on the table is between no queries.
LEMMA TableFacts ==
    ASSUME TypeOK, SocketsOK, BothKnow, NEW t \in Thread, pc[t] \in AtTable
    PROVE  /\ NodeKnown(t) /\ RowKnown(t) /\ call[t] \notin {"select", "max"}
           /\ ClientOf(t) \in Client /\ ClientOf(t) # NoClient
<1>1. NodeKnown(t) /\ RowKnown(t) /\ call[t] \notin {"select", "max"}
  BY DEF BothKnow, RowKnown, AtTable, InCall, InQuery
<1>2. ClientOf(t) \in Client
  BY ServedRequest DEF AtTable, InCall
<1> QED
  BY <1>1, <1>2, NoClientAssumption

\* The parts that only look.
LEMMA ScanSteps ==
    ASSUME IsFiniteSet(Client), Cardinality(Client) <= MaxNode,
           TypeOK, SocketsOK, UseOK, BothKnow, NEW t \in Thread,
           Attach(t) \/ Mapped(t) \/ OwnSlot(t) \/ FreeSlot(t)
    PROVE  UNCHANGED <<dbVars, request>> => Advance(t)
<1> SUFFICES ASSUME UNCHANGED <<dbVars, request>>
             PROVE  Advance(t)
  OBVIOUS
<1>0. pc \in [Thread -> Pc] /\ pc[t] \in {"attach", "mapped", "ownSlot", "freeSlot"}
  BY DEF TypeOK, Attach, Mapped, OwnSlot, FreeSlot, Reaches, At
<1>1. /\ NodeKnown(t) /\ RowKnown(t) /\ call[t] \notin {"select", "max"}
      /\ ClientOf(t) \in Client
  BY <1>0, TableFacts DEF AtTable, InCall
<1>2. /\ UNCHANGED <<tab, rows, call, found, sock, use, node>>
      /\ Known' = Known /\ Cmd(t)' = Cmd(t) /\ ClientOf(t)' = ClientOf(t)
  <2>1. UNCHANGED <<tab, rows, call, found, sock, use, node>>
    BY DEF Attach, Mapped, OwnSlot, FreeSlot, ShmStep, dbVars
  <2> QED
    BY <2>1 DEF Known, Cmd, ClientOf
<1>3. ~ Pending(t)
  BY <1>0, <1>1 DEF Pending
<1>4. \/ pc'[t] \in {"mapped", "readSlot", "ownSlot", "freeSlot", "copyHead"}
      \/ FreeSlots(tab) = {} /\ pc[t] = "freeSlot" /\ pc'[t] = "detach"
  <2>1. CASE Attach(t) \/ Mapped(t)
    BY <1>0, <2>1 DEF Attach, Mapped, Goto
  <2>2. CASE OwnSlot(t)
    <3>1. Goto(t, "copyHead") \/ Goto(t, "freeSlot")
      BY <2>2 DEF OwnSlot, ShmStep
    <3> QED
      BY <1>0, <3>1 DEF Goto
  <2>3. CASE FreeSlot(t)
    BY <1>0, <2>3 DEF FreeSlot, Claimable, ShmStep, Goto, Reaches, At
  <2> QED
    BY <2>1, <2>2, <2>3
<1>5. CASE pc'[t] \in {"mapped", "readSlot", "ownSlot", "freeSlot", "copyHead"}
  <2>1. NodeKnown(t)'
    BY <1>0, <1>1, <1>2, <1>5 DEF NodeKnown, AtTable, InCall
  <2>2. ~ Pending(t)'
    BY <1>1, <1>2, <1>5 DEF Pending
  <2>3. RowKnown(t)'
    BY <1>1, <1>2, <2>2 DEF RowKnown
  <2> QED
    BY <1>2, <1>3, <2>1, <2>3, Steady
<1>6. CASE FreeSlots(tab) = {} /\ pc[t] = "freeSlot" /\ pc'[t] = "detach"
  <2>1. use[t] = "write"
    BY <1>6 DEF UseOK
  <2>2. NodeKnown(t)'
    BY <1>0, <1>1, <1>2, <1>6, <2>1 DEF NodeKnown, AtTable, InCall
  <2>3. ClientOf(t) \in Known
    BY <1>1, <1>6, Room DEF BothKnow
  <2>4. RowKnown(t)'
    BY <1>1, <1>2, <2>3 DEF RowKnown
  <2> QED
    BY <1>2, <1>3, <2>2, <2>4, Steady
<1> QED
  BY <1>4, <1>5, <1>6

\* shmRead gives a slot of the table or zeroes.
LEMMA ReadStep ==
    ASSUME TypeOK, SocketsOK, UseOK, BothKnow, NEW t \in Thread, NEW c, ReadSlot(t, c)
    PROVE  UNCHANGED <<dbVars, request>> => Advance(t)
<1> SUFFICES ASSUME UNCHANGED <<dbVars, request>>
             PROVE  Advance(t)
  OBVIOUS
<1>0. pc \in [Thread -> Pc] /\ ShmTypeOK /\ IsTable(tab, MaxNode) /\ MaxNode \in Nat
  BY ShmCallsAssumption DEF TypeOK, ShmTypeOK, IsTable
<1>1. pc[t] = "readSlot" /\ pc'[t] = "detach" /\ use[t] = "read" /\ use'[t] = "read"
  BY <1>0 DEF ReadSlot, Reaches, At, ShmStep, Goto, UseOK
<1>2. NodeKnown(t) /\ RowKnown(t) /\ call[t] \notin {"select", "max"}
  BY <1>1, TableFacts DEF AtTable, InCall
<1>3. /\ UNCHANGED <<tab, rows, call, found, sock>>
      /\ Known' = Known /\ Cmd(t)' = Cmd(t) /\ ClientOf(t)' = ClientOf(t)
  <2>1. UNCHANGED <<tab, rows, call, found, sock>>
    BY DEF ReadSlot, ShmStep, dbVars
  <2> QED
    BY <2>1 DEF Known, Cmd, ClientOf
<1>4. Cmd(t) # "agree"
  BY <1>1, <1>2 DEF NodeKnown, AtTable, InCall
<1>5. node'[t] = Zero \/ node'[t].clientID \in Known
  <2>1. node'[t] = ShmRead(tab, c)
    BY <1>0 DEF ReadSlot, ShmTypeOK
  <2>2. CASE SlotsOf(tab, c) = {}
    BY <2>1, <2>2 DEF ShmRead
  <2>3. CASE SlotsOf(tab, c) # {}
    <3>1. First(SlotsOf(tab, c)) \in 1..MaxNode
      BY <1>0, <2>3, WriteSlotsInTable
    <3> QED
      BY <2>1, <2>3, <3>1 DEF ShmRead, Known, BothKnow, TidyTable
  <2> QED
    BY <2>2, <2>3
<1>6. NodeKnown(t)'
  BY <1>1, <1>3, <1>4, <1>5 DEF NodeKnown
<1>7. ~ Pending(t) /\ ~ Pending(t)'
  BY <1>1, <1>2, <1>3 DEF Pending
<1>8. RowKnown(t)'
  BY <1>2, <1>3, <1>7 DEF RowKnown
<1> QED
  BY <1>3, <1>6, <1>7, <1>8, Steady

\* TidyTable and Known, of any table.
Tidy(t, n) ==
    OneSlotEach(t) /\ \A k \in 1..n : t[k].clientID = NoClient => t[k] = Zero

Names(t, n) == {t[k].clientID : k \in 1..n} \ {NoClient}

\* The first half of the copy puts the client in, and loses no other.
LEMMA FirstHalfTidy ==
    ASSUME NEW n \in Nat, NEW t, IsTable(t, n), Tidy(t, n),
           NEW new \in NodeSHMInfo, new.clientID = NoClient => new = Zero,
           NEW k, WriteSlots(t, new.clientID) # {}, k = First(WriteSlots(t, new.clientID))
    PROVE  /\ Tidy(FirstHalf(t, k, new), n)
           /\ Names(FirstHalf(t, k, new), n) = Names(t, n) \cup ({new.clientID} \ {NoClient})
<1> DEFINE u == FirstHalf(t, k, new)
           w == ShmWrite(t, new)
<1>1. k \in 1..n /\ k \in WriteSlots(t, new.clientID) /\ DOMAIN t = 1..n /\ DOMAIN u = 1..n
  BY WriteSlotsInTable DEF IsTable, FirstHalf
<1>2. t[k].clientID \in {new.clientID, NoClient}
  BY <1>1 DEF WriteSlots, SlotsOf, FreeSlots, Zero
<1>3. /\ u[k] = [new EXCEPT !.seckey = t[k].seckey]
      /\ \A j \in 1..n \ {k} : u[j] = t[j]
  BY <1>1 DEF FirstHalf
<1>4. u[k].clientID = new.clientID
  BY <1>3 DEF NodeSHMInfo
<1>5. \A j \in 1..n : u[j].clientID = w[j].clientID
  BY <1>1, <1>3, <1>4 DEF ShmWrite
<1>6. OneSlotEach(w) /\ DOMAIN w = 1..n
  BY <1>1, ShmWriteOneSlot DEF Tidy, ShmWrite
<1>7. OneSlotEach(u)
  BY <1>1, <1>5, <1>6 DEF OneSlotEach
<1>8. ASSUME NEW j \in 1..n, u[j].clientID = NoClient
      PROVE  u[j] = Zero
  <2>1. CASE j = k
    <3>1. new = Zero /\ t[k] = Zero
      BY <1>1, <1>2, <1>4, <1>8, <2>1 DEF Tidy
    <3> QED
      BY <1>3, <2>1, <3>1 DEF Zero
  <2>2. CASE j # k
    BY <1>3, <1>8, <2>2 DEF Tidy
  <2> QED
    BY <2>1, <2>2
<1>9. Names(u, n) = Names(t, n) \cup ({new.clientID} \ {NoClient})
  <2>1. ASSUME NEW x \in Names(u, n)
        PROVE  x \in Names(t, n) \cup ({new.clientID} \ {NoClient})
    <3>1. PICK j \in 1..n : x = u[j].clientID
      BY <2>1 DEF Names
    <3>2. j = k \/ u[j] = t[j]
      BY <1>3
    <3> QED
      BY <1>4, <2>1, <3>1, <3>2 DEF Names
  <2>2. ASSUME NEW x \in Names(t, n)
        PROVE  x \in Names(u, n)
    <3>1. PICK j \in 1..n : x = t[j].clientID
      BY <2>2 DEF Names
    <3>2. CASE j = k
      BY <1>1, <1>2, <1>4, <2>2, <3>1, <3>2 DEF Names
    <3>3. CASE j # k
      <4>1. u[j] = t[j]
        BY <1>3, <3>3
      <4> QED
        BY <2>2, <3>1, <4>1 DEF Names
    <3> QED
      BY <3>2, <3>3
  <2>3. {new.clientID} \ {NoClient} \subseteq Names(u, n)
    BY <1>1, <1>4 DEF Names
  <2> HIDE DEF u
  <2> QED
    BY <2>1, <2>2, <2>3
<1> QED
  BY <1>7, <1>8, <1>9 DEF Tidy

\* The second half changes no clientID.
LEMMA SecondHalfTidy ==
    ASSUME NEW n \in Nat, NEW t, IsTable(t, n), Tidy(t, n),
           NEW new \in NodeSHMInfo, new.clientID = NoClient => new = Zero,
           NEW k \in 1..n, t[k].clientID = new.clientID
    PROVE  Tidy(SecondHalf(t, k, new), n) /\ Names(SecondHalf(t, k, new), n) = Names(t, n)
<1> DEFINE u == SecondHalf(t, k, new)
<1>1. DOMAIN t = 1..n /\ DOMAIN u = 1..n /\ t[k] \in NodeSHMInfo
  BY DEF IsTable, SecondHalf
<1>2. /\ u[k] = [t[k] EXCEPT !.seckey = new.seckey]
      /\ \A j \in 1..n \ {k} : u[j] = t[j]
  BY <1>1 DEF SecondHalf
<1>3. \A j \in 1..n : u[j].clientID = t[j].clientID
  BY <1>1, <1>2 DEF NodeSHMInfo
<1>4. OneSlotEach(u) /\ Names(u, n) = Names(t, n)
  BY <1>1, <1>3 DEF OneSlotEach, Names, Tidy
<1>5. ASSUME NEW j \in 1..n, u[j].clientID = NoClient
      PROVE  u[j] = Zero
  <2>1. CASE j = k
    <3>1. new = Zero /\ t[k] = Zero
      BY <1>3, <1>5, <2>1 DEF Tidy
    <3> QED
      BY <1>2, <2>1, <3>1 DEF Zero
  <2>2. CASE j # k
    BY <1>2, <1>3, <1>5, <2>2 DEF Tidy
  <2> QED
    BY <2>1, <2>2
<1> QED
  BY <1>4, <1>5 DEF Tidy

\* The copy puts into the table whom the worker serves, or nobody new.
LEMMA CopySteps ==
    ASSUME TypeOK, SocketsOK, UseOK, WriteOK, ~ shmOverlap, BothKnow, NEW t \in Thread,
           CopyHead(t) \/ CopyKey(t)
    PROVE  UNCHANGED <<dbVars, request>> => Advance(t)
<1> SUFFICES ASSUME UNCHANGED <<dbVars, request>>
             PROVE  Advance(t)
  OBVIOUS
<1>0. /\ pc \in [Thread -> Pc] /\ IsTable(tab, MaxNode) /\ IsTable(before, MaxNode)
      /\ MaxNode \in Nat /\ node[t] \in NodeSHMInfo
  BY ShmCallsAssumption DEF TypeOK, ShmTypeOK, IsTable
<1>1. pc[t] \in {"copyHead", "copyKey"} /\ use[t] = "write"
  BY DEF CopyHead, CopyKey, Reaches, At, UseOK
<1>2. /\ NodeKnown(t) /\ RowKnown(t) /\ call[t] \notin {"select", "max"}
      /\ ClientOf(t) # NoClient
  BY <1>1, TableFacts DEF AtTable, InCall
<1>3. UNCHANGED <<rows, call, found, sock, use, node, slot>>
      /\ Cmd(t)' = Cmd(t) /\ ClientOf(t)' = ClientOf(t)
  <2>1. UNCHANGED <<rows, call, found, sock, use, node, slot>>
    BY DEF CopyHead, CopyKey, ShmStep, dbVars
  <2> QED
    BY <2>1 DEF Cmd, ClientOf
<1> DEFINE c == node[t].clientID
           k == slot[t]
<1>4. \/ Cmd(t) = "agree" /\ c = ClientOf(t)
      \/ Cmd(t) # "agree" /\ (node[t] = Zero \/ c \in Known)
  BY <1>1, <1>2 DEF NodeKnown, AtTable, InCall
<1>5. c = NoClient => node[t] = Zero
  BY <1>2, <1>4 DEF Known
<1>6. Progress(t)
  BY DEF WriteOK
<1>7. /\ Tidy(tab, MaxNode) /\ Known = Names(tab, MaxNode) /\ Known' = Names(tab', MaxNode)
      /\ TidyTable' <=> Tidy(tab', MaxNode)
  BY DEF Tidy, Names, Known, TidyTable, BothKnow
<1>8. /\ Tidy(tab', MaxNode) /\ pc'[t] \in {"copyKey", "detach"}
      /\ Known' = Known \cup ({c} \ {NoClient})
  <2>1. CASE CopyHead(t)
    <3>1. /\ WriteSlots(tab, c) # {} /\ k = First(WriteSlots(tab, c))
          /\ pc'[t] = "copyKey"
      BY <1>0, <1>6, <2>1 DEF Progress, CopyHead, Reaches, At, ShmStep, Goto
    <3>2. tab' = FirstHalf(tab, k, node[t])
      BY <2>1 DEF CopyHead, FirstHalf
    <3> QED
      BY <1>0, <1>5, <1>7, <3>1, <3>2, FirstHalfTidy
  <2>2. CASE CopyKey(t)
    <3>1. /\ WriteSlots(before, c) # {} /\ k = First(WriteSlots(before, c))
          /\ tab = FirstHalf(before, k, node[t]) /\ pc'[t] = "detach"
      BY <1>0, <1>6, <2>2 DEF Progress, CopyKey, Reaches, At, ShmStep, Goto, FirstHalf
    <3>2. k \in 1..MaxNode
      BY <1>0, <3>1, WriteSlotsInTable
    <3>3. tab[k].clientID = c
      BY <1>0, <3>1, <3>2 DEF FirstHalf, IsTable, NodeSHMInfo
    <3>4. tab' = SecondHalf(tab, k, node[t])
      BY <2>2 DEF CopyKey, SecondHalf
    <3>5. Tidy(tab', MaxNode) /\ Known' = Known
      BY <1>0, <1>5, <1>7, <3>2, <3>3, <3>4, SecondHalfTidy
    <3>6. {c} \ {NoClient} \subseteq Known
      BY <3>2, <3>3 DEF Known
    <3> QED
      BY <3>1, <3>5, <3>6
  <2> QED
    BY <2>1, <2>2
<1>9. Pending(t)' <=> Cmd(t) = "agree"
  BY <1>1, <1>2, <1>3, <1>8 DEF Pending
<1>10. NodeKnown(t)'
  BY <1>1, <1>2, <1>3, <1>4, <1>8 DEF NodeKnown, AtTable, InCall
<1>11. RowKnown(t)'
  BY <1>2, <1>3, <1>4, <1>8, <1>9 DEF RowKnown
<1>12. \A d \in Known' \ Known : Pending(t)' /\ ClientOf(t)' = d
  BY <1>3, <1>4, <1>8, <1>9 DEF Zero
<1>13. Pending(t) => Pending(t)'
  BY <1>2, <1>9 DEF Pending
<1> QED
  BY <1>3, <1>7, <1>8, <1>10, <1>11, <1>12, <1>13 DEF Advance, BothKnow

-----------------------------------------------------------------------------
(* The callers, and the calls on the database.                             *)

\* What a step that changes no table keeps of the worker's request.
LEMMA SameRequest ==
    ASSUME UNCHANGED <<tab, sock, request>>, NEW t
    PROVE  Known' = Known /\ Cmd(t)' = Cmd(t) /\ ClientOf(t)' = ClientOf(t)
BY DEF Known, Cmd, ClientOf

\* The request is there, and the id of the client is looked up.
LEMMA AskStep ==
    ASSUME TypeOK, BothKnow, NEW t \in Thread, AskRegistered(t)
    PROVE  Advance(t)
<1>1. /\ UNCHANGED <<tab, rows, use, node>>
      /\ pc[t] = "recv" /\ pc'[t] = "query" /\ call'[t] = "check"
  BY DEF AskRegistered, Recv, At, Goto, TypeOK, shmVars, DbTypeOK
<1>2. ~ Pending(t) /\ use[t] # "write"
  BY <1>1, Idle DEF AtTable, AtRows, InCall, InQuery, BothKnow
<1>3. NodeKnown(t)' /\ RowKnown(t)'
  BY <1>1, <1>2 DEF NodeKnown, RowKnown, Pending, AtTable, InCall
<1> QED
  BY <1>1, <1>2, <1>3, Steady

\* The id of the client is known or not.
LEMMA IdStep ==
    ASSUME TypeOK, BothKnow, NEW t \in Thread, IdChecked(t)
    PROVE  Advance(t)
<1>0. pc \in [Thread -> Pc] /\ ShmTypeOK /\ DbTypeOK
  BY DEF TypeOK
<1>1. /\ UNCHANGED <<tab, rows, sock, request>>
      /\ pc[t] = "rows" /\ pc'[t] \in {"attach", "close"}
      /\ call[t] = "check" /\ call'[t] = NoQuery
  BY <1>0, AskerSteps, CallerSteps DEF IdChecked, DbTypeOK
<1>2. Known' = Known /\ Cmd(t)' = Cmd(t) /\ ClientOf(t)' = ClientOf(t)
  BY <1>1, SameRequest
<1>3. use[t] # "write" /\ ~ Pending(t)
  BY <1>1 DEF BothKnow, NodeKnown, AtTable, InCall, Pending
<1>4. \/ /\ Cmd(t) = "agree" /\ pc'[t] = "attach"
         /\ use'[t] = "write" /\ node'[t].clientID = ClientOf(t)
      \/ /\ Cmd(t) # "agree" \/ pc'[t] = "close"
         /\ UNCHANGED use
  <2>1. \/ Goto(t, "close") /\ UNCHANGED use
        \/ /\ Cmd(t) = "agree" /\ Goto(t, "attach")
           /\ node' = [node EXCEPT ![t] = NewNode(t)] /\ use' = [use EXCEPT ![t] = "write"]
        \/ Cmd(t) # "agree" /\ UNCHANGED use
    BY Zenon DEF IdChecked
  <2>2. CASE /\ Cmd(t) = "agree" /\ Goto(t, "attach")
             /\ node' = [node EXCEPT ![t] = NewNode(t)] /\ use' = [use EXCEPT ![t] = "write"]
    <3>1. node'[t] = NewNode(t) /\ use'[t] = "write" /\ pc'[t] = "attach"
      BY <1>0, <2>2 DEF Goto, ShmTypeOK
    <3> QED
      BY <2>2, <3>1 DEF NewNode
  <2>3. CASE Goto(t, "close") /\ UNCHANGED use
    BY <1>0, <2>3 DEF Goto
  <2> QED
    BY <2>1, <2>2, <2>3
<1>5. NodeKnown(t)'
  BY <1>1, <1>2, <1>3, <1>4 DEF NodeKnown, AtTable, InCall
<1>6. RowKnown(t)'
  BY <1>1, DbCallsAssumption DEF RowKnown, Pending, Queries
<1> QED
  BY <1>1, <1>3, <1>5, <1>6, Steady

\* The call on the table is over, and its caller goes on.
LEMMA DetachSteps ==
    ASSUME TypeOK, SocketsOK, BothKnow, NEW t \in Thread,
           AgreeWritten(t) \/ NodeRead(t) \/ RevokeWritten(t)
    PROVE  Advance(t)
<1>0. pc \in [Thread -> Pc] /\ ShmTypeOK /\ DbTypeOK
  BY DEF TypeOK
<1>1. UNCHANGED <<tab, rows, sock, request, found>> /\ pc[t] = "detach"
  BY DEF AgreeWritten, NodeRead, RevokeWritten, Detach, At, dbVars
<1>2. Known' = Known /\ Cmd(t)' = Cmd(t) /\ ClientOf(t)' = ClientOf(t)
  BY <1>1, SameRequest
<1>3. NodeKnown(t) /\ RowKnown(t) /\ call[t] \notin {"select", "max"}
  BY <1>1, TableFacts DEF AtTable, InCall
<1>4. CASE AgreeWritten(t)
  <2>1. /\ use[t] = "write" /\ Cmd(t) = "agree"
        /\ pc'[t] = "query" /\ call'[t] = "select" /\ use'[t] = "read"
    BY <1>0, <1>4 DEF AgreeWritten, Goto, ShmTypeOK, DbTypeOK
  <2>2. Pending(t) /\ Pending(t)'
    BY <1>1, <2>1 DEF Pending
  <2>3. NodeKnown(t)'
    BY <2>1 DEF NodeKnown, AtTable, InCall
  <2>4. RowKnown(t)'
    BY <1>2, <1>3, <2>1, <2>2 DEF RowKnown, InQuery
  <2> QED
    BY <1>1, <1>2, <2>2, <2>3, <2>4, Steady
<1>5. CASE NodeRead(t)
  <2>1. /\ use[t] = "read" /\ UNCHANGED call
        /\ \/ pc'[t] = "attach" /\ use'[t] = "write" /\ node'[t] = [node[t] EXCEPT !.status = 0]
           \/ pc'[t] = "close" /\ use'[t] = "read"
    BY <1>0, <1>5 DEF NodeRead, Goto, ShmTypeOK, dbVars
  <2>2. Cmd(t) # "agree" /\ (node[t] = Zero \/ node[t].clientID \in Known)
    BY <1>1, <1>3, <2>1 DEF NodeKnown, AtTable, InCall
  <2>3. pc'[t] = "attach" => node'[t] = Zero \/ node'[t].clientID \in Known
    <3>1. node[t] \in NodeSHMInfo
      BY <1>0 DEF ShmTypeOK
    <3>2. /\ [node[t] EXCEPT !.status = 0].clientID = node[t].clientID
          /\ node[t] = Zero => [node[t] EXCEPT !.status = 0] = Zero
      BY <3>1 DEF NodeSHMInfo, Zero
    <3> QED
      BY <2>1, <2>2, <3>2
  <2>4. ~ Pending(t) /\ ~ Pending(t)'
    BY <1>3, <2>1 DEF Pending
  <2>5. NodeKnown(t)'
    BY <1>2, <2>1, <2>2, <2>3 DEF NodeKnown, AtTable, InCall
  <2>6. RowKnown(t)'
    BY <1>3, <2>1, <2>4 DEF RowKnown
  <2> QED
    BY <1>1, <2>4, <2>5, <2>6, Steady
<1>6. CASE RevokeWritten(t)
  <2>1. /\ Cmd(t) = "revoke" /\ pc'[t] = "doSql" /\ use'[t] = "read" /\ UNCHANGED call
    BY <1>0, <1>6 DEF RevokeWritten, Goto, ShmTypeOK, dbVars
  <2>2. ~ Pending(t) /\ ~ Pending(t)'
    BY <1>3, <2>1 DEF Pending
  <2>3. NodeKnown(t)' /\ RowKnown(t)'
    BY <1>3, <2>1, <2>2 DEF NodeKnown, AtTable, InCall, RowKnown
  <2> QED
    BY <1>1, <2>2, <2>3, Steady
<1> QED
  BY <1>4, <1>5, <1>6

\* A worker between its queries and its statement.
LEMMA RowsFacts ==
    ASSUME BothKnow, NEW t \in Thread, pc[t] \in AtRows
    PROVE  /\ NodeKnown(t) /\ RowKnown(t) /\ use[t] # "write"
           /\ Pending(t) <=> call[t] \in {"select", "max"}
BY DEF BothKnow, NodeKnown, Pending, AtTable, InCall, AtRows, InQuery

\* The steps of a query; its rows say whether the client has one.
LEMMA QuerySteps ==
    ASSUME TypeOK, BothKnow, NEW t \in Thread, UNCHANGED <<shmVars, request>>,
           \/ Query(t, ClientOf(t)) \/ Reply(t) \/ FreeResult(t) \/ ClearResult(t)
           \/ StoreResult(t) \/ Return(t)
    PROVE  Advance(t)
<1>0. pc \in [Thread -> Pc] /\ DbTypeOK
  BY DEF TypeOK
<1>1. /\ UNCHANGED <<tab, rows, sock, request, use, call>>
      /\ pc[t] \in InQuery \cup {"query"} /\ pc'[t] \in InQuery
      /\ \/ call[t] = "select" => (found'[t] <=> ClientOf(t) \in rows)
         \/ pc[t] \in InQuery /\ UNCHANGED found
      /\ pc'[t] # "sqlReply"
  <2>1. UNCHANGED <<tab, rows, sock, use, call>>
    BY DEF Query, Reply, FreeResult, ClearResult, StoreResult, Return, DbStep, shmVars
  <2>2. CASE Query(t, ClientOf(t))
    <3>1. pc[t] = "query" /\ (Goto(t, "rows") \/ Goto(t, "reply"))
      BY <2>2 DEF Query, At, DbStep
    <3>2. call[t] = "select" => (found'[t] <=> ClientOf(t) \in rows)
      BY <1>0, <2>2 DEF Query, Finds, DbTypeOK
    <3> QED
      BY <1>0, <2>1, <3>1, <3>2 DEF Goto, InQuery
  <2>3. CASE Reply(t) \/ ClearResult(t) \/ StoreResult(t) \/ Return(t)
    BY <1>0, <2>1, <2>3 DEF Reply, ClearResult, StoreResult, Return, At, DbStep, Goto, InQuery
  <2>4. CASE FreeResult(t)
    <3>1. /\ pc[t] = "freeResult" /\ UNCHANGED found
          /\ Goto(t, "storeResult") \/ Goto(t, "clearResult")
      BY <2>4 DEF FreeResult, At, DbStep
    <3> QED
      BY <1>0, <2>1, <3>1 DEF Goto, InQuery
  <2> QED
    BY <2>2, <2>3, <2>4
<1>2. Known' = Known /\ Cmd(t)' = Cmd(t) /\ ClientOf(t)' = ClientOf(t)
  BY <1>1, SameRequest
<1>3. /\ NodeKnown(t) /\ RowKnown(t) /\ use[t] # "write"
      /\ Pending(t) <=> call[t] \in {"select", "max"}
  BY <1>1, RowsFacts DEF AtRows
<1>4. Pending(t)' <=> Pending(t)
  BY <1>1, <1>3 DEF Pending
<1>5. NodeKnown(t)'
  BY <1>1, <1>3 DEF NodeKnown, AtTable, InCall, InQuery
<1>6. RowKnown(t)'
  BY <1>1, <1>2, <1>3, <1>4 DEF RowKnown, InQuery
<1> QED
  BY <1>1, <1>2, <1>4, <1>5, <1>6, Steady

\* A worker that nobody disturbed knows whether its client has a row.
LEMMA SelectStep ==
    ASSUME TypeOK, OwnRows, ~ dbOverlap, BothKnow, NEW t \in Thread, RowSelected(t)
    PROVE  Advance(t)
<1>0. pc \in [Thread -> Pc] /\ DbTypeOK
  BY DEF TypeOK
<1>1. /\ UNCHANGED <<tab, rows, sock, request, use>>
      /\ pc[t] = "rows" /\ call[t] \in {"select", "max"}
  BY DEF RowSelected, ReadRows, At, shmVars
<1>2. Known' = Known /\ Cmd(t)' = Cmd(t) /\ ClientOf(t)' = ClientOf(t)
  BY <1>1, SameRequest
<1>3. NodeKnown(t) /\ RowKnown(t) /\ use[t] # "write" /\ Pending(t)
  BY <1>1, RowsFacts DEF AtRows, InQuery
<1>4. \/ call'[t] = "max" /\ pc'[t] = "query"
      \/ call'[t] = "max" /\ pc'[t] = "doSql"
      \/ call'[t] = "select" /\ pc'[t] = "doSql" /\ ClientOf(t) \in rows
  <2>1. PICK row \in BOOLEAN :
          /\ ReadRows(t, row)
          /\ IF call[t] = "max" \/ row
             THEN Goto(t, "doSql") /\ UNCHANGED call
             ELSE Goto(t, "query") /\ call' = [call EXCEPT ![t] = "max"]
    BY Zenon DEF RowSelected
  <2>2. row = found[t]
    BY <1>1, <2>1 DEF ReadRows, OwnRows
  <2>3. CASE call[t] = "max"
    BY <1>0, <2>1, <2>3 DEF Goto
  <2>4. CASE call[t] = "select" /\ row
    <3>1. ClientOf(t) \in rows
      BY <1>1, <1>3, <2>2, <2>4 DEF RowKnown, InQuery
    <3> QED
      BY <1>0, <2>1, <2>4, <3>1 DEF Goto
  <2>5. CASE call[t] = "select" /\ ~ row
    BY <1>0, <2>1, <2>5 DEF Goto, DbTypeOK
  <2> QED
    BY <1>1, <2>3, <2>4, <2>5
<1>5. Pending(t)'
  BY <1>4 DEF Pending
<1>6. NodeKnown(t)'
  BY <1>1, <1>3, <1>4 DEF NodeKnown, AtTable, InCall
<1>7. RowKnown(t)'
  BY <1>1, <1>2, <1>3, <1>4 DEF RowKnown, InQuery
<1> QED
  BY <1>1, <1>2, <1>5, <1>6, <1>7, Steady

\* A statement is sent when no other is on its way, and so is not refused.
LEMMA SendStep ==
    ASSUME TypeOK, QueriesOK, ~ dbOverlap', BothKnow, NEW t \in Thread,
           DoSql(t), UNCHANGED <<shmVars, request>>
    PROVE  Advance(t)
<1>0. pc \in [Thread -> Pc] /\ DbTypeOK
  BY DEF TypeOK
<1>1. ~ unread
  BY DEF DoSql, QueriesOK
<1>2. /\ UNCHANGED <<tab, rows, sock, request, use>>
      /\ pc[t] = "doSql" /\ pc'[t] = "sqlReply" /\ call'[t] = call[t]
  BY <1>0, <1>1 DEF DoSql, DbStep, At, Goto, shmVars, DbTypeOK
<1>3. Known' = Known /\ Cmd(t)' = Cmd(t) /\ ClientOf(t)' = ClientOf(t)
  BY <1>2, SameRequest
<1>4. /\ NodeKnown(t) /\ RowKnown(t) /\ use[t] # "write"
      /\ Pending(t) <=> call[t] \in {"select", "max"}
  BY <1>2, RowsFacts DEF AtRows
<1>5. Pending(t)' <=> Pending(t)
  BY <1>2, <1>4 DEF Pending
<1>6. NodeKnown(t)'
  BY <1>2, <1>4 DEF NodeKnown, AtTable, InCall
<1>7. RowKnown(t)'
  BY <1>2, <1>3, <1>4, <1>5 DEF RowKnown, InQuery
<1> QED
  BY <1>2, <1>3, <1>5, <1>6, <1>7, Steady

\* An insert adds the row of a client that the table knows.
LEMMA StatementStep ==
    ASSUME TypeOK, BothKnow, NEW t \in Thread,
           SqlReply(t, ClientOf(t)), UNCHANGED <<shmVars, request>>
    PROVE  Advance(t)
<1>0. pc \in [Thread -> Pc] /\ DbTypeOK
  BY DEF TypeOK
<1>1. /\ UNCHANGED <<tab, sock, request, use>>
      /\ pc[t] = "sqlReply" /\ pc'[t] = "close" /\ call'[t] = NoQuery
      /\ rows' = IF call[t] = "max" THEN rows \cup {ClientOf(t)} ELSE rows
  BY <1>0 DEF SqlReply, DbStep, At, Goto, shmVars, DbTypeOK
<1>2. Known' = Known /\ Cmd(t)' = Cmd(t) /\ ClientOf(t)' = ClientOf(t)
  BY <1>1, SameRequest
<1>3. /\ NodeKnown(t) /\ RowKnown(t) /\ use[t] # "write"
      /\ Pending(t) <=> call[t] \in {"select", "max"}
  BY <1>1, RowsFacts DEF AtRows, InQuery
<1>4. call[t] = "max" => ClientOf(t) \in Known /\ rows' = rows \cup {ClientOf(t)}
  BY <1>1, <1>3 DEF RowKnown
<1>5. call[t] = "select" => ClientOf(t) \in rows
  BY <1>1, <1>3 DEF RowKnown
<1>6. NodeKnown(t)'
  BY <1>1, <1>3 DEF NodeKnown, AtTable, InCall
<1>7. RowKnown(t)' /\ ~ Pending(t)'
  BY <1>1, DbCallsAssumption DEF RowKnown, Pending, Queries
<1>8. TidyTable' /\ rows \subseteq rows' /\ rows' \subseteq Known'
  BY <1>1, <1>2, <1>4 DEF BothKnow, TidyTable, OneSlotEach
<1> QED
  BY <1>1, <1>2, <1>3, <1>4, <1>5, <1>6, <1>7, <1>8 DEF Advance

-----------------------------------------------------------------------------
(* Both together.                                                          *)

\* The constructor has copied the rows to the table, which has room for them.
LEMMA InitKnown ==
    ASSUME IsFiniteSet(Client), Cardinality(Client) <= MaxNode, Init
    PROVE  KnownOK
<1>1. tab = Tab0 /\ rows = Rows0
  BY DEF Init, ShmInit, DbInit
<1>2. TypeOK
  BY InitInv DEF IndInv
<1>4. TidyTable
  BY <1>1, ShmCallsAssumption DEF TidyTable
<1>5. Known = rows
  <2>1. Known = Loaded
    BY <1>1 DEF Known, Loaded
  <2>2. FreeSlots(tab) = {} => Client \subseteq Known
    BY <1>2, <1>4, Room
  <2> QED
    BY <1>1, <2>1, <2>2, RequestsAssumption
<1>6. ASSUME NEW t \in Thread
      PROVE  NodeKnown(t) /\ RowKnown(t)
  BY DbCallsAssumption DEF Init, ProcessInit, ShmInit, DbInit, NodeKnown, RowKnown, Pending,
     AtTable, InCall, Queries
<1> QED
  BY <1>4, <1>5, <1>6 DEF KnownOK, BothKnow

\* A step of a worker that nobody disturbs.
LEMMA WorkerAdvances ==
    ASSUME IsFiniteSet(Client), Cardinality(Client) <= MaxNode,
           IndInv, BothKnow, ~ shmOverlap, ~ dbOverlap, ~ dbOverlap',
           NEW t \in Thread, Worker(t), ~ Frame(t)
    PROVE  Advance(t)
<1> USE DEF IndInv
<1>1. CASE LocalCode(t)
  BY <1>1, AskStep, IdStep, DetachSteps, SelectStep DEF LocalCode
<1>2. CASE TableStep(t, ClientOf(t)) /\ UNCHANGED <<dbVars, request>>
  BY <1>2, ScanSteps, ReadStep, CopySteps DEF TableStep
<1>3. CASE DatabaseStep(t, ClientOf(t)) /\ UNCHANGED <<shmVars, request>>
  BY <1>3, QuerySteps, SendStep, StatementStep DEF DatabaseStep
<1> QED
  BY <1>1, <1>2, <1>3 DEF Worker

\* Calm was always calm.
LEMMA CalmBefore ==
    ASSUME TypeOK, [Next]_vars, Calm'
    PROVE  Calm /\ ~ End
<1>1. ~ shmOverlap /\ ~ dbOverlap
  BY Histories DEF Calm
<1>2. ~ End
  BY DEF End, Die, Calm
<1>3. proc = "running"
  <2>1. ASSUME NEW t \in Thread, Worker(t)
        PROVE  UNCHANGED proc
    BY <2>1, WorkerSteps DEF SocketStep, Lookup, LookupAs, Recv, ServeStep, Close, Erase,
       StillRunning
  <2>2. ASSUME MainThread(MainStep) \/ MainThread(CatchSignal)
        PROVE  UNCHANGED proc
    BY <2>2 DEF MainThread, MainStep, CheckStop, CheckStopIf, Accept, AcceptTimeout,
       AcceptError, Create, Insert, StillRunning, CatchSignal
  <2>3. UNCHANGED proc
    BY <1>2, <2>1, <2>2 DEF Next, Request, Connect, vars, processVars
  <2> QED
    BY <2>3 DEF Calm
<1> QED
  BY <1>1, <1>2, <1>3 DEF Calm

\* However the workers interleave between their calls: once all of them are done
\* with the table and the database, a client has a slot if and only if it has a
\* row. The table must have room for all clients: agreement with one that finds
\* no slot inserts its row all the same.
THEOREM BothKnowTheSame ==
    ASSUME IsFiniteSet(Client), Cardinality(Client) <= MaxNode
    PROVE  Spec => []KnownInBoth
<1>1. ASSUME IndInv, KnownOK, [Next]_vars
      PROVE  KnownOK'
  <2> USE <1>1
  <2> SUFFICES ASSUME Calm'
               PROVE  BothKnow'
    BY DEF KnownOK
  <2>0. TypeOK /\ SocketsOK
    BY DEF IndInv
  <2>1. BothKnow /\ ~ End /\ ~ shmOverlap /\ ~ dbOverlap /\ ~ dbOverlap'
    BY <2>0, CalmBefore DEF KnownOK, Calm
  <2>2. ASSUME NEW t \in Thread, Worker(t), ~ Frame(t)
        PROVE  BothKnow'
    BY <2>0, <2>1, <2>2, WorkerAdvances, AdvanceIsEnough
  <2> QED
    BY <2>0, <2>1, <2>2, FrameSteps DEF Next
<1>2. IndInv /\ KnownOK => KnownInBoth
  <2> SUFFICES ASSUME BothKnow,
                      \A t \in Thread : pc[t] \in {"none", "lookup", "recv", "close", "erase"}
               PROVE  rows = Known
    BY DEF KnownOK, Calm, KnownInBoth, Known
  <2>1. \A t \in Thread : ~ Pending(t)
    BY DEF BothKnow, RowKnown, Pending, InQuery
  <2> QED
    BY <2>1 DEF BothKnow, Agreed
<1>3. Init => KnownOK
  BY InitKnown
<1> QED
  BY <1>1, <1>2, <1>3, ThreadInvariance, PTL DEF Spec
============================================================================
