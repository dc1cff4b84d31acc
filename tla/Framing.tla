------------------------------ MODULE Framing ------------------------------
(***************************************************************************)
(* sendMsg and recvMsg of TcpSocket over streams that move any number of   *)
(* octets at a time: a client process that runs one operation after the    *)
(* other, each on a connection of its own, and the workers of the server.  *)
(*                                                                         *)
(* recvMsg waits with a timeout for the first octet only; the rest of the  *)
(* length and of the message is waited for without one. The client closes  *)
(* a socket only after a successful agreement, any other stays open for as *)
(* long as the process lives. Neither program ignores SIGPIPE, so a write  *)
(* on a connection that was reset ends it.                                 *)
(***************************************************************************)
EXTENDS Integers, Sequences, FiniteSets

CONSTANTS
    MaxConn,     \* bound: connections in a behaviour, made in the order 1, 2, ...
    MaxFd,       \* descriptors that the client may have open
    HeaderLen,   \* octets of the length; 4 in the code, a bound here
    Capacity,    \* octets a connection holds in each direction
    Requests,    \* what the client sends; the first octet is the command
    Answers,     \* what the server sends; the first octet is rv
    Agree,       \* the command of an agreement
    Nothing      \* no message

ASSUME FramingAssumption ==
    /\ MaxConn \in Nat /\ MaxFd \in Nat /\ Capacity \in Nat /\ HeaderLen \in 1..4
    /\ Requests \cup Answers \subseteq Seq(0..255)
    /\ \A m \in Requests \cup Answers : Len(m) > 0
    /\ Nothing \notin Requests \cup Answers

\* A connection has room for a frame, so that a writer whose reader has given up
\* gets done. Only the liveness properties need it.
ASSUME RoomAssumption ==
    \A m \in Requests \cup Answers : Capacity >= Len(m) + HeaderLen

Conn == 1..MaxConn

VARIABLES
    up, down,    \* the octets on their way to the server and to the client
    cEnd, sEnd,  \* the two ends: "none", "queued", "refused", "open" or "closed"
    reset,       \* the next write of either end gets SIGPIPE
    client,      \* the client's step: "idle", "send", "select", "read", "failed"
                 \* or "dead"
    m_socket,    \* the client's member; 0 when socket() had failed
    made,        \* connections made so far
    worker,      \* the worker's step, "none" before it starts and after it ended
    left,        \* octets that writen has still to write, of each end
    buf,         \* octets that readn has read, of each end
    serverUp,    \* the server's process
    asked, told, \* history: what sendMsg was given at either end
    got, heard,  \* history: what recvMsg gave at either end
    mishap       \* history: a client died, or kept a worker waiting for too long

serverVars == <<worker, told, got, serverUp>>
clientVars == <<client, m_socket, made, asked, heard>>
wire == <<up, down, cEnd, sEnd, reset>>
vars == <<serverVars, clientVars, wire, left, buf, mishap>>

\* What has a buffer of its own: the client, and each worker.
User == 0
End == {User} \cup Conn

Init ==
    /\ up = [i \in Conn |-> <<>>] /\ down = [i \in Conn |-> <<>>]
    /\ cEnd = [i \in Conn |-> "none"] /\ sEnd = [i \in Conn |-> "none"]
    /\ reset = [i \in Conn |-> FALSE]
    /\ client = "idle" /\ m_socket = 0 /\ made = 0
    /\ worker = [i \in Conn |-> "none"]
    /\ left = [e \in End |-> <<>>] /\ buf = [e \in End |-> <<>>]
    /\ serverUp = TRUE
    /\ asked = [i \in Conn |-> Nothing] /\ told = [i \in Conn |-> Nothing]
    /\ got = [i \in Conn |-> Nothing] /\ heard = Nothing
    /\ mishap = FALSE

-----------------------------------------------------------------------------
(* The frame: the length in network order, then the message.               *)

\* What a one in octet k of the length counts.
Weight(k) == <<16777216, 65536, 256, 1>>[4 - HeaderLen + k]

\* No message is too long for its length.
ASSUME LengthAssumption ==
    \A m \in Requests \cup Answers : Len(m) < 256 * Weight(1)

Length(n) == [k \in 1..HeaderLen |-> (n \div Weight(k)) % 256]

LengthOf(h) ==
    LET Counted(k) == IF k \in 1..HeaderLen THEN h[k] * Weight(k) ELSE 0
    IN  Counted(1) + Counted(2) + Counted(3) + Counted(4)

\* Mutant: the length counts itself.
FrameCountsLength(m) == Length(Len(m) + HeaderLen) \o m

Frame(m) == Length(Len(m)) \o m

\* How many octets one read or write may move.
Some(most, wanted) == {k \in 1..wanted : k <= most}

Drop(s, k) == SubSeq(s, k + 1, Len(s))
Take(s, k) == SubSeq(s, 1, k)

-----------------------------------------------------------------------------
(* The client.                                                             *)

ClientFds == {i \in Conn : cEnd[i] = "open"}

Goto(step) == client' = step

\* The client's process ends; a new one may be started.
ClientDies ==
    /\ Goto("dead")
    /\ cEnd' = [i \in Conn |-> IF cEnd[i] = "open" THEN "closed" ELSE cEnd[i]]
    /\ reset' = [i \in Conn |-> reset[i] \/ (cEnd[i] = "open" /\ down[i] # <<>>)]
    /\ mishap' = TRUE
    /\ m_socket' = 0
    /\ left' = [left EXCEPT ![User] = <<>>]
    /\ buf' = [buf EXCEPT ![User] = <<>>]
    /\ heard' = Nothing
    /\ UNCHANGED <<serverVars, made, asked, up, down, sEnd>>

ClientKilled == client # "dead" /\ ClientDies

StartClient ==
    /\ client = "dead"
    /\ Goto("idle")
    /\ UNCHANGED <<serverVars, m_socket, made, asked, heard, wire, left, buf, mishap>>

\* connectTimeout waits until the kernel has made or refused the connection; a
\* refusal is seen by the first write, since nobody looks at the result.
ConnectTimeout == IF serverUp THEN "queued" ELSE "refused"

\* connectToHost makes a new socket and forgets the last one.
ConnectToHost(m) ==
    LET i == made + 1
    IN  /\ client = "idle"
        /\ made < MaxConn /\ Cardinality(ClientFds) < MaxFd
        /\ made' = i /\ m_socket' = i
        /\ cEnd' = [cEnd EXCEPT ![i] = "open"]
        /\ sEnd' = [sEnd EXCEPT ![i] = ConnectTimeout]
        /\ asked' = [asked EXCEPT ![i] = m]
        /\ left' = [left EXCEPT ![User] = Frame(m)]
        /\ heard' = Nothing
        /\ Goto("send")
        /\ UNCHANGED <<serverVars, up, down, reset, buf, mishap>>

\* No descriptor is left: socket() fails and nothing is sent.
NoDescriptor ==
    /\ client = "idle"
    /\ Cardinality(ClientFds) = MaxFd
    /\ m_socket' = 0 /\ heard' = Nothing
    /\ Goto("failed")
    /\ UNCHANGED <<serverVars, made, asked, wire, left, buf, mishap>>

\* One write of writen.
ClientWrite ==
    LET i == m_socket
    IN  /\ client = "send"
        /\ sEnd[i] \in {"queued", "open"}
        /\ \E k \in Some(Capacity - Len(up[i]), Len(left[User])) :
              /\ up' = [up EXCEPT ![i] = @ \o Take(left[User], k)]
              /\ left' = [left EXCEPT ![User] = Drop(@, k)]
              /\ Goto(IF k = Len(left[User]) THEN "select" ELSE "send")
        /\ UNCHANGED <<serverVars, m_socket, made, asked, heard, down, cEnd, sEnd,
                       reset, buf, mishap>>

\* A write when the server has let go of the connection, or never had it: the
\* first one may go nowhere, the next one gets SIGPIPE.
ClientWriteLost ==
    LET i == m_socket
    IN  /\ client = "send"
        /\ sEnd[i] \in {"closed", "refused"}
        /\ \/ (reset[i] \/ sEnd[i] = "refused") /\ ClientDies
           \/ /\ ~ reset[i] /\ sEnd[i] = "closed"
              /\ reset' = [reset EXCEPT ![i] = TRUE]
              /\ \E k \in Some(Capacity, Len(left[User])) :
                    /\ left' = [left EXCEPT ![User] = Drop(@, k)]
                    /\ Goto(IF k = Len(left[User]) THEN "select" ELSE "send")
              /\ UNCHANGED <<serverVars, m_socket, made, asked, heard, up, down, cEnd,
                             sEnd, buf, mishap>>

\* readTimeout: select sees an octet or the end of the stream, ...
ClientReadable ==
    /\ client = "select"
    /\ down[m_socket] # <<>> \/ sEnd[m_socket] = "closed"
    /\ Goto("read")
    /\ UNCHANGED <<serverVars, m_socket, made, asked, heard, wire, left, buf, mishap>>

\* ... or nothing for a thousand seconds.
ClientTimeout ==
    /\ client = "select"
    /\ down[m_socket] = <<>> /\ sEnd[m_socket] # "closed"
    /\ Goto("failed")
    /\ UNCHANGED <<serverVars, m_socket, made, asked, heard, wire, left, buf, mishap>>

\* Octets that readn has still to read: of the length, then of the message.
Missing(b) ==
    HeaderLen + (IF Len(b) < HeaderLen THEN 0 ELSE LengthOf(b)) - Len(b)

\* One read of readn.
ClientRead ==
    LET i == m_socket
        b == buf[User]
    IN  /\ client = "read" /\ Missing(b) > 0
        /\ \E k \in Some(Len(down[i]), Missing(b)) :
              /\ down' = [down EXCEPT ![i] = Drop(@, k)]
              /\ buf' = [buf EXCEPT ![User] = @ \o Take(down[i], k)]
        /\ UNCHANGED <<serverVars, clientVars, up, cEnd, sEnd, reset, left, mishap>>

\* Mutant: readn goes on when read returns 0.
ClientReadEndsForgotten == FALSE

\* read returns 0 or an error; recvMsg fails.
ClientReadEnds ==
    /\ client = "read" /\ Missing(buf[User]) > 0
    /\ down[m_socket] = <<>> /\ sEnd[m_socket] = "closed"
    /\ buf' = [buf EXCEPT ![User] = <<>>]
    /\ Goto("failed")
    /\ UNCHANGED <<serverVars, m_socket, made, asked, heard, wire, left, mishap>>

CloseClientEnd(i) ==
    /\ cEnd' = [cEnd EXCEPT ![i] = "closed"]
    /\ reset' = [reset EXCEPT ![i] = @ \/ down[i] # <<>>]

\* recvMsg has its message; disConnect comes at the end of a successful
\* agreement and at no other return.
ClientHears ==
    LET m == Drop(buf[User], HeaderLen)
    IN  /\ client = "read" /\ Missing(buf[User]) = 0
        /\ heard' = m
        /\ buf' = [buf EXCEPT ![User] = <<>>]
        /\ IF Head(asked[m_socket]) = Agree /\ Head(m) = 0
           THEN CloseClientEnd(m_socket)
           ELSE UNCHANGED <<cEnd, reset>>
        /\ Goto("idle")
        /\ UNCHANGED <<serverVars, m_socket, made, asked, up, down, sEnd, left, mishap>>

\* Mutant: a failed operation closes its socket too.
ClientFailsTidy ==
    /\ client = "failed"
    /\ Goto("idle")
    /\ IF m_socket # 0 THEN CloseClientEnd(m_socket) ELSE UNCHANGED <<cEnd, reset>>
    /\ UNCHANGED <<serverVars, m_socket, made, asked, heard, up, down, sEnd, left, buf, mishap>>

\* The failure of recvMsg is ignored. inData is decoded all the same: the client
\* dies, or takes an earlier answer for this one, returns and leaves the socket.
ClientFails ==
    /\ client = "failed"
    /\ \/ ClientDies
       \/ /\ Goto("idle")
          /\ UNCHANGED <<serverVars, m_socket, made, asked, heard, wire, left, buf, mishap>>

-----------------------------------------------------------------------------
(* The server.                                                             *)

At(i, step) == serverUp /\ worker[i] = step

Step(i, step) == worker' = [worker EXCEPT ![i] = step]

\* The server's process ends, and the kernel closes its sockets.
ServerDies ==
    /\ serverUp' = FALSE
    /\ worker' = [i \in Conn |-> "none"]
    /\ sEnd' = [i \in Conn |-> IF sEnd[i] \in {"queued", "open"} THEN "closed" ELSE sEnd[i]]
    /\ reset' = [i \in Conn |-> reset[i] \/ (sEnd[i] # "closed" /\ up[i] # <<>>)]
    /\ left' = [e \in End |-> IF e = User THEN left[e] ELSE <<>>]
    /\ buf' = [e \in End |-> IF e = User THEN buf[e] ELSE <<>>]
    /\ UNCHANGED <<clientVars, up, down, cEnd, told, got, mishap>>

Accept(i) ==
    /\ serverUp /\ sEnd[i] = "queued"
    /\ sEnd' = [sEnd EXCEPT ![i] = "open"]
    /\ Step(i, "select")
    /\ UNCHANGED <<clientVars, up, down, cEnd, reset, told, got, serverUp, left, buf, mishap>>

ServerReadable(i) ==
    /\ At(i, "select")
    /\ up[i] # <<>> \/ cEnd[i] = "closed"
    /\ Step(i, "read")
    /\ UNCHANGED <<clientVars, wire, told, got, serverUp, left, buf, mishap>>

ServerTimeout(i) ==
    /\ At(i, "select")
    /\ up[i] = <<>> /\ cEnd[i] = "open"
    /\ mishap' = TRUE
    /\ Step(i, "failed")
    /\ UNCHANGED <<clientVars, wire, told, got, serverUp, left, buf>>

Reading(i) == At(i, "read") /\ Missing(buf[i]) > 0

ServerRead(i) ==
    /\ Reading(i)
    /\ \E k \in Some(Len(up[i]), Missing(buf[i])) :
          /\ up' = [up EXCEPT ![i] = Drop(@, k)]
          /\ buf' = [buf EXCEPT ![i] = @ \o Take(up[i], k)]
    /\ UNCHANGED <<clientVars, serverVars, down, cEnd, sEnd, reset, left, mishap>>

ServerReadEnds(i) ==
    /\ Reading(i)
    /\ up[i] = <<>> /\ cEnd[i] = "closed"
    /\ buf' = [buf EXCEPT ![i] = <<>>]
    /\ Step(i, "failed")
    /\ UNCHANGED <<clientVars, wire, told, got, serverUp, left, mishap>>

\* sendMsg is given an answer.
Answer(i) ==
    /\ \E m \in Answers :
          told' = [told EXCEPT ![i] = m] /\ left' = [left EXCEPT ![i] = Frame(m)]
    /\ Step(i, "send")

\* Mutant: recvMsg takes what the first read of the message gave.
ServerHearsShort(i) ==
    /\ At(i, "read") /\ Len(buf[i]) > HeaderLen
    /\ got' = [got EXCEPT ![i] = Drop(buf[i], HeaderLen)]
    /\ buf' = [buf EXCEPT ![i] = <<>>]
    /\ Answer(i)
    /\ UNCHANGED <<clientVars, wire, serverUp, mishap>>

\* recvMsg has its message, and the worker does its work.
ServerHears(i) ==
    /\ At(i, "read") /\ ~ Reading(i)
    /\ got' = [got EXCEPT ![i] = Drop(buf[i], HeaderLen)]
    /\ buf' = [buf EXCEPT ![i] = <<>>]
    /\ Answer(i)
    /\ UNCHANGED <<clientVars, wire, serverUp, mishap>>

\* The failure of recvMsg is ignored: decoding inData ends the process, or gives
\* an earlier request, which is answered.
ServerFails(i) ==
    /\ At(i, "failed")
    /\ \/ ServerDies
       \/ Answer(i) /\ UNCHANGED <<clientVars, wire, got, serverUp, buf, mishap>>

ServerWrite(i) ==
    /\ At(i, "send") /\ cEnd[i] = "open"
    /\ \E k \in Some(Capacity - Len(down[i]), Len(left[i])) :
          /\ down' = [down EXCEPT ![i] = @ \o Take(left[i], k)]
          /\ left' = [left EXCEPT ![i] = Drop(@, k)]
          /\ Step(i, IF k = Len(left[i]) THEN "close" ELSE "send")
    /\ UNCHANGED <<clientVars, up, cEnd, sEnd, reset, told, got, serverUp, buf, mishap>>

\* A write when the client has let go.
ServerWriteLost(i) ==
    /\ At(i, "send") /\ cEnd[i] = "closed"
    /\ \/ reset[i] /\ ServerDies
       \/ /\ ~ reset[i]
          /\ reset' = [reset EXCEPT ![i] = TRUE]
          /\ \E k \in Some(Capacity, Len(left[i])) :
                /\ left' = [left EXCEPT ![i] = Drop(@, k)]
                /\ Step(i, IF k = Len(left[i]) THEN "close" ELSE "send")
          /\ UNCHANGED <<clientVars, up, down, cEnd, sEnd, told, got, serverUp, buf, mishap>>

\* Mutant: only "delete socket", whose destructor does nothing.
DeleteOnly(i) ==
    /\ At(i, "close")
    /\ Step(i, "none")
    /\ UNCHANGED <<clientVars, wire, told, got, serverUp, left, buf, mishap>>

\* disConnect.
DisConnect(i) ==
    /\ At(i, "close")
    /\ sEnd' = [sEnd EXCEPT ![i] = "closed"]
    /\ reset' = [reset EXCEPT ![i] = @ \/ up[i] # <<>>]
    /\ Step(i, "none")
    /\ UNCHANGED <<clientVars, up, down, cEnd, told, got, serverUp, left, buf, mishap>>

-----------------------------------------------------------------------------

ClientStep ==
    \/ ClientWrite \/ ClientWriteLost \/ ClientReadable \/ ClientTimeout \/ ClientRead
    \/ ClientReadEnds \/ ClientHears \/ ClientFails

\* The steps of a worker, but for its timeout.
WorkerStep(i) ==
    \/ ServerReadable(i) \/ ServerRead(i) \/ ServerReadEnds(i)
    \/ ServerHears(i) \/ ServerFails(i) \/ ServerWrite(i) \/ ServerWriteLost(i)
    \/ DisConnect(i)

Next ==
    \/ \E m \in Requests : ConnectToHost(m)
    \/ NoDescriptor \/ ClientStep \/ ClientKilled \/ StartClient
    \/ \E i \in Conn : Accept(i) \/ WorkerStep(i) \/ ServerTimeout(i)

\* Both programs run on when they can, a select that nothing wakes times out,
\* and the main thread accepts. Nothing is assumed of users or of kills.
Spec ==
    /\ Init /\ [][Next]_vars
    /\ WF_vars(ClientStep)
    /\ \A i \in Conn : WF_vars(Accept(i)) /\ WF_vars(WorkerStep(i) \/ ServerTimeout(i))

-----------------------------------------------------------------------------
(* Properties.                                                             *)

TypeOK ==
    /\ client \in {"idle", "send", "select", "read", "failed", "dead"}
    /\ m_socket \in 0..MaxConn /\ made \in 0..MaxConn
    /\ worker \in [Conn -> {"none", "select", "read", "failed", "send", "close"}]
    /\ cEnd \in [Conn -> {"none", "open", "closed"}]
    /\ sEnd \in [Conn -> {"none", "queued", "refused", "open", "closed"}]
    /\ \A i \in Conn : Len(up[i]) <= Capacity /\ Len(down[i]) <= Capacity
    /\ \A i \in Conn : worker[i] # "none" <=> sEnd[i] = "open"

-----------------------------------------------------------------------------
(* The inductive invariant.                                                *)

Octet == 0..255
Octets == Seq(Octet)

StreamsOK ==
    /\ up \in [Conn -> Octets] /\ down \in [Conn -> Octets]
    /\ left \in [End -> Octets] /\ buf \in [End -> Octets]
    /\ reset \in [Conn -> BOOLEAN] /\ mishap \in BOOLEAN /\ serverUp \in BOOLEAN
    /\ asked \in [Conn -> Requests \cup {Nothing}]
    /\ told \in [Conn -> Answers \cup {Nothing}]
    /\ DOMAIN got = Conn

\* Nothing has happened on a connection that is not made yet.
UnmadeOK ==
    /\ m_socket <= made
    /\ \A i \in Conn :
          IF i <= made THEN asked[i] # Nothing
          ELSE /\ cEnd[i] = "none" /\ sEnd[i] = "none"
               /\ up[i] = <<>> /\ got[i] = Nothing

\* The client works on the connection it made last, which it has open; what
\* is not being read has no octets in a buffer.
UsersOK ==
    /\ client \in {"send", "select", "read"} => m_socket # 0 /\ cEnd[m_socket] = "open"
    /\ client # "read" => buf[User] = <<>>
    /\ heard # Nothing => m_socket # 0
    /\ \A i \in Conn : worker[i] # "read" => buf[i] = <<>>
    /\ \A i \in Conn : worker[i] = "send" => left[i] # <<>>

\* A connection has an answer from the moment when its worker is past the
\* request, and one only.
ToldOK ==
    \A i \in Conn :
        /\ told[i] = Nothing => down[i] = <<>> /\ worker[i] \notin {"send", "close"}
        /\ worker[i] \in {"select", "read", "failed"}
              \/ sEnd[i] \in {"none", "queued", "refused"} => told[i] = Nothing

Begins(s, t) == Len(s) <= Len(t) /\ \A k \in 1..Len(s) : s[k] = t[k]

\* What was read, what is on its way and what is still to be written.
Stream(read, under, unwritten) == read \o under \o unwritten

\* What an end has still to write to connection i.
ToServer(i) == IF client = "send" /\ m_socket = i THEN left[User] ELSE <<>>
ToClient(i) == IF worker[i] = "send" THEN left[i] ELSE <<>>

\* Such a stream is the frame of the message, or its beginning if the writer has
\* died; no octet of it is lost, doubled or of another message.
UpOK ==
    \A i \in Conn : sEnd[i] = "queued" \/ worker[i] \in {"select", "read"} =>
        Begins(Stream(buf[i], up[i], ToServer(i)), Frame(asked[i]))

DownOK ==
    LET i == m_socket
    IN  client \in {"send", "select", "read"} =>
            IF told[i] = Nothing THEN buf[User] = <<>>
            ELSE Begins(Stream(buf[User], down[i], ToClient(i)), Frame(told[i]))

\* Without a mishap a client closes its end after its worker's last write.
ClosedOK ==
    ~ mishap => \A i \in Conn :
        /\ worker[i] # "failed"
        /\ cEnd[i] = "closed" => worker[i] \in {"none", "close"} /\ sEnd[i] # "queued"

-----------------------------------------------------------------------------
(* Safety.                                                                 *)

\* What recvMsg gives is what sendMsg was given at the other end of the same
\* connection, whole and of no earlier operation, however reads and writes split
\* it (TcpSocket.cpp:133-207).
WholeMessages ==
    /\ \A i \in Conn : got[i] # Nothing => got[i] = asked[i]
    /\ heard # Nothing => heard = told[m_socket]

\* As long as every client process lives and sends its request in time, the
\* server lives: none of the writes of its workers meets a reset connection,
\* because the client keeps its socket when it gives up (ClientOperation.cpp:86).
ServerSurvives == ~ mishap => serverUp

\* All of it together: the streams and buffers of every connection carry one
\* frame in each direction, from the writer over the wire to the reader
\* (TcpSocket.cpp:133-207).
IndInv ==
    /\ TypeOK /\ StreamsOK
    /\ UnmadeOK /\ UsersOK /\ ToldOK /\ UpOK /\ DownOK /\ ClosedOK
    /\ WholeMessages /\ ServerSurvives

\* A worker lets go of its connection although the client keeps its own end
\* open, and although nothing bounds the wait after the first octet.
WorkersEnd == \A i \in Conn : sEnd[i] = "open" ~> sEnd[i] = "closed"

\* An operation of the client returns, whatever happens to the server and at
\* whichever octet it stops.
ClientReturns == client # "idle" ~> client \in {"idle", "dead"}
============================================================================
