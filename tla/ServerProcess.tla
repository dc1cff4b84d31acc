---------------------------- MODULE ServerProcess ----------------------------
(***************************************************************************)
(* The server process: its main thread (startWork and the accept of        *)
(* TcpServer), the registry through which a worker finds its socket        *)
(* (m_listSocket), and the beginning and the end of a worker (working).    *)
(*                                                                         *)
(* KeyServer starts a worker with its request in hand; here is how it gets *)
(* there. A step that follows a null or a dead pointer ends the process;   *)
(* why it did is recorded for the properties and read by no guard.         *)
(***************************************************************************)
EXTENDS Integers, FiniteSets

CONSTANTS
    Thread,      \* values of pthread_t, given to a new thread when one ends
    NoThread,
    Conn,        \* connections that clients make in a behaviour
    Null,        \* a null pointer to a socket
    Absent,      \* no entry in the registry
    BadFd,       \* a descriptor that no connection has
    Faults       \* {"acceptErr"} where accept itself may fail, else {}

ASSUME ProcessAssumption ==
    /\ NoThread \notin Thread
    /\ {Null, Absent, BadFd} \cap Conn = {}
    /\ Null # Absent /\ Null # BadFd /\ Absent # BadFd
    /\ Faults \subseteq {"acceptErr"}

VARIABLES
    proc,      \* "running" or "ended"
    why,       \* what ended it
    stop,      \* m_stop
    main,      \* the next call of the main thread
    accepted,  \* m_client: the socket of the last accept
    newest,    \* threadID: the last thread that was created
    registry,  \* m_listSocket, with Absent where there is no entry
    st,        \* each connection: "none", "queued", "open" or "closed"
    pc,        \* the next call of each thread, "none" when there is no thread
    sock,      \* the socket a worker looked up
    mishaps,   \* history: "failed" (the errno of an accept became a socket),
               \* "idle" (an accept timed out), "hasty" (a worker did not wait)
    late       \* history: connections accepted after the signal

processVars == <<proc, why, stop, main, accepted, newest, registry, st, pc, sock,
                 mishaps, late>>

mainVars == <<stop, main, accepted, newest, mishaps, late>>

Socket == Conn \cup {Null, BadFd}

ProcessInit ==
    /\ proc = "running"
    /\ why = "alive"
    /\ stop = FALSE
    /\ main = "check"
    /\ accepted = Null
    /\ newest = NoThread
    /\ registry = [t \in Thread |-> Absent]
    /\ st = [i \in Conn |-> "none"]
    /\ pc = [t \in Thread |-> "none"]
    /\ sock = [t \in Thread |-> Null]
    /\ mishaps = {}
    /\ late = 0

ProcessTypeOK ==
    /\ proc \in {"running", "ended"} /\ stop \in BOOLEAN
    /\ main \in {"check", "accept", "create", "insert"}
    /\ accepted \in Socket /\ newest \in Thread \cup {NoThread}
    /\ registry \in [Thread -> Socket \cup {Absent}]
    /\ st \in [Conn -> {"none", "queued", "open", "closed"}]
    /\ sock \in [Thread -> Socket]
    /\ mishaps \subseteq {"failed", "idle", "hasty"} /\ late \in Nat

\* The process ends, and with it its threads and its memory; the kernel closes
\* the connections.
Die(cause) ==
    /\ proc' = "ended"
    /\ why' = cause
    /\ st' = [i \in Conn |-> IF st[i] = "none" THEN "none" ELSE "closed"]
    /\ pc' = [t \in Thread |-> "none"]
    /\ sock' = [t \in Thread |-> Null]
    /\ registry' = [t \in Thread |-> Absent]
    /\ main' = "check"
    /\ accepted' = Null
    /\ newest' = NoThread
    /\ UNCHANGED <<stop, mishaps, late>>

StillRunning == UNCHANGED <<proc, why>>

-----------------------------------------------------------------------------
(* Clients and the operator.                                               *)

\* A client connects: the kernel completes the connection, which waits in the
\* backlog of setListen.
Connect(i) ==
    /\ proc = "running"
    /\ st[i] = "none"
    /\ st' = [st EXCEPT ![i] = "queued"]
    /\ UNCHANGED <<proc, why, registry, pc, sock, mainVars>>

\* SIGUSR1; select and read go on when it interrupts them.
CatchSignal ==
    /\ proc = "running"
    /\ stop' = TRUE
    /\ UNCHANGED <<proc, why, main, accepted, newest, registry, st, pc, sock,
                   mishaps, late>>

-----------------------------------------------------------------------------
(* The main thread.                                                        *)

Main(call) == proc = "running" /\ main = call

CheckStopIf(go) ==
    /\ Main("check")
    /\ go
    /\ main' = "accept"
    /\ StillRunning
    /\ UNCHANGED <<stop, accepted, newest, registry, st, pc, sock, mishaps, late>>

\* Mutant: nobody looks at m_stop.
CheckStopForgotten == CheckStopIf(TRUE)

CheckStop == CheckStopIf(~ stop)

\* startWork returns, main returns, and that ends the workers as well.
Stopped(cause) == Main("check") /\ stop /\ cause = "stopped"

\* acceptConn gives a socket for a connection of the backlog, ...
Accept ==
    /\ Main("accept")
    /\ \E i \in Conn :
          /\ st[i] = "queued"
          /\ accepted' = i
          /\ st' = [st EXCEPT ![i] = "open"]
    /\ late' = IF stop THEN late + 1 ELSE late
    /\ main' = "create"
    /\ StillRunning
    /\ UNCHANGED <<stop, newest, registry, pc, sock, mishaps>>

\* ... NULL when none came in time, ...
AcceptTimeout ==
    /\ Main("accept")
    /\ \A i \in Conn : st[i] # "queued"
    /\ accepted' = Null
    /\ mishaps' = mishaps \cup {"idle"}
    /\ main' = "create"
    /\ StillRunning
    /\ UNCHANGED <<stop, newest, registry, st, pc, sock, late>>

\* ... and, when accept fails, a socket whose descriptor is the errno. It may
\* be that of a connection: with EMFILE all low numbers are in use. (Bound: one
\* failure in a behaviour.)
AcceptError ==
    /\ Main("accept")
    /\ "acceptErr" \in Faults /\ "failed" \notin mishaps
    /\ accepted' \in {BadFd} \cup {i \in Conn : st[i] = "open"}
    /\ mishaps' = mishaps \cup {"failed"}
    /\ main' = "create"
    /\ StillRunning
    /\ UNCHANGED <<stop, newest, registry, st, pc, sock, late>>

\* pthread_create and pthread_detach: the number of a thread that ended may be
\* given again. (Thread bounds how many run at a time; the code sets no limit.)
Create ==
    /\ Main("create")
    /\ \E t \in Thread :
          /\ pc[t] = "none"
          /\ pc' = [pc EXCEPT ![t] = "lookup"]
          /\ newest' = t
    /\ main' = "insert"
    /\ StillRunning
    /\ UNCHANGED <<stop, accepted, registry, st, sock, mishaps, late>>

\* std::map::insert leaves an entry that is there alone.
Insert ==
    /\ Main("insert")
    /\ registry' = [registry EXCEPT ![newest] = IF @ = Absent THEN accepted ELSE @]
    /\ main' = "check"
    /\ StillRunning
    /\ UNCHANGED <<stop, accepted, newest, st, pc, sock, mishaps, late>>

MainStep ==
    CheckStop \/ Accept \/ AcceptTimeout \/ AcceptError \/ Create \/ Insert

-----------------------------------------------------------------------------
(* The frame of a worker.                                                  *)

At(t, call) == proc = "running" /\ pc[t] = call

Goto(t, call) == pc' = [pc EXCEPT ![t] = call]

LookupAs(t, found) ==
    /\ At(t, "lookup")
    /\ registry' = [registry EXCEPT ![t] = found]
    /\ sock' = [sock EXCEPT ![t] = found]
    /\ mishaps' = IF registry[t] = Absent THEN mishaps \cup {"hasty"} ELSE mishaps
    /\ Goto(t, "recv")
    /\ StillRunning
    /\ UNCHANGED <<st, stop, main, accepted, newest, late>>

\* Mutant: the worker takes m_client, the socket of the last accept.
LookupLast(t) == LookupAs(t, accepted)

\* Mutant: find instead of operator[], and nobody looks at what it found.
LookupFind(t) == LookupAs(t, registry[t])

\* operator[] of the registry makes an entry with a null pointer when there is
\* none yet.
Lookup(t) == LookupAs(t, IF registry[t] = Absent THEN Null ELSE registry[t])

\* Another worker has this worker's connection.
Shared(t) == \E u \in Thread \ {t} : pc[u] # "none" /\ sock[u] = sock[t]

\* recvMsg on a null socket, on a descriptor of nothing, or on a connection
\* that another worker reads: the first ends the process there, the others
\* leave inData unset and end it in msgDecode.
RecvDies(t, cause) ==
    /\ At(t, "recv")
    /\ \/ sock[t] = Null /\ cause = "noSocket"
       \/ sock[t] = BadFd /\ cause = "badSocket"
       \/ sock[t] \in Conn /\ (st[sock[t]] = "closed" \/ Shared(t)) /\ cause = "badSocket"

\* recvMsg and msgDecode.
Recv(t) ==
    /\ At(t, "recv")
    /\ sock[t] \in Conn
    /\ st[sock[t]] = "open" /\ ~ Shared(t)
    /\ Goto(t, "query")
    /\ StillRunning
    /\ UNCHANGED <<registry, st, sock, mainVars>>

\* sendMsg and disConnect.
Close(t) ==
    /\ At(t, "close")
    /\ st' = [st EXCEPT ![sock[t]] = "closed"]
    /\ Goto(t, "erase")
    /\ StillRunning
    /\ UNCHANGED <<registry, sock, mainVars>>

\* Mutant: the entry stays when the thread ends.
EraseForgotten(t) ==
    /\ At(t, "erase")
    /\ sock' = [sock EXCEPT ![t] = Null]
    /\ Goto(t, "none")
    /\ StillRunning
    /\ UNCHANGED <<registry, st, mainVars>>

\* The entry is erased, and the thread ends.
Erase(t) ==
    /\ At(t, "erase")
    /\ registry' = [registry EXCEPT ![t] = Absent]
    /\ sock' = [sock EXCEPT ![t] = Null]
    /\ Goto(t, "none")
    /\ StillRunning
    /\ UNCHANGED <<st, mainVars>>

\* The threads that are about to change the registry. Two at once may damage
\* the map, and the process then dies; otherwise one goes first.
MapUsers ==
    {t \in Thread : pc[t] \in {"lookup", "erase"}}
        \cup (IF main = "insert" THEN {NoThread} ELSE {})

MapRace(cause) ==
    /\ proc = "running"
    /\ Cardinality(MapUsers) > 1
    /\ cause = "mapRace"
============================================================================
