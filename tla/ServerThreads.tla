--------------------------- MODULE ServerThreads ---------------------------
(***************************************************************************)
(* The server as threads in one process, each call on a shared object in   *)
(* its parts. KeyServer runs the same calls as single steps; the           *)
(* properties below say what the parts give when two threads meet in them, *)
(* and what it takes for them to be single steps.                          *)
(***************************************************************************)
EXTENDS ShmCalls, DbCalls

CONSTANT Requests    \* what the clients of a behaviour may ask

\* The clients with a slot when the constructor is done: all that have a row,
\* unless the table was full.
Loaded == {Tab0[k].clientID : k \in 1..MaxNode} \ {NoClient}

\* The nonce of a request is named like its connection. What the constructor
\* found in the database is what it has put into the table.
ASSUME RequestsAssumption ==
    /\ Requests \subseteq [cmd: {"agree", "revoke"}, client: Client]
    /\ Conn \subseteq Nonce1
    /\ Loaded \subseteq Rows0 /\ Rows0 \subseteq Client
    /\ Rows0 # Loaded => FreeSlots(Tab0) = {}

VARIABLE request     \* of each connection: what its client asks

vars == <<processVars, shmVars, dbVars, request>>

\* A check is a revocation whose code does not fit: both read the slot, and
\* then the one ends.
NoRequest == [cmd |-> "none", client |-> NoClient]

Init ==
    /\ ProcessInit
    /\ ShmInit
    /\ DbInit
    /\ request = [i \in Conn |-> NoRequest]

Cmd(t) == request[sock[t]].cmd

ClientOf(t) == request[sock[t]].client

-----------------------------------------------------------------------------
(* The local code of working, secKeyAgree, secKeyCheck and secKeyRevoke    *)
(* between two calls.                                                      *)

Request(i) ==
    /\ Connect(i)
    /\ \E r \in Requests : request' = [request EXCEPT ![i] = r]
    /\ UNCHANGED <<shmVars, dbVars>>

\* The request is there: select name from secnode.
AskRegistered(t) ==
    /\ Recv(t)
    /\ call' = [call EXCEPT ![t] = "check"]
    /\ UNCHANGED <<shmVars, unread, result, freed, res, found, rows, dbOverlap, request>>

NewNode(t) ==
    [status |-> 1, seckeyID |-> 0, clientID |-> ClientOf(t),
     seckey |-> <<sock[t], CHOOSE r2 \in R2 : TRUE>>]

\* Unknown clients are refused, and agreements whose code does not fit r1; else an
\* agreement goes to write its node, a check or a revocation to read it.
IdChecked(t) ==
    /\ call[t] = "check"
    /\ \E known \in BOOLEAN :
          /\ ReadRows(t, known)
          /\ \/ /\ known => Cmd(t) = "agree"
                /\ Goto(t, "close")
                /\ UNCHANGED <<node, use>>
             \/ /\ known /\ Cmd(t) = "agree"
                /\ Goto(t, "attach")
                /\ node' = [node EXCEPT ![t] = NewNode(t)]
                /\ use' = [use EXCEPT ![t] = "write"]
             \/ /\ known /\ Cmd(t) # "agree"
                /\ Goto(t, "attach")
                /\ UNCHANGED <<node, use>>
    /\ call' = [call EXCEPT ![t] = NoQuery]
    /\ UNCHANGED <<tab, maps, m_shmAddr, p, slot, before, shmOverlap, request>>

\* secKeyAgree has written its node: select * from seckeyinfo.
AgreeWritten(t) ==
    /\ use[t] = "write" /\ Cmd(t) = "agree"
    /\ Detach(t)
    /\ Goto(t, "query")
    /\ call' = [call EXCEPT ![t] = "select"]
    /\ use' = [use EXCEPT ![t] = "read"]
    /\ node' = [node EXCEPT ![t] = Zero]
    /\ UNCHANGED <<unread, result, freed, res, found, rows, dbOverlap, request>>

\* A row is updated; without one, MAX(keyid) is asked for first.
RowSelected(t) ==
    /\ call[t] \in {"select", "max"}
    /\ \E row \in BOOLEAN :
          /\ ReadRows(t, row)
          /\ IF call[t] = "max" \/ row
             THEN Goto(t, "doSql") /\ UNCHANGED call
             ELSE Goto(t, "query") /\ call' = [call EXCEPT ![t] = "max"]
    /\ UNCHANGED <<shmVars, request>>

\* The code in the request fits the key of the slot, or it does not.
NodeRead(t) ==
    /\ use[t] = "read"
    /\ Detach(t)
    /\ \/ /\ Goto(t, "attach")
          /\ use' = [use EXCEPT ![t] = "write"]
          /\ node' = [node EXCEPT ![t].status = 0]
       \/ /\ Goto(t, "close")
          /\ node' = [node EXCEPT ![t] = Zero]
          /\ UNCHANGED use
    /\ UNCHANGED <<dbVars, request>>

\* secKeyRevoke has written its node back: update seckeyinfo.
RevokeWritten(t) ==
    /\ use[t] = "write" /\ Cmd(t) = "revoke"
    /\ Detach(t)
    /\ Goto(t, "doSql")
    /\ use' = [use EXCEPT ![t] = "read"]
    /\ node' = [node EXCEPT ![t] = Zero]
    /\ UNCHANGED <<dbVars, request>>

LocalCode(t) ==
    \/ AskRegistered(t) \/ IdChecked(t) \/ AgreeWritten(t)
    \/ RowSelected(t) \/ NodeRead(t) \/ RevokeWritten(t)

-----------------------------------------------------------------------------

Frame(t) ==
    /\ Lookup(t) \/ Close(t) \/ Erase(t)
    /\ UNCHANGED <<shmVars, dbVars, request>>

Causes == {"stopped", "mapRace", "noSocket", "badSocket", "detached", "mixedReplies", "doubleFree",
           "nullResult", "useAfterFree"}

Worker(t) ==
    \/ Frame(t)
    \/ LocalCode(t)
    \/ sock[t] \in Conn /\ TableStep(t, ClientOf(t)) /\ UNCHANGED <<dbVars, request>>
    \/ sock[t] \in Conn /\ DatabaseStep(t, ClientOf(t)) /\ UNCHANGED <<shmVars, request>>

\* startWork returns, a step goes through a pointer to nothing, or two threads are
\* in an object that is not made for it.
End ==
    /\ \E cause \in Causes :
          /\ \/ Stopped(cause)
             \/ MapRace(cause)
             \/ \E t \in Thread : RecvDies(t, cause) \/ ShmDies(t, cause) \/ DbDies(t, cause)
          /\ Die(cause)
    /\ ShmGone /\ DbGone
    /\ UNCHANGED request

MainThread(step) == step /\ UNCHANGED <<shmVars, dbVars, request>>

Next ==
    \/ \E i \in Conn : Request(i)
    \/ \E t \in Thread : Worker(t)
    \/ MainThread(MainStep)
    \/ MainThread(CatchSignal)
    \/ End

Spec == Init /\ [][Next]_vars

-----------------------------------------------------------------------------

Pc == {"none", "lookup", "recv", "query", "reply", "freeResult", "clearResult",
       "storeResult", "return", "rows", "attach", "mapped", "readSlot", "ownSlot",
       "freeSlot", "copyHead", "copyKey", "detach", "doSql", "sqlReply", "close",
       "erase"}

TypeOK ==
    /\ ProcessTypeOK /\ ShmTypeOK /\ DbTypeOK
    /\ why \in Causes \cup {"alive"}
    /\ pc \in [Thread -> Pc] /\ rows \subseteq Client
    /\ request \in [Conn -> Requests \cup {NoRequest}]

-----------------------------------------------------------------------------
(* What makes the properties below inductive.                              *)

\* A worker finds its socket in the registry and keeps it; the main thread's
\* new worker has no entry yet, or made an empty one itself.
SocketsOK ==
    /\ accepted \in Conn => st[accepted] # "none"
    /\ main = "insert" =>
          /\ newest \in Thread
          /\ \/ pc[newest] = "lookup" /\ registry[newest] = Absent
             \/ pc[newest] = "recv" /\ registry[newest] = Null
    /\ \A i \in Conn : st[i] # "none" => request[i] \in Requests
    /\ \A t \in Thread :
          /\ registry[t] \in Conn => st[registry[t]] # "none"
          /\ pc[t] = "none" => registry[t] = Absent
          /\ IF pc[t] \in {"none", "lookup"} THEN sock[t] = Null ELSE sock[t] = registry[t]
          /\ pc[t] \notin {"none", "lookup", "recv"} => sock[t] \in Conn

\* Unless accept failed, an accepted connection is the main thread's until it
\* is one worker's, and it is open until that worker closes it.
OwnersOK ==
    "failed" \notin mishaps =>
        /\ accepted # BadFd
        /\ main \in {"create", "insert"} /\ accepted \in Conn =>
              st[accepted] = "open" /\ \A t \in Thread : registry[t] # accepted
        /\ \A t \in Thread :
              /\ registry[t] # BadFd
              /\ registry[t] \in Conn =>
                    /\ st[registry[t]] = IF pc[t] = "erase" THEN "closed" ELSE "open"
                    /\ \A u \in Thread \ {t} : registry[u] # registry[t]

\* A null pointer in the registry comes from an accept that timed out, or from a
\* worker that looked before its entry was there.
NullsOK ==
    /\ main \in {"create", "insert"} /\ accepted = Null => "idle" \in mishaps
    /\ \A t \in Thread : registry[t] = Null => {"idle", "hasty"} \cap mishaps # {}

\* The signal is seen before the next accept.
LateOK ==
    /\ ~ stop => late = 0
    /\ late = 1 => main # "accept"
    /\ late <= 1

\* As long as calls on the segment do not overlap, the address in the member is
\* the one of the call that is under way.
SegmentOK ==
    ~ shmOverlap =>
        \A t \in Thread : InShm(t) =>
            /\ m_shmAddr \in maps
            /\ pc[t] # "mapped" => p[t] = m_shmAddr
            /\ \A u \in Thread \ {t} : ~ InShm(u)

\* Which part of shmRead or shmWrite a call is in tells what it is.
UseOK ==
    \A t \in Thread :
        /\ pc[t] = "readSlot" => use[t] = "read"
        /\ pc[t] \in {"ownSlot", "freeSlot", "copyHead", "copyKey"} => use[t] = "write"

\* How far a call has come that nobody disturbs.
Progress(t) ==
    LET c == node[t].clientID
    IN  /\ pc[t] \in {"mapped", "readSlot", "ownSlot", "freeSlot", "copyHead"} =>
              tab = before
        /\ pc[t] = "freeSlot" => SlotsOf(before, c) = {}
        /\ pc[t] \in {"copyHead", "copyKey"} =>
              WriteSlots(before, c) # {} /\ slot[t] = First(WriteSlots(before, c))
        /\ pc[t] = "copyKey" =>
              tab = [before EXCEPT ![slot[t]] =
                        [node[t] EXCEPT !.seckey = before[slot[t]].seckey]]

WriteOK == ~ shmOverlap => \A t \in Thread : Progress(t)

\* No scan has stopped at a loaded slot but one for the client of that slot.
ScanOK ==
    \A t \in Thread : pc[t] \in {"copyHead", "copyKey"} =>
        slot[t] # 0 /\ Tab0[slot[t]].clientID \in {NoClient, node[t].clientID}

\* As long as queries do not overlap, one thread at a time is in them, a reply
\* is stored before the next statement, and a result is freed once.
QueriesOK ==
    ~ dbOverlap =>
        /\ unread => \E t \in Thread : InDb(t)
        /\ result \in freed => \E t \in Thread : pc[t] = "clearResult"
        /\ \A t \in Thread : InDb(t) =>
              /\ \A u \in Thread \ {t} : ~ InDb(u)
              /\ unread <=> (pc[t] \in {"freeResult", "clearResult", "storeResult"})
              /\ pc[t] = "return" => result = <<sock[t], call[t], found[t]>>

-----------------------------------------------------------------------------
(* Safety.                                                                 *)

\* A worker that has received its request is alone with an open connection that
\* the main thread accepted for it, although numbers of threads are given again
\* and the registry keeps what is in it (ServerOperation.cpp:91, 337, 400);
\* unless accept failed and its errno was taken for a descriptor.
OwnSocket ==
    proc = "running" /\ "failed" \notin mishaps =>
        \A t \in Thread : pc[t] \notin {"none", "lookup", "recv", "erase"} =>
            /\ sock[t] \in Conn
            /\ st[sock[t]] = "open"
            /\ \A u \in Thread \ {t} : pc[u] # "none" => sock[u] # sock[t]

\* What ends the process is a meeting of two threads in the calls of one object
\* or a socket that is not one; a worker that is alone in its calls, and was
\* accepted, is served to the end.
CrashExplained ==
    /\ why = "detached" => shmOverlap
    /\ why \in {"mixedReplies", "nullResult", "useAfterFree", "doubleFree"} => dbOverlap
    /\ why = "badSocket" => "failed" \in mishaps
    /\ why = "noSocket" => {"idle", "hasty"} \cap mishaps # {}
    /\ why = "stopped" => stop

\* The parts of shmWrite amount to the write of SecKeyShm when no two calls on
\* the segment ran at the same time (SecKeyShm.cpp:73-127).
WriteIsAtomic ==
    ~ shmOverlap =>
        \A t \in Thread : pc[t] = "detach" /\ use[t] = "write" =>
            tab = ShmWrite(before, node[t])

\* A client whose row was loaded at the start keeps its slot, revoked or not,
\* however the calls of the workers overlap: no scan takes a slot that is not
\* all zero (SecKeyShm.cpp:107).
LoadedSlotKept ==
    \A k \in 1..MaxNode :
        Tab0[k].clientID # NoClient => tab[k].clientID = Tab0[k].clientID

\* A worker that nobody disturbed reads the rows of its own query, and nobody
\* has freed them (MySQL.cpp:42-51).
OwnRows ==
    ~ dbOverlap =>
        \A t \in Thread : pc[t] = "rows" =>
            res[t] = <<sock[t], call[t], found[t]>> /\ res[t] \notin freed

\* Workers may interleave between their calls: if no two calls overlap, then
\* the same clients have a slot and a row once all workers are done with both.
KnownInBoth ==
    proc = "running" /\ ~ shmOverlap /\ ~ dbOverlap
        /\ (\A t \in Thread : pc[t] \in {"none", "lookup", "recv", "close", "erase"})
    => rows = {tab[k].clientID : k \in 1..MaxNode} \ {NoClient}

\* After SIGUSR1 at most one more connection is accepted: the one that the
\* accept which was under way returns (ServerOperation.cpp:79-83).
StopAfterOne == late <= 1

\* All of it together.
IndInv ==
    /\ TypeOK
    /\ SocketsOK /\ OwnersOK /\ NullsOK /\ LateOK
    /\ SegmentOK /\ UseOK /\ WriteOK /\ ScanOK /\ QueriesOK
    /\ CrashExplained /\ WriteIsAtomic /\ LoadedSlotKept /\ OwnRows
============================================================================
