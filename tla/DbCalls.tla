------------------------------ MODULE DbCalls ------------------------------
(***************************************************************************)
(* GetSqlRes and DoSql of MySQL taken apart, as the threads that share the *)
(* one MySQL object run them: send the statement, take the reply, free the *)
(* previous result, forget it, store the new one, return the member.       *)
(*                                                                         *)
(* Of the client library, which is not thread-safe on one connection, the  *)
(* model has what the code relies on: a statement is refused while a       *)
(* result waits to be stored ("commands out of sync"), and two threads     *)
(* that wait for replies at once may get each other's, or die of them.     *)
(***************************************************************************)
EXTENDS ServerProcess

CONSTANTS NoResult, NoQuery, Rows0   \* Rows0: clients with a row at the start

\* What a thread asks, and what the member result may point to: whose query
\* it was, which one, and whether it has a row.
Queries == {"check", "select", "max"}

Results == (Socket \X (Queries \cup {NoQuery}) \X BOOLEAN) \cup {<<"reload", TRUE>>}

ASSUME DbCallsAssumption == NoResult \notin Results /\ NoQuery \notin Queries

VARIABLES
    unread,      \* the connection has a result that nobody stored
    result,      \* the member result
    freed,       \* results that were freed
    res,         \* local res of each thread
    call,        \* its current query: "check", "select" or "max"
    found,       \* what the database answered: has that query a row
    rows,        \* the clients with a row in seckeyinfo
    dbOverlap    \* history: two threads used the connection or a result at once

dbVars == <<unread, result, freed, res, call, found, rows, dbOverlap>>

\* The constructor's query has left its result in the member.
DbInit ==
    /\ unread = FALSE
    /\ result = <<"reload", TRUE>>
    /\ freed = {}
    /\ res = [t \in Thread |-> NoResult]
    /\ call = [t \in Thread |-> NoQuery]
    /\ found = [t \in Thread |-> FALSE]
    /\ rows = Rows0
    /\ dbOverlap = FALSE

DbTypeOK ==
    /\ unread \in BOOLEAN /\ found \in [Thread -> BOOLEAN]
    /\ result \in Results \cup {NoResult} /\ freed \subseteq Results
    /\ res \in [Thread -> Results \cup {NoResult}]
    /\ call \in [Thread -> Queries \cup {NoQuery}]
    /\ dbOverlap \in BOOLEAN

InDb(t) ==
    pc[t] \in {"reply", "freeResult", "clearResult", "storeResult", "return", "rows",
               "sqlReply"}

DbStep(t, next) ==
    /\ Goto(t, next)
    /\ StillRunning
    /\ UNCHANGED <<registry, st, sock, mainVars>>

\* The threads whose statement is on its way.
Waiting == {t \in Thread : pc[t] \in {"reply", "sqlReply"}}

\* Whether a query of c's worker finds a row. That of secnode may or may not, but
\* a client with a row in seckeyinfo is in secnode; that of the largest keyid does.
Finds(t, c, row) ==
    CASE call[t] = "check" -> c \in rows => row
      [] call[t] = "select" -> row <=> c \in rows
      [] OTHER -> row

\* mysql_real_query sends the statement of a client's worker. Refused, the call
\* returns nullptr.
Query(t, c) ==
    /\ At(t, "query")
    /\ \E row \in BOOLEAN : Finds(t, c, row) /\ found' = [found EXCEPT ![t] = row]
    /\ dbOverlap' = (dbOverlap \/ \E u \in Thread : InDb(u))
    /\ DbStep(t, IF unread THEN "rows" ELSE "reply")
    /\ UNCHANGED <<unread, result, freed, res, call, rows>>

\* The reply of mysql_real_query has come.
Reply(t) ==
    /\ At(t, "reply")
    /\ unread' = TRUE
    /\ DbStep(t, "freeResult")
    /\ UNCHANGED <<result, freed, res, call, found, rows, dbOverlap>>

\* "if (result != nullptr) mysql_free_result(result);"
FreeResult(t) ==
    /\ At(t, "freeResult")
    /\ result \notin freed
    /\ IF result = NoResult
       THEN UNCHANGED freed /\ DbStep(t, "storeResult")
       ELSE freed' = freed \cup {result} /\ DbStep(t, "clearResult")
    /\ UNCHANGED <<unread, result, res, call, found, rows, dbOverlap>>

\* "result = nullptr;"
ClearResult(t) ==
    /\ At(t, "clearResult")
    /\ result' = NoResult
    /\ DbStep(t, "storeResult")
    /\ UNCHANGED <<unread, freed, res, call, found, rows, dbOverlap>>

\* Whose rows mysql_store_result may read from the connection.
Unstored == {t \in Thread : InDb(t) /\ pc[t] \notin {"return", "rows", "sqlReply"}}

\* mysql_store_result; it gives nullptr when the rows have been read already.
\* A freed result that nobody points to is forgotten.
StoreResult(t) ==
    /\ At(t, "storeResult")
    /\ \/ /\ unread
          /\ \E u \in Unstored :
                /\ result' = <<sock[u], call[u], found[u]>>
                /\ freed' = {o \in freed : \E v \in Thread : res[v] = o} \ {result'}
       \/ /\ ~ unread
          /\ result' = NoResult
          /\ UNCHANGED freed
    /\ unread' = FALSE
    /\ DbStep(t, "return")
    /\ UNCHANGED <<res, call, found, rows, dbOverlap>>

\* Mutant: the result is freed by the call that returns it.
ReturnFreed(t) ==
    /\ At(t, "return")
    /\ res' = [res EXCEPT ![t] = result]
    /\ freed' = freed \cup {result}
    /\ DbStep(t, "rows")
    /\ UNCHANGED <<unread, result, call, found, rows, dbOverlap>>

\* "return result;" returns the member, whoever stored it.
Return(t) ==
    /\ At(t, "return")
    /\ res' = [res EXCEPT ![t] = result]
    /\ DbStep(t, "rows")
    /\ UNCHANGED <<unread, result, freed, call, found, rows, dbOverlap>>

\* Replies that come to the wrong thread; a second mysql_free_result; row_count
\* and mysql_fetch_row through a null pointer or a freed result.
DbDies(t, cause) ==
    /\ proc = "running"
    /\ \/ /\ pc[t] \in {"query", "reply", "doSql", "sqlReply"}
          /\ Waiting \ {t} # {}
          /\ cause = "mixedReplies"
       \/ pc[t] = "freeResult" /\ result \in freed /\ cause = "doubleFree"
       \/ pc[t] = "rows" /\ res[t] = NoResult /\ cause = "nullResult"
       \/ pc[t] = "rows" /\ res[t] \in freed /\ cause = "useAfterFree"

\* What is left of the calls when the process dies: the rows.
DbGone ==
    /\ unread' = FALSE
    /\ result' = NoResult
    /\ freed' = {}
    /\ res' = [t \in Thread |-> NoResult]
    /\ call' = [t \in Thread |-> NoQuery]
    /\ found' = [t \in Thread |-> FALSE]
    /\ dbOverlap' = (dbOverlap \/ Waiting # {})
    /\ UNCHANGED rows

\* What they give otherwise; a freed result gives anything.
ReadRows(t, answer) ==
    /\ At(t, "rows")
    /\ res[t] # NoResult
    /\ res[t] \in freed \/ answer = res[t][3]
    /\ res' = [res EXCEPT ![t] = NoResult]
    /\ found' = [found EXCEPT ![t] = FALSE]
    /\ StillRunning
    /\ UNCHANGED <<registry, st, sock, mainVars, unread, result, freed, rows, dbOverlap>>

\* DoSql sends its statement. Refused, it returns false and nobody looks.
DoSql(t) ==
    /\ At(t, "doSql")
    /\ call' = [call EXCEPT ![t] = IF unread THEN NoQuery ELSE @]
    /\ dbOverlap' = (dbOverlap \/ \E u \in Thread : InDb(u))
    /\ DbStep(t, IF unread THEN "close" ELSE "sqlReply")
    /\ UNCHANGED <<unread, result, freed, res, found, rows>>

\* The reply has come. In the worker of c the statement was an insert when no row
\* had been found, else an update, which adds no row.
SqlReply(t, c) ==
    /\ At(t, "sqlReply")
    /\ rows' = IF call[t] = "max" THEN rows \cup {c} ELSE rows
    /\ call' = [call EXCEPT ![t] = NoQuery]
    /\ DbStep(t, "close")
    /\ UNCHANGED <<unread, result, freed, res, found, dbOverlap>>

DatabaseStep(t, c) ==
    \/ Query(t, c) \/ Reply(t) \/ FreeResult(t) \/ ClearResult(t) \/ StoreResult(t)
    \/ Return(t) \/ DoSql(t) \/ SqlReply(t, c)
============================================================================
