-------------------------- MODULE MCServerThreads --------------------------
(***************************************************************************)
(* Values of the constants of ServerThreads for TLC. The specification     *)
(* treats the threads, the connections and the addresses alike, and the    *)
(* properties of the run are invariants.                                   *)
(***************************************************************************)
EXTENDS ServerThreads, TLC

CONSTANTS r2, c1, c2

MCOldNode ==
    [status |-> 0, seckeyID |-> 1, clientID |-> c1, seckey |-> <<"r1", r2>>]

MCTab0 == ShmWrite(ZeroTable(2), MCOldNode)

MCRequests ==
    {[cmd |-> "agree", client |-> c2], [cmd |-> "revoke", client |-> c1]}

MCSymmetry ==
    Permutations(Thread) \cup Permutations(Conn) \cup Permutations(Addr)
\* Each mishap, and the signal, ends the process sooner or later, whatever the other
\* workers do till then. (Bound: one of them in a behaviour; the step that brings a
\* second one is still checked.)
OneMishap == Cardinality(mishaps) <= IF stop THEN 0 ELSE 1
============================================================================
