------------------------------ MODULE ShmCalls ------------------------------
(***************************************************************************)
(* shmWrite and shmRead taken apart, as the threads of one process run     *)
(* them: attach, scan, copy in two halves, detach. m_shmAddr is a member   *)
(* of the one SecKeyShm object, so mapShm returns and unmapShm detaches    *)
(* the address that was attached last, whoever did it; p is local. A step  *)
(* through an address that is not attached any more ends the process.      *)
(*                                                                         *)
(* SecKeyShm has the calls as whole steps; ServerThreads says when the     *)
(* parts amount to them.                                                   *)
(***************************************************************************)
EXTENDS ServerProcess, SecKeyShm

CONSTANTS
    Addr,        \* what shmat returns; an address may be given again
    NoAddr,
    MaxNode,     \* maxnode of main.cpp
    Tab0         \* the table that the constructor filled from the database

\* The constructor calls shmWrite for each row on a zeroed table. A row has the
\* id of its client: the column refers to secnode.
ASSUME ShmCallsAssumption ==
    /\ NoAddr \notin Addr
    /\ MaxNode \in Nat \ {0}
    /\ Tab0 \in [1..MaxNode -> NodeSHMInfo] /\ OneSlotEach(Tab0)
    /\ \A k \in 1..MaxNode : Tab0[k].clientID = NoClient => Tab0[k] = Zero

VARIABLES
    tab,         \* the segment
    maps,        \* the addresses where it is attached
    m_shmAddr,
    p,           \* local p of each thread in a call
    use,         \* which call it is: "read" or "write"
    slot,        \* local i once the scan has stopped at a slot
    node,        \* the caller's NodeSHMInfo
    before,      \* history: the table before the call that is under way
    shmOverlap   \* history: two calls ran at the same time

shmVars == <<tab, maps, m_shmAddr, p, use, slot, node, before, shmOverlap>>

\* The constructor has copied the rows to the table.
ShmInit ==
    /\ tab = Tab0
    /\ maps = {}
    /\ m_shmAddr = NoAddr
    /\ p = [t \in Thread |-> NoAddr]
    /\ use = [t \in Thread |-> "read"]
    /\ slot = [t \in Thread |-> 0]
    /\ node = [t \in Thread |-> Zero]
    /\ before = tab
    /\ shmOverlap = FALSE

ShmTypeOK ==
    /\ tab \in [1..MaxNode -> NodeSHMInfo] /\ before \in [1..MaxNode -> NodeSHMInfo]
    /\ maps \subseteq Addr /\ m_shmAddr \in Addr \cup {NoAddr}
    /\ p \in [Thread -> Addr \cup {NoAddr}]
    /\ use \in [Thread -> {"read", "write"}]
    /\ slot \in [Thread -> 0..MaxNode] /\ node \in [Thread -> NodeSHMInfo]
    /\ shmOverlap \in BOOLEAN

InShm(t) ==
    pc[t] \in {"mapped", "readSlot", "ownSlot", "freeSlot", "copyHead", "copyKey",
               "detach"}

\* mapShm stores what shmat returns ...
Attach(t) ==
    /\ At(t, "attach")
    /\ \E a \in Addr \ maps :
          /\ maps' = maps \cup {a}
          /\ m_shmAddr' = a
    /\ before' = tab
    /\ shmOverlap' = (shmOverlap \/ \E u \in Thread : InShm(u))
    /\ Goto(t, "mapped")
    /\ StillRunning
    /\ UNCHANGED <<registry, st, sock, mainVars, tab, p, use, slot, node>>

\* ... and returns the member, whoever stored it last.
Mapped(t) ==
    /\ At(t, "mapped")
    /\ p' = [p EXCEPT ![t] = m_shmAddr]
    /\ Goto(t, IF use[t] = "read" THEN "readSlot" ELSE "ownSlot")
    /\ StillRunning
    /\ UNCHANGED <<registry, st, sock, mainVars, tab, maps, m_shmAddr, use, slot, node,
                   before, shmOverlap>>

\* A step inside the segment.
Reaches(t, call) == At(t, call) /\ p[t] \in maps

ShmDies(t, cause) ==
    /\ proc = "running"
    /\ InShm(t) /\ pc[t] \notin {"mapped", "detach"}
    /\ p[t] \notin maps
    /\ cause = "detached"

\* What is left of the calls when the process dies: the segment.
ShmGone ==
    /\ maps' = {}
    /\ m_shmAddr' = NoAddr
    /\ p' = [t \in Thread |-> NoAddr]
    /\ use' = [t \in Thread |-> "read"]
    /\ slot' = [t \in Thread |-> 0]
    /\ node' = [t \in Thread |-> Zero]
    /\ before' = tab
    /\ UNCHANGED <<tab, shmOverlap>>

ShmStep(t, next) ==
    /\ Goto(t, next)
    /\ StillRunning
    /\ UNCHANGED <<registry, st, sock, mainVars, maps, m_shmAddr, p, use, before,
                   shmOverlap>>

\* shmRead: the scan and the copy to the caller.
ReadSlot(t, c) ==
    /\ Reaches(t, "readSlot")
    /\ node' = [node EXCEPT ![t] = ShmRead(tab, c)]
    /\ ShmStep(t, "detach")
    /\ UNCHANGED <<tab, slot>>

\* shmWrite: the scan for the client's own slot ...
OwnSlot(t) ==
    LET own == SlotsOf(tab, node[t].clientID)
    IN  /\ Reaches(t, "ownSlot")
        /\ IF own # {}
           THEN slot' = [slot EXCEPT ![t] = First(own)] /\ ShmStep(t, "copyHead")
           ELSE UNCHANGED slot /\ ShmStep(t, "freeSlot")
        /\ UNCHANGED <<tab, node>>

\* Mutant: a slot whose key is revoked counts as free.
UnusedSlots == {k \in DOMAIN tab : tab[k].status = 0}

\* Mutant: the scan stops before the last slot.
AllButLast == FreeSlots(tab) \ {MaxNode}

Claimable == FreeSlots(tab)

\* ... and, without one, for a slot of zeros.
FreeSlot(t) ==
    /\ Reaches(t, "freeSlot")
    /\ IF Claimable # {}
       THEN slot' = [slot EXCEPT ![t] = First(Claimable)] /\ ShmStep(t, "copyHead")
       ELSE UNCHANGED slot /\ ShmStep(t, "detach")
    /\ UNCHANGED <<tab, node>>

\* memcpy of the node: what comes before seckey, ...
CopyHead(t) ==
    /\ Reaches(t, "copyHead")
    /\ tab' = [tab EXCEPT ![slot[t]] =
                         [node[t] EXCEPT !.seckey = tab[slot[t]].seckey]]
    /\ ShmStep(t, "copyKey")
    /\ UNCHANGED <<slot, node>>

\* Mutant: the copy stops before seckey.
CopyKeyShort(t) ==
    /\ Reaches(t, "copyKey")
    /\ ShmStep(t, "detach")
    /\ UNCHANGED <<tab, slot, node>>

\* ... and seckey.
CopyKey(t) ==
    /\ Reaches(t, "copyKey")
    /\ tab' = [tab EXCEPT ![slot[t]].seckey = node[t].seckey]
    /\ ShmStep(t, "detach")
    /\ UNCHANGED <<slot, node>>

\* unmapShm; shmdt fails when the address was detached before. What the thread
\* does next is its caller's business.
Detach(t) ==
    /\ At(t, "detach")
    /\ maps' = maps \ {m_shmAddr}
    /\ p' = [p EXCEPT ![t] = NoAddr]
    /\ slot' = [slot EXCEPT ![t] = 0]
    /\ before' = tab
    /\ StillRunning
    /\ UNCHANGED <<registry, st, sock, mainVars, tab, m_shmAddr, shmOverlap>>

TableStep(t, c) ==
    \/ Attach(t) \/ Mapped(t) \/ ReadSlot(t, c) \/ OwnSlot(t) \/ FreeSlot(t)
    \/ CopyHead(t) \/ CopyKey(t)
============================================================================
