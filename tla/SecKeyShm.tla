----------------------------- MODULE SecKeyShm -----------------------------
(***************************************************************************)
(* The shared-memory key table (class SecKeyShm), as pure operators.       *)
(*                                                                         *)
(* A table is a function from the slots 1..MaxNode to NodeSHMInfo records. *)
(* The constructor zeroes every slot and shmWrite takes an all-zero slot   *)
(* for a free one, so "free" is the record Zero and not a separate flag.   *)
(* The server keeps one table for all clients (maxnode = 10 in its main),  *)
(* every client host keeps a table with the single slot of that client.    *)
(*                                                                         *)
(* serverID is left out of the record: both mains fix it to "1", and both  *)
(* scans compare it with that same value.                                  *)
(***************************************************************************)
EXTENDS Integers

CONSTANTS
    Client,     \* identifiers of the client nodes
    NoClient,   \* the empty clientID of an all-zero slot
    Nonce1,     \* what the client's getRandString can return (r1)
    Nonce2,     \* what the server's getRandString can return (r2)
    Junk,       \* what an r2 field nobody assigned holds
    NoKey       \* the empty seckey of an all-zero slot

ASSUME NoClientAssumption == NoClient \notin Client

\* SHA1 over the concatenation of r1 and r2, taken to be injective. Both
\* getRandString functions seed rand() with the second of the call, so nothing
\* is said about two calls returning different strings.
R2 == Nonce2 \cup {Junk}

Key == Nonce1 \X R2

\* The seckey of a zeroed slot is the empty string; getRandString gives 63
\* characters, and a key is a digest.
ASSUME NoKeyAssumption == NoKey \notin Nonce1 \cup Key

NodeSHMInfo == [status: {0, 1}, seckeyID: Int,
                clientID: Client \cup {NoClient}, seckey: Key \cup {NoKey}]

Zero == [status |-> 0, seckeyID |-> 0, clientID |-> NoClient, seckey |-> NoKey]

ZeroTable(maxNode) == [k \in 1..maxNode |-> Zero]

\* A scan from slot 0 upwards stops at the first slot that qualifies.
First(S) == CHOOSE k \in S : \A j \in S : k <= j

\* Mutant: the comparison of the client is lost, any used slot matches.
SlotsOfAnyone(t, c) == {k \in DOMAIN t : t[k].clientID # NoClient}

\* The slots whose clientID the scan compares equal.
SlotsOf(t, c) == {k \in DOMAIN t : t[k].clientID = c}

FreeSlots(t) == {k \in DOMAIN t : t[k] = Zero}

\* Where shmWrite puts a node: over the client's own slots, else over the
\* free ones; empty when there is "no space to left".
WriteSlots(t, c) ==
    IF SlotsOf(t, c) # {} THEN SlotsOf(t, c) ELSE FreeSlots(t)

\* The table after shmWrite; without space it returns -1 and writes nothing.
ShmWrite(t, node) ==
    [k \in DOMAIN t |->
        IF WriteSlots(t, node.clientID) # {}
           /\ k = First(WriteSlots(t, node.clientID))
        THEN node ELSE t[k]]

\* The node a caller of shmRead ends up with: the callers zero it first, and
\* shmRead leaves it alone when no slot matches.
ShmRead(t, c) == IF SlotsOf(t, c) = {} THEN Zero ELSE t[First(SlotsOf(t, c))]

\* No two slots belong to the same client.
OneSlotEach(t) ==
    \A j, k \in DOMAIN t :
        t[j].clientID = t[k].clientID /\ t[j].clientID # NoClient => j = k
============================================================================
